------------------------------ MODULE MCMatch ------------------------------
(***************************************************************************)
(* Three parts of a match that share no state, for TLC: the blocks of the  *)
(* world, the lives of players, and what snapshots show of the vehicles    *)
(* and the loose bodies.  An initial state says which of them moves, and   *)
(* whether blocks are edited where nothing is lost ("calm") or where       *)
(* everything may be ("blocks").  What does not move stays as it was at    *)
(* the start: the run has the behaviours of each part and no product.      *)
(***************************************************************************)
EXTENDS VoxelSync, MatchLife, Interest, TLC

CONSTANTS v1, b1

OneBattery == {[id |-> 1, energy |-> 1]}

VARIABLE which   \* the part that moves

matchVars == <<which, vars, lifeVars, interestVars>>

\* The blocks where connections are reliable, no queue is full, nobody dies and
\* everybody joins in range.
Calm == INSTANCE VoxelSync
  WITH Reliable <- TRUE, MayDrop <- FALSE, MayDie <- FALSE, FarJoins <- FALSE

\* A vehicle takes twice the room of a body.  The worlds: at the border of the
\* range; one's own vehicle; the body near; the body far.
Sizes == (v1 :> 2) @@ (b1 :> 1)
At(v, b, m, o) == [dist |-> (v1 :> v) @@ (b1 :> b), moving |-> m, own |-> o]
SomeWorlds ==
  {At(1, 1, {}, {}), At(1, 1, {v1}, {v1}), At(2, 0, {}, {}), At(1, 2, {v1}, {})}

BlocksStep == which = "blocks" /\ Next /\ UNCHANGED <<which, lifeVars, interestVars>>

CalmStep == which = "calm" /\ Calm!Next /\ UNCHANGED <<which, lifeVars, interestVars>>

LifeStep == which = "life" /\ LifeNext /\ UNCHANGED <<which, vars, interestVars>>

InterestStep ==
  which = "interest" /\ InterestNext /\ UNCHANGED <<which, vars, lifeVars>>

\* The bound on snapshots has been reached.
Over == which = "interest" /\ tick = MaxTick /\ flight = {} /\ UNCHANGED matchVars

MatchInit ==
  /\ which \in {"blocks", "calm", "life", "interest"}
  /\ Init /\ LifeInit /\ InterestInit
  /\ which # "interest" => strict = TRUE

MatchNext == BlocksStep \/ CalmStep \/ LifeStep \/ InterestStep \/ Over

\* Where nothing is lost, what is under way arrives; and ticks do not stop.
MatchFairness ==
  /\ \A c \in Clients : /\ WF_vars(which = "calm" /\ Calm!ReceivePacket(c))
                        /\ WF_vars(which = "calm" /\ Calm!ReceiveEdit(c))
  /\ WF_lifeVars(which = "life" /\ TickStep)

MatchSpec == MatchInit /\ [][MatchNext]_matchVars /\ MatchFairness

\* The types of the variables of the three parts.
MatchTypes == TypeOK /\ LifeTypeOK /\ InterestTypeOK

\* Over a stream whose queues have room, once the edits stop every client that
\* stays shows the server's blocks and awaits nothing: Converges of VoxelSync,
\* which it does not promise elsewhere.
CalmConverges == which = "calm" => Converges
=============================================================================
