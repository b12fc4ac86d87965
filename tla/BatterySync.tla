---------------------------- MODULE BatterySync ----------------------------
(***************************************************************************)
(* How a player's client learns of its energy and of the batteries in      *)
(* range: by reliable packets, sent only when there is something new.       *)
(*                                                                         *)
(* The server remembers what it has told the client and sends differences. *)
(* A packet that finds the client's queue full is not sent, and what was    *)
(* told must then stay as it was, so that the next tick tries again.       *)
(***************************************************************************)
EXTENDS Naturals, FiniteSets, Sequences

CONSTANTS
  Batteries,     \* ids of batteries; one picked up does not come back
  MaxEnergy,     \* bound
  QueueCap       \* PLAYER_OUTBOUND_QUEUE_CAPACITY

ASSUME SyncAssumption ==
  MaxEnergy \in Nat /\ QueueCap \in Nat /\ IsFiniteSet(Batteries)

Charges == 0 .. MaxEnergy
Never == MaxEnergy + 1      \* None, in last_sent_energy_centi

VARIABLES
  charge,       \* the player's energy
  around,       \* the batteries in range of the player
  lastEnergy,   \* last_sent_energy_centi
  visible,      \* visible_batteries
  pending,      \* battery_full_resync_pending
  outbox,       \* the packets queued or under way
  displayed,    \* the client's batteries
  shownEnergy,  \* the client's localPlayerEnergy
  told,         \* history: what the client will show once all has arrived
  toldEnergy    \* history: likewise

tellVars == <<lastEnergy, visible, pending, outbox, told, toldEnergy>>
learntVars == <<displayed, shownEnergy>>
syncVars == <<charge, around, tellVars, learntVars>>

\* A packet, with the history of what it should leave the client with.  "full"
\* is a BatterySync with full_resync set, "some" one without; "other" is any
\* other packet for this client.
SyncPacket == [kind : {"energy", "full", "some", "other"}, value : Charges,
               add : SUBSET Batteries, remove : SUBSET Batteries,
               then : SUBSET Batteries, thenEnergy : Charges]

-----------------------------------------------------------------------------
\* What each packet of the two does to the client

AppliedMutant(S, p) == (S \ p.remove) \cup p.add

\* applyBatterySync
Applied(S, p) ==
  CASE p.kind = "full" -> p.add
    [] p.kind = "some" -> (S \ p.remove) \cup p.add
    [] OTHER -> S

\* applyLocalPlayerEnergy
AppliedEnergy(e, p) == IF p.kind = "energy" THEN p.value ELSE e

-----------------------------------------------------------------------------
\* The server

\* try_queue_packet
HasRoom == Len(outbox) < QueueCap

BelievesMutant == TRUE

\* What is told is remembered only of a packet that was queued.
Believes == HasRoom

EnergyPacket == [kind |-> "energy", value |-> charge, add |-> {}, remove |-> {},
                 then |-> told, thenEnergy |-> charge]

BatteryPacket ==
  [kind |-> IF pending THEN "full" ELSE "some", value |-> 0,
   add |-> IF pending THEN around ELSE around \ visible,
   remove |-> IF pending THEN {} ELSE visible \ around,
   then |-> around, thenEnergy |-> toldEnergy]

\* maybe_send_local_player_energy_update
TellEnergy ==
  /\ lastEnergy # charge /\ Believes
  /\ lastEnergy' = charge
  /\ IF HasRoom
     THEN outbox' = Append(outbox, EnergyPacket) /\ toldEnergy' = charge
     ELSE UNCHANGED <<outbox, toldEnergy>>
  /\ UNCHANGED <<charge, around, visible, pending, told, learntVars>>

\* sync_batteries_for_player; told is what the packet makes of the client.
TellBatteries ==
  /\ pending \/ around # visible
  /\ Believes
  /\ visible' = around /\ pending' = FALSE
  /\ IF HasRoom
     THEN outbox' = Append(outbox, BatteryPacket) /\ told' = Applied(told, BatteryPacket)
     ELSE UNCHANGED <<outbox, told>>
  /\ UNCHANGED <<charge, around, lastEnergy, toldEnergy, learntVars>>

\* Another packet for this client takes a place in its queue.
TellOther ==
  /\ HasRoom
  /\ outbox' = Append(outbox, [kind |-> "other", value |-> 0, add |-> {}, remove |-> {},
                               then |-> told, thenEnergy |-> toldEnergy])
  /\ UNCHANGED <<charge, around, lastEnergy, visible, pending, told, toldEnergy,
                 learntVars>>

\* The world: the player drives and picks up, moves, and batteries are taken.
Spend ==
  /\ charge' \in Charges \ {charge}
  /\ UNCHANGED <<around, tellVars, learntVars>>

Wander ==
  /\ around' \in SUBSET Batteries \ {around}
  /\ UNCHANGED <<charge, tellVars, learntVars>>

\* kill_player_with_cause
Perish ==
  /\ charge' = 0 /\ lastEnergy' = Never
  /\ UNCHANGED <<around, visible, pending, outbox, told, toldEnergy, learntVars>>

\* process_respawns
Revive ==
  /\ charge' \in Charges /\ lastEnergy' = Never
  /\ visible' = {} /\ pending' = TRUE
  /\ UNCHANGED <<around, outbox, told, toldEnergy, learntVars>>

\* The connection is replaced by a new one: a PlayerRuntime of its own in
\* handle_event, and reset in the client.
Reconnect ==
  /\ lastEnergy' = Never /\ visible' = {} /\ pending' = TRUE /\ outbox' = << >>
  /\ displayed' = {} /\ shownEnergy' = 0 /\ told' = {} /\ toldEnergy' = 0
  /\ UNCHANGED <<charge, around>>

\* The client takes the next packet.
Learn ==
  /\ outbox # << >> /\ outbox' = Tail(outbox)
  /\ displayed' = Applied(displayed, Head(outbox))
  /\ shownEnergy' = AppliedEnergy(shownEnergy, Head(outbox))
  /\ UNCHANGED <<charge, around, lastEnergy, visible, pending, told, toldEnergy>>

-----------------------------------------------------------------------------

SyncInit ==
  /\ charge \in Charges /\ around \in SUBSET Batteries
  /\ lastEnergy = Never /\ visible = {} /\ pending = TRUE
  /\ outbox = << >> /\ displayed = {} /\ shownEnergy = 0 /\ told = {} /\ toldEnergy = 0

SyncNext ==
  \/ TellEnergy \/ TellBatteries \/ TellOther \/ Learn
  \/ Spend \/ Wander \/ Perish \/ Revive \/ Reconnect

SyncSpec == SyncInit /\ [][SyncNext]_syncVars

\* Both are tried on every tick; the writer keeps the queue moving.
SyncFairness ==
  /\ SF_syncVars(TellEnergy) /\ SF_syncVars(TellBatteries) /\ WF_syncVars(Learn)

SyncFairSpec == SyncSpec /\ SyncFairness

-----------------------------------------------------------------------------

\* The types of the variables.
SyncTypeOK ==
  /\ charge \in Charges /\ around \subseteq Batteries
  /\ lastEnergy \in Charges \cup {Never} /\ visible \subseteq Batteries
  /\ pending \in BOOLEAN /\ outbox \in Seq(SyncPacket) /\ Len(outbox) <= QueueCap
  /\ displayed \subseteq Batteries /\ shownEnergy \in Charges
  /\ told \subseteq Batteries /\ toldEnergy \in Charges

\* Unless a full resync is due, what the server believes the client to show is
\* what it will show, and does show once the queue is empty: a packet that was
\* never sent, or a respawn, leaves no battery behind and hides none.  The same
\* of the energy, until a death or a new connection.
ClientFollows ==
  /\ ~pending => /\ told = visible
                 /\ outbox = << >> => displayed = visible
  /\ lastEnergy # Never => /\ toldEnergy = lastEnergy
                           /\ outbox = << >> => shownEnergy = lastEnergy

Calm == TellEnergy \/ TellBatteries \/ TellOther \/ Learn

\* Once the player's energy and surroundings stop changing, the client comes to
\* show both, whatever else fills its queue.
CatchesUp ==
  <>[][Calm]_syncVars => <>[](displayed = around /\ shownEnergy = charge)
=============================================================================
