----------------------------- MODULE InputStream -----------------------------
(***************************************************************************)
(* What the input path of one player promises, whatever carries it: the    *)
(* server decides each input once, in the order they were made; the client *)
(* learns how far it got, never too far and never less than before; and    *)
(* what the client predicts with is exactly what it has not yet been told  *)
(* was decided, the inputs made in another mode of control aside.          *)
(***************************************************************************)
EXTENDS Integers

VARIABLES
  made,     \* inputs 1 .. made have been generated
  decided,  \* the server has applied or skipped 1 .. decided, for good
  known,    \* the client knows that 1 .. known are decided
  replay    \* the inputs the on-foot prediction will replay

streamVars == <<made, decided, known, replay>>

StreamInit == made = 0 /\ decided = 0 /\ known = 0 /\ replay = {}

\* The client makes inputs, on foot (they join the replay) or driving.
Make ==
  /\ made' \in Nat /\ made' > made
  /\ replay' \in {replay, replay \cup (made + 1 .. made')}
  /\ UNCHANGED <<decided, known>>

\* The server decides more inputs, only ones that were made.
Decide ==
  /\ decided' \in Nat /\ decided < decided' /\ decided' <= made
  /\ UNCHANGED <<made, known, replay>>

\* The client learns of a decision; on foot it drops from the replay what
\* was decided, and nothing else.
Learn ==
  /\ known' \in Nat /\ known <= known' /\ known' <= decided
  /\ replay' \in {replay, {i \in replay : i > known'}}
  /\ UNCHANGED <<made, decided>>

StreamNext == Make \/ Decide \/ Learn

StreamSpec == StreamInit /\ [][StreamNext]_streamVars
=============================================================================
