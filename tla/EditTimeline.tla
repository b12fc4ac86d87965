---------------------------- MODULE EditTimeline ----------------------------
(***************************************************************************)
(* What undo and redo promise of an editor: its documents lie on one line, *)
(* in the order in which they came about, and the editor is somewhere on   *)
(* it.  Undo and redo move it by one.  An edit cuts off what lies ahead and *)
(* adds to the end; only the oldest documents are forgotten.               *)
(***************************************************************************)
EXTENDS Naturals, Sequences

CONSTANTS
  Documents,
  Limit      \* how many undos the editor remembers

VARIABLES line, at

timeVars == <<line, at>>

Newest(s) == IF Len(s) > Limit + 1 THEN SubSeq(s, Len(s) - Limit, Len(s)) ELSE s

\* An edit from the document before, which the editor was at, to next.
Record == \E before, next \in Documents :
  /\ line' = Newest(SubSeq(line, 1, at - 1) \o <<before, next>>)
  /\ at' = Len(line')

\* Undo or redo.
Move == line' = line /\ at' \in {at - 1, at + 1} \cap 1 .. Len(line)

\* A change that is not recorded, or not yet.
Amend == \E d \in Documents : line' = [line EXCEPT ![at] = d] /\ at' = at

\* The editor opens a document.
Restart == \E d \in Documents : line' = <<d>> /\ at' = 1

TimeInit == \E d \in Documents : line = <<d>> /\ at = 1
TimeNext == Record \/ Move \/ Amend \/ Restart
TimeSpec == TimeInit /\ [][TimeNext]_timeVars
=============================================================================
