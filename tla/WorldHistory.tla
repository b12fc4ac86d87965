---------------------------- MODULE WorldHistory ----------------------------
(***************************************************************************)
(* The world editor: the world, its undo and redo stacks, and those who    *)
(* change it -- a person, by single edits and by drags, and an AI whose     *)
(* code runs for a while beside the person.                                *)
(*                                                                         *)
(* Handlers read the world and the stacks from two references and give new *)
(* values to the references and to React.  React renders later, and the    *)
(* effects of a render, which run later still, set the references again to *)
(* what was rendered.                                                      *)
(***************************************************************************)
EXTENDS Naturals, Sequences, SequencesExt, FiniteSets

CONSTANTS
  Documents,  \* bound: the worlds there can be
  Limit       \* GOD_MODE_UNDO_LIMIT

ASSUME HistoryAssumption == Limit \in Nat \ {0}

VARIABLES
  world,    \* worldRef
  undo,     \* editHistoryRef: undoStack and
  redo,     \*   redoStack, the worlds of their entries, the latest first
  given,    \* the last values given to setWorld and setEditHistory
  dirty,    \* history: which of the two were set since the last render
  rendered, \* the render whose effects have not run, if any
  drag,     \* editTransactionRef: the world before the drag, if any
  ai,       \* the run of execute_js, if any: [before, edited]
  loading   \* whether the draft is still being read from storage

refVars == <<world, undo, redo>>
reactVars == <<given, dirty, rendered>>
historyVars == <<refVars, reactVars, drag, ai, loading>>

\* The two effects that set a reference.
World == 1
History == 2

Value == [world : Documents, undo : Seq(Documents), redo : Seq(Documents)]

-----------------------------------------------------------------------------

\* GOD_MODE_UNDO_LIMIT entries of a stack
Latest(s) == IF Len(s) > Limit THEN SubSeq(s, 1, Limit) ELSE s

\* replaceWorldState, replaceEditHistoryState: what is set is set in the
\* references and given to React.
Give(what) ==
  /\ given' = [world |-> IF World \in what THEN world' ELSE given.world,
               undo |-> IF History \in what THEN undo' ELSE given.undo,
               redo |-> IF History \in what THEN redo' ELSE given.redo]
  /\ dirty' = dirty \cup what
  /\ UNCHANGED rendered

CommitMutant(before, after, what) ==
  IF before = after
  THEN UNCHANGED <<undo, redo>> /\ Give(what)
  ELSE /\ undo' = Latest(<<before>> \o undo) /\ UNCHANGED redo
       /\ Give(what \cup {History})

\* commitWorldEdit and what follows it.  "what" is set in any case.
Commit(before, after, what) ==
  IF before = after
  THEN UNCHANGED <<undo, redo>> /\ Give(what)
  ELSE /\ undo' = Latest(<<before>> \o undo) /\ redo' = << >>
       /\ Give(what \cup {History})

\* applyCommittedWorldEdit: any edit by a person, the import of a file, an old
\* revision or a published world, a reset.  Without a change nothing is set.
Edit(d) ==
  /\ d # world /\ world' = d
  /\ Commit(world, d, {World})
  /\ UNCHANGED <<drag, ai, loading>>

\* beginTrackedWorldEdit
BeginDrag ==
  /\ drag = {} /\ drag' = {world}
  /\ UNCHANGED <<refVars, reactVars, ai, loading>>

\* applyPreviewWorldEdit: the world follows the pointer.
Drag(d) ==
  /\ d # world /\ world' = d
  /\ UNCHANGED <<undo, redo>> /\ Give({World})
  /\ UNCHANGED <<drag, ai, loading>>

\* commitTrackedWorldEdit
EndDrag(before) ==
  /\ drag = {before} /\ drag' = {}
  /\ UNCHANGED <<world, ai, loading>>
  /\ Commit(before, world, {})

\* handleHumanCommit: a named entry for the world as it is.
Bookmark ==
  /\ undo' = Latest(<<world>> \o undo) /\ redo' = << >>
  /\ UNCHANGED <<world, drag, ai, loading>> /\ Give({History})

UndoMutant ==
  /\ undo # << >>
  /\ world' = Head(undo) /\ undo' = Tail(undo)
  /\ redo' = <<Head(undo)>> \o redo
  /\ Give({World, History})

\* undoWorldEdit
Undo ==
  /\ undo # << >>
  /\ world' = Head(undo) /\ undo' = Tail(undo)
  /\ redo' = Latest(<<world>> \o redo)
  /\ Give({World, History})

\* redoWorldEdit
Redo ==
  /\ redo # << >>
  /\ world' = Head(redo) /\ redo' = Tail(redo)
  /\ undo' = Latest(<<world>> \o undo)
  /\ Give({World, History})

\* handleUndo, handleRedo: a drag is given up, whether or not there is anything
\* to undo or to redo.
UndoOrRedo ==
  /\ drag' = {} /\ UNCHANGED <<ai, loading>>
  /\ \/ Undo \/ Redo
     \/ undo = << >> /\ UNCHANGED <<refVars, reactVars>>
     \/ redo = << >> /\ UNCHANGED <<refVars, reactVars>>

-----------------------------------------------------------------------------
\* The AI

\* executeJsToolExecute, up to where it waits for the code it runs
AiStart ==
  /\ ai = {} /\ ai' = {[before |-> world, edited |-> FALSE]}
  /\ UNCHANGED <<refVars, reactVars, drag, loading>>

\* An edit by that code; commitEdit is applyWithoutCommit for it.
AiEdit(r, d) ==
  /\ r \in ai /\ ai' = {[r EXCEPT !.edited = TRUE]}
  /\ d # world /\ world' = d
  /\ UNCHANGED <<undo, redo, drag, loading>> /\ Give({World})

\* The code has thrown: restoreWorld, if it has edited anything.
AiFail(r) ==
  /\ r \in ai /\ ai' = {}
  /\ world' = IF r.edited THEN r.before ELSE world
  /\ UNCHANGED <<undo, redo, drag, loading>>
  /\ Give(IF r.edited THEN {World} ELSE {})

\* The code has returned: commitAsAi, if it has edited anything.
AiDone(r) ==
  /\ r \in ai /\ ai' = {}
  /\ UNCHANGED <<world, drag, loading>>
  /\ IF r.edited THEN Commit(r.before, world, {})
     ELSE UNCHANGED <<undo, redo, reactVars>>

\* rollbackToCommit, for one of the entries there are
Rollback(i) ==
  /\ ai = {} /\ i \in DOMAIN undo
  /\ undo[i] # world /\ world' = undo[i]
  /\ Commit(world, undo[i], {World})
  /\ UNCHANGED <<drag, ai, loading>>

-----------------------------------------------------------------------------
\* React

\* React renders what it was given last.  It runs the effects of one render
\* before it starts another.
Render ==
  /\ dirty # {} /\ rendered = {}
  /\ rendered' = {[of |-> given, changed |-> dirty]}
  /\ dirty' = {}
  /\ UNCHANGED <<refVars, given, drag, ai, loading>>

\* The effects of a render set the references to what was rendered.
Effects(r) ==
  /\ r \in rendered /\ rendered' = {}
  /\ world' = IF World \in r.changed THEN r.of.world ELSE world
  /\ undo' = IF History \in r.changed THEN r.of.undo ELSE undo
  /\ redo' = IF History \in r.changed THEN r.of.redo ELSE redo
  /\ UNCHANGED <<given, dirty, drag, ai, loading>>

\* The draft has been read: it replaces the world, if there is one, and a new
\* history replaces what was edited meanwhile.
LoadDraft(what) ==
  /\ loading /\ loading' = FALSE
  /\ World \in what \/ world' = world
  /\ world' \in Documents /\ undo' = << >> /\ redo' = << >>
  /\ UNCHANGED <<drag, ai>> /\ Give(what)

-----------------------------------------------------------------------------
\* The editor opens with the default world and no history.

HistoryInit ==
  /\ world \in Documents /\ undo = << >> /\ redo = << >>
  /\ given = [world |-> world, undo |-> << >>, redo |-> << >>]
  /\ dirty = {} /\ rendered = {}
  /\ drag = {} /\ ai = {} /\ loading = TRUE

HistoryNext ==
  \/ \E d \in Documents : Edit(d) \/ Drag(d) \/ (\E r \in ai : AiEdit(r, d))
  \/ BeginDrag \/ (\E d \in drag : EndDrag(d)) \/ Bookmark \/ UndoOrRedo
  \/ AiStart \/ (\E r \in ai : AiFail(r) \/ AiDone(r))
  \/ (\E i \in 1 .. Limit : Rollback(i))
  \/ LoadDraft({History}) \/ LoadDraft({World, History})
  \/ Render \/ (\E r \in rendered : Effects(r))

HistorySpec == HistoryInit /\ [][HistoryNext]_historyVars

-----------------------------------------------------------------------------

\* The types of the variables.  The two stacks never hold more than the limit
\* between them: what undo cuts off the redo stack, and redo off the undo stack,
\* is nothing.
HistoryTypeOK ==
  /\ world \in Documents /\ given \in Value
  /\ undo \in Seq(Documents) /\ redo \in Seq(Documents)
  /\ Len(undo) + Len(redo) <= Limit
  /\ dirty \subseteq {World, History}
  /\ rendered \subseteq [of : Value, changed : SUBSET {World, History}]
  /\ drag \subseteq Documents /\ ai \subseteq [before : Documents, edited : BOOLEAN]
  /\ loading \in BOOLEAN
  /\ Cardinality(rendered) <= 1 /\ Cardinality(drag) <= 1 /\ Cardinality(ai) <= 1

Timeline == INSTANCE EditTimeline WITH
  line <- Reverse(undo) \o <<world>> \o redo, at <- Len(undo) + 1

\* The references are what React was given.
InStep == given = [world |-> world, undo |-> undo, redo |-> redo]

\* As long as no effect sets a reference back to something older, every change
\* keeps to the timeline, whatever edits, drags, runs of the AI and
\* rollbacks cross: undo and redo only move, and what an edit leaves behind is
\* the next undo.
KeepsToTimeline ==
  [][InStep /\ InStep' => Timeline!TimeNext \/ UNCHANGED Timeline!timeVars]_historyVars
=============================================================================
