------------------------------ MODULE MCEditor ------------------------------
(***************************************************************************)
(* Four parts of the world editor that share no state, for TLC: the undo   *)
(* history, the drafts in the browser's storage, the publishing of a world *)
(* and the chats.  An initial state says which of them moves; the others   *)
(* stay as they were at the start: the run has the behaviours of each part *)
(* and no product.                                                         *)
(***************************************************************************)
EXTENDS WorldHistory, WorldDrafts, WorldPublish, ChatTurns

CONSTANTS d0, d1, d2

VARIABLE which   \* the part that moves

editorVars == <<which, historyVars, draftVars, publishVars, chatVars>>

HistoryStep ==
  /\ which = "history" /\ HistoryNext
  /\ UNCHANGED <<which, draftVars, publishVars, chatVars>>

DraftsStep ==
  /\ which = "drafts" /\ DraftNext
  /\ UNCHANGED <<which, historyVars, publishVars, chatVars>>

PublishStep ==
  /\ which = "publish" /\ PublishNext
  /\ UNCHANGED <<which, historyVars, draftVars, chatVars>>

ChatStep ==
  /\ which = "chat" /\ ChatNext
  /\ UNCHANGED <<which, historyVars, draftVars, publishVars>>

\* All publications have come to an end.
Over ==
  /\ which = "publish" /\ ~ENABLED PublishNext
  /\ UNCHANGED editorVars

EditorInit ==
  /\ which \in {"history", "drafts", "publish", "chat"}
  /\ HistoryInit /\ DraftInit /\ PublishInit /\ ChatInit
  /\ which # "history" => world = d1
  /\ which # "drafts" => draft = {}
  /\ which # "publish" => kind = "local"
  /\ which # "chat" => chat = CHOOSE c \in Chats : TRUE

EditorNext == HistoryStep \/ DraftsStep \/ PublishStep \/ ChatStep \/ Over

\* Timers, renders and storage go on; and so does the handling of an upload.
EditorFairness ==
  /\ WF_draftVars(which = "drafts" /\ Background)
  /\ WF_publishVars(which = "publish" /\ \E p \in Puts : Handle(p))

EditorSpec == EditorInit /\ [][EditorNext]_editorVars /\ EditorFairness

\* The types of the variables of the four parts.
EditorTypes == HistoryTypeOK /\ DraftTypeOK /\ PublishTypeOK /\ ChatTypeOK
=============================================================================
