---------------------------- MODULE WorldDrafts -----------------------------
(***************************************************************************)
(* What the world editor keeps in the browser's storage: the current draft *)
(* of the world, saved some time after the last edit, and a few revisions. *)
(*                                                                         *)
(* The storage performs requests in the order in which they were made.     *)
(* A revision is added by two of them: one reads the list, and only when   *)
(* it is answered the other one, which writes it, is made.                 *)
(***************************************************************************)
EXTENDS Naturals, Sequences

CONSTANTS
  Drafts,        \* bound: the worlds there can be
  DefaultWorld,  \* DEFAULT_WORLD_DOCUMENT
  EmptyWorld,    \* createEmptyWorldDocument()
  MaxRevisions,  \* DEFAULT_WORLD_HISTORY_LIMIT
  MaxRequests    \* bound: requests under way when a person acts

ASSUME DraftAssumption ==
  /\ {DefaultWorld, EmptyWorld} \subseteq Drafts /\ DefaultWorld # EmptyWorld
  /\ MaxRevisions \in Nat \ {0} /\ MaxRequests \in Nat

VARIABLES
  edited,    \* the world, as it was last set
  stale,     \* history: set since the last render, or storageReady was
  ready,     \* storageReady
  timer,     \* the world that the autosave timer will save, if it runs
  requests,  \* under way: [op, worlds]
  draft,     \* stored: the draft, if there is one
  revisions, \* stored: the revisions, the latest first
  listed,    \* the revisions the editor shows
  wiped      \* history: the draft was removed and the world did not change

storeVars == <<draft, revisions>>
draftVars == <<edited, stale, ready, timer, requests, storeVars, listed, wiped>>

Ops == {"load", "save", "clear", "read", "write", "drop"}
Request(op, worlds) == [op |-> op, worlds |-> worlds]

-----------------------------------------------------------------------------
\* A person acts

Free == Len(requests) < MaxRequests

\* An edit, or the arrival of a published world.
Change(w) ==
  /\ w # edited /\ edited' = w /\ stale' = TRUE
  /\ UNCHANGED <<ready, timer, requests, storeVars, listed, wiped>>

\* handleImportFile: an edit and a revision
Import(w) ==
  /\ Free
  /\ edited' = w /\ stale' = (stale \/ w # edited)
  /\ requests' = Append(requests, Request("read", <<w>>))
  /\ UNCHANGED <<ready, timer, storeVars, listed, wiped>>

\* handleRestoreRevision
RestoreRevision(i) ==
  /\ i \in DOMAIN listed /\ listed[i] # edited
  /\ edited' = listed[i] /\ stale' = TRUE
  /\ UNCHANGED <<ready, timer, requests, storeVars, listed, wiped>>

\* handleResetToDefault, handleClearAll
Wipe(w) ==
  /\ Free
  /\ requests' = requests \o <<Request("clear", << >>), Request("drop", << >>)>>
  /\ edited' = w /\ stale' = (stale \/ w # edited)
  /\ wiped' = (~stale /\ timer = {} /\ w = edited)
  /\ listed' = << >>
  /\ UNCHANGED <<ready, timer, storeVars>>

\* The page is left and opened again.  Requests that were not performed may be
\* lost with it.
Reopen ==
  /\ edited' = DefaultWorld /\ stale' = TRUE /\ ready' = FALSE /\ timer' = {}
  /\ requests' = <<Request("load", << >>)>> /\ listed' = << >> /\ wiped' = FALSE
  /\ UNCHANGED storeVars

-----------------------------------------------------------------------------
\* The editor

ArmedMutant == timer = {}

\* Whether the autosave effect, which runs when the world or storageReady has
\* changed, sets the timer.  It stops the one that runs.
Armed == ready

\* A render, with its effects
Show ==
  /\ stale /\ stale' = FALSE
  /\ timer' = IF Armed THEN {edited} ELSE timer
  /\ UNCHANGED <<edited, ready, requests, storeVars, listed, wiped>>

\* The timer: saveCurrentDraft, and now and then a revision.
Autosave ==
  /\ Free /\ timer # {} /\ timer' = {}
  /\ \E w \in timer :
       LET saved == Append(requests, Request("save", <<w>>))
       IN  requests' \in {saved, Append(saved, Request("read", <<w>>))}
  /\ wiped' = FALSE
  /\ UNCHANGED <<edited, stale, ready, storeVars, listed>>

-----------------------------------------------------------------------------
\* The storage, and what the editor does with an answer

\* The revisions that are kept of a list.
Kept(list) == IF Len(list) > MaxRevisions THEN SubSeq(list, 1, MaxRevisions) ELSE list

Shortened(s) == SubSeq(s, 1, Len(s) - 1)

\* The answers to loadCurrentDraft and loadRevisionHistory.  Edits made before
\* are overwritten.
Loaded ==
  /\ edited' \in (IF draft = {} THEN {edited} ELSE draft)
  /\ stale' = TRUE /\ listed' = revisions /\ ready' = TRUE

\* The first request is answered.  A list of revisions that does not fit is
\* shortened and written again.
Perform ==
  /\ requests # << >>
  /\ LET r == Head(requests)
         rest == Tail(requests) IN
     \/ /\ r.op = "load" /\ Loaded
        /\ requests' = rest /\ UNCHANGED storeVars
     \/ /\ r.op = "save" /\ draft' = {Head(r.worlds)}
        /\ requests' = rest /\ UNCHANGED <<edited, stale, ready, revisions, listed>>
     \/ /\ r.op = "clear" /\ draft' = {}
        /\ requests' = rest /\ UNCHANGED <<edited, stale, ready, revisions, listed>>
     \/ /\ r.op = "read"
        /\ requests' = Append(rest, Request("write", Kept(r.worlds \o revisions)))
        /\ UNCHANGED <<edited, stale, ready, storeVars, listed>>
     \/ /\ r.op = "write" /\ revisions' = r.worlds /\ listed' = r.worlds
        /\ requests' = rest /\ UNCHANGED <<edited, stale, ready, draft>>
     \/ /\ r.op = "write"
        /\ requests' = Append(rest, IF Len(r.worlds) = 1 THEN Request("drop", <<EmptyWorld>>)
                                    ELSE Request("write", Shortened(r.worlds)))
        /\ UNCHANGED <<edited, stale, ready, storeVars, listed>>
     \/ /\ r.op = "drop" /\ revisions' = << >>
        /\ listed' = IF r.worlds = << >> THEN listed ELSE << >>
        /\ requests' = rest /\ UNCHANGED <<edited, stale, ready, draft>>
  /\ UNCHANGED <<timer, wiped>>

-----------------------------------------------------------------------------

DraftInit ==
  /\ edited = DefaultWorld /\ stale = TRUE /\ ready = FALSE /\ timer = {}
  /\ requests = <<Request("load", << >>)>>
  /\ draft \in {{}} \cup {{w} : w \in Drafts} /\ revisions = << >>
  /\ listed = << >> /\ wiped = FALSE

\* What goes on when nobody acts.
Background == Show \/ Autosave \/ Perform

DraftNext ==
  \/ Background \/ Reopen
  \/ \E w \in Drafts : Change(w) \/ Import(w)
  \/ \E i \in 1 .. MaxRevisions : RestoreRevision(i)
  \/ \E w \in {DefaultWorld, EmptyWorld} : Wipe(w)

DraftSpec == DraftInit /\ [][DraftNext]_draftVars

DraftFairness == WF_draftVars(Background)

-----------------------------------------------------------------------------

\* The types of the variables.
DraftTypeOK ==
  /\ edited \in Drafts /\ stale \in BOOLEAN /\ ready \in BOOLEAN /\ wiped \in BOOLEAN
  /\ timer \subseteq Drafts /\ draft \subseteq Drafts
  /\ requests \in Seq([op : Ops, worlds : Seq(Drafts)])
  /\ revisions \in Seq(Drafts) /\ Len(revisions) <= MaxRevisions
  /\ listed \in Seq(Drafts) /\ Len(listed) <= MaxRevisions

\* The world that opening the page again would show.
Reopened == IF draft = {} THEN {DefaultWorld} ELSE draft

\* Once the person stops, opening the page again will show the same world,
\* whatever edits came while storage was being read, while the timer ran, or
\* between the two requests that add a revision.  The exception is to empty a
\* world that is empty: its draft is removed, and not saved again.
Saves == <>[][Background]_draftVars => <>[](Reopened = {edited} \/ wiped)
=============================================================================
