----------------------------- MODULE ChatTurns ------------------------------
(***************************************************************************)
(* The chats with the AI that edits a world: one is shown, its messages    *)
(* are loaded from the browser's storage when it is chosen and saved there *)
(* when they change; a turn streams an answer into the last of them.       *)
(*                                                                         *)
(* A message of the model is a turn: what the user wrote and the answer.    *)
(* The storage performs requests in order; a save is a read, for the date   *)
(* of the chat, and then a write.  Either may fail without a word.          *)
(***************************************************************************)
EXTENDS Naturals, Sequences, FiniteSets

CONSTANTS
  Chats,
  MaxTurns,    \* bound: turns ever taken
  MaxWaiting   \* bound: requests under way

ASSUME ChatAssumption == MaxTurns \in Nat /\ MaxWaiting \in Nat

VARIABLES
  chat,      \* chatId
  loaded,    \* loadedChatId, as a set of at most one
  messages,  \* the messages shown: [of, turn, done]
  streaming, \* whether status is streaming
  runs,      \* the turns that run: [of, turn, aborted]
  current,   \* the turn whose controller is in abortRef; 0 if none
  unsaved,   \* history: messages or loadedChatId have changed since the last render
  waiting,   \* requests under way: [op, of, messages, live]
  stored,    \* the stored messages of each chat
  failed,    \* history: the chats whose last write has failed
  turns      \* history: turns taken

chatVars == <<chat, loaded, messages, streaming, runs, current, unsaved, waiting,
              stored, failed, turns>>

Message == [of : Chats, turn : 1 .. MaxTurns, done : BOOLEAN]
Waiting == [op : {"load", "read", "write"}, of : Chats, messages : SUBSET Message,
            live : BOOLEAN]

Aborted(t) == {IF r.turn = t THEN [r EXCEPT !.aborted = TRUE] ELSE r : r \in runs}

-----------------------------------------------------------------------------

GateMutant(c) == messages # {}
IdleMutant(c) == loaded = {c} /\ messages # {} /\ ~streaming

\* Whether the effect that persists saves when c is shown; saveChat does not
\* store nothing.
Stores(c) == loaded = {c} /\ messages # {}

StoreRequest(c) ==
  IF Stores(c)
  THEN <<[op |-> "read", of |-> c, messages |-> messages, live |-> TRUE]>>
  ELSE << >>

\* Another chat is chosen.  The effect of chatId aborts the stream, resets the
\* state and loads; its cleanup cancels the load before.  The effect that
\* persists runs too, with what was shown until now.
Choose(c) ==
  /\ c # chat /\ Len(waiting) < MaxWaiting
  /\ chat' = c /\ loaded' = {} /\ messages' = {} /\ streaming' = FALSE
  /\ runs' = Aborted(current) /\ current' = 0 /\ unsaved' = FALSE
  /\ waiting' = [k \in DOMAIN waiting |-> [waiting[k] EXCEPT !.live = FALSE]]
                  \o <<[op |-> "load", of |-> c, messages |-> {}, live |-> TRUE]>>
                  \o StoreRequest(c)
  /\ UNCHANGED <<stored, failed, turns>>

\* sendMessage, regenerateMessage, submitEditedMessage: a new turn, after some
\* of those there are.
Take(kept) ==
  /\ ~streaming /\ loaded = {chat} /\ turns < MaxTurns
  /\ turns' = turns + 1
  /\ messages' = {m \in messages : m.turn <= kept}
                   \cup {[of |-> chat, turn |-> turns + 1, done |-> FALSE]}
  /\ streaming' = TRUE /\ current' = turns + 1 /\ unsaved' = TRUE
  /\ runs' = runs \cup {[of |-> chat, turn |-> turns + 1, aborted |-> FALSE]}
  /\ UNCHANGED <<chat, loaded, waiting, stored, failed>>

\* setMessages
SetMessages(kept) ==
  /\ ~streaming /\ messages' = {m \in messages : m.turn <= kept} /\ messages' # messages
  /\ unsaved' = TRUE
  /\ UNCHANGED <<chat, loaded, streaming, runs, current, waiting, stored, failed, turns>>

\* stop
Stop ==
  /\ current # 0 /\ current' = 0 /\ runs' = Aborted(current)
  /\ UNCHANGED <<chat, loaded, messages, streaming, unsaved, waiting, stored, failed, turns>>

\* Whether the answer is among the messages shown.
Found(r) == \E m \in messages : m.turn = r.turn

\* updateAssistant.  A run that was aborted still ends the call it is in.
Update(r) ==
  /\ r \in runs /\ Found(r)
  /\ messages' = {m \in messages : m.turn # r.turn}
                   \cup {[of |-> r.of, turn |-> r.turn, done |-> TRUE]}
  /\ messages' # messages /\ unsaved' = TRUE
  /\ UNCHANGED <<chat, loaded, streaming, runs, current, waiting, stored, failed, turns>>

\* The turn ends, by an answer, an error or because it was aborted; status is
\* set for whatever chat is shown by now.
Finish(r) ==
  /\ r \in runs /\ runs' = runs \ {r} /\ streaming' = FALSE
  /\ current' = IF current = r.turn THEN 0 ELSE current
  /\ UNCHANGED <<chat, loaded, messages, unsaved, waiting, stored, failed, turns>>

-----------------------------------------------------------------------------

\* A render, and its effect that persists
Persist ==
  /\ unsaved /\ unsaved' = FALSE /\ Len(waiting) < MaxWaiting
  /\ waiting' = waiting \o StoreRequest(chat)
  /\ UNCHANGED <<chat, loaded, messages, streaming, runs, current, stored, failed, turns>>

\* Whether a load has not been cancelled.
Wanted(w) == w.live

\* The storage serves the request at the head.  idbGet has nothing, and idbPut
\* returns as if it had written, when they fail.
Serve ==
  /\ waiting # << >>
  /\ LET w == Head(waiting) IN
     \/ /\ w.op = "load" /\ waiting' = Tail(waiting)
        /\ IF Wanted(w)
           THEN /\ messages' \in {stored[w.of], {}}
                /\ loaded' = {w.of} /\ unsaved' = TRUE
           ELSE UNCHANGED <<messages, loaded, unsaved>>
        /\ UNCHANGED <<stored, failed>>
     \/ /\ w.op = "read" /\ waiting' = Append(Tail(waiting), [w EXCEPT !.op = "write"])
        /\ UNCHANGED <<messages, loaded, unsaved, stored, failed>>
     \/ /\ w.op = "write" /\ waiting' = Tail(waiting)
        /\ \/ stored' = [stored EXCEPT ![w.of] = w.messages] /\ failed' = failed \ {w.of}
           \/ UNCHANGED stored /\ failed' = failed \cup {w.of}
        /\ UNCHANGED <<messages, loaded, unsaved>>
  /\ UNCHANGED <<chat, streaming, runs, current, turns>>

-----------------------------------------------------------------------------

ChatInit ==
  /\ chat \in Chats /\ loaded = {} /\ messages = {} /\ streaming = FALSE
  /\ runs = {} /\ current = 0 /\ unsaved = FALSE /\ turns = 0
  /\ waiting = <<[op |-> "load", of |-> chat, messages |-> {}, live |-> TRUE]>>
  /\ stored = [c \in Chats |-> {}] /\ failed = {}

ChatNext ==
  \/ \E c \in Chats : Choose(c)
  \/ \E kept \in 0 .. MaxTurns : Take(kept) \/ SetMessages(kept)
  \/ Stop \/ Persist \/ Serve
  \/ \E r \in runs : Update(r) \/ Finish(r)

ChatSpec == ChatInit /\ [][ChatNext]_chatVars

-----------------------------------------------------------------------------

\* The types of the variables; the controller is that of a turn that runs.
ChatTypeOK ==
  /\ chat \in Chats /\ loaded \subseteq Chats /\ messages \subseteq Message
  /\ streaming \in BOOLEAN /\ current \in 0 .. turns /\ unsaved \in BOOLEAN
  /\ runs \subseteq [of : Chats, turn : 1 .. MaxTurns, aborted : BOOLEAN]
  /\ current # 0 => \E r \in runs : r.turn = current
  /\ waiting \in Seq(Waiting) /\ stored \in [Chats -> SUBSET Message]
  /\ failed \subseteq Chats
  /\ turns \in 0 .. MaxTurns

\* What is shown of a chat, and what is stored of it, is its own, however fast
\* chats are changed while loads, saves and turns of others are under way.
OwnMessages ==
  /\ \A m \in messages : m.of = chat
  /\ \A c \in Chats : \A m \in stored[c] : m.of = c

\* When nothing is under way, what is shown is stored, unless the storage has
\* refused to write it.
ShownIsStored ==
  waiting = << >> /\ ~unsaved /\ messages # {} /\ chat \notin failed
    => stored[chat] = messages
=============================================================================
