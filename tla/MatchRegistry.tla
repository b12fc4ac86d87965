--------------------------- MODULE MatchRegistry ----------------------------
(***************************************************************************)
(* How sessions find a match, and how sessions and matches end.            *)
(*                                                                         *)
(* A match is a task that is started when the first session asks for it    *)
(* and lasts until it panics.  The map of matches is read under one lock    *)
(* and written under another; the task that ran a match removes it from    *)
(* the map only after its channel has closed, so that sessions may find a  *)
(* match that is over, or replace it, before it is removed.                *)
(*                                                                         *)
(* A session has two tasks: a reader, which turns what the client sends    *)
(* into events of the match, and a writer, which sends what the match      *)
(* queues.  One match id is modelled; its tasks are numbered.              *)
(***************************************************************************)
EXTENDS Naturals, Sequences, FiniteSets

CONSTANTS
  Sessions,
  Sockets,     \* the sessions over a WebSocket; the others use WebTransport
  MaxLoops,    \* bound: the tasks that ever run the match
  MaxPlayers,  \* how many handles there are for players
  MaxEvents    \* bound: events queued when a packet arrives

ASSUME RegistryAssumption ==
  /\ Sockets \subseteq Sessions
  /\ MaxLoops \in Nat /\ MaxPlayers \in Nat /\ MaxEvents \in Nat

Loops == 1 .. MaxLoops

VARIABLES
  entry,      \* the match in the map of matches; 0 if there is none
  loop,       \* how far the task of each match is
  events,     \* the channel of each match: [kind, of]
  members,    \* MatchState.players of each match
  stats,      \* the match whose statistics are registered; 0 if none
  place,      \* how far each session is in joining
  held,       \* the match whose handle it has; 0 if none
  client,     \* whether the client is there
  reader,     \* the task that reads
  writer,     \* the task that writes
  unsent      \* whether anything waits for the writer

sessionVars == <<place, held, client, reader, writer, unsent>>
registryVars == <<entry, loop, events, members, stats, sessionVars>>

\* Of a match
Unmade == 0
Running == 1
Fallen == 2    \* it has panicked: its channel is closed
Removed == 3   \* the map has been seen to
Finished == 4

\* Of a session
Arriving == 0
Missing == 1
Holding == 2
Joined == 3
Rejected == 4

\* Of a task
Off == 0
On == 1
Over == 2

\* tx.is_closed(), or an error from tx.send
IsClosed(n) == loop[n] # Running

\* What the map has is a match that runs.
Alive == entry # 0 /\ ~IsClosed(entry)

-----------------------------------------------------------------------------
\* A session joins: get_or_create_match

\* The map is read.
Look(s) ==
  /\ place[s] = Arriving
  /\ IF Alive THEN place' = [place EXCEPT ![s] = Holding] /\ held' = [held EXCEPT ![s] = entry]
              ELSE place' = [place EXCEPT ![s] = Missing] /\ UNCHANGED held
  /\ UNCHANGED <<entry, loop, events, members, stats, client, reader, writer, unsent>>

FoundMutant == FALSE

\* With the lock for writing, the session looks again.
Found == Alive

\* What is found is used; what is over is replaced by a match that starts.
Create(s) ==
  /\ place[s] = Missing /\ place' = [place EXCEPT ![s] = Holding]
  /\ \/ /\ Found /\ held' = [held EXCEPT ![s] = entry] /\ UNCHANGED <<entry, loop>>
     \/ /\ ~Found
        /\ \E n \in Loops :
             /\ loop[n] = Unmade /\ \A k \in 1 .. n - 1 : loop[k] # Unmade
             /\ entry' = n /\ loop' = [loop EXCEPT ![n] = Running]
             /\ held' = [held EXCEPT ![s] = n]
  /\ UNCHANGED <<events, members, stats, client, reader, writer, unsent>>

Post(n, kind, s) ==
  events' = IF IsClosed(n) THEN events
            ELSE [events EXCEPT ![n] = Append(@, [kind |-> kind, of |-> s])]

\* Connect is sent; where the match is over by now, the session ends with an
\* error.  Otherwise the two tasks are started.
Enlist(s) ==
  /\ place[s] = Holding
  /\ IF IsClosed(held[s])
     THEN /\ place' = [place EXCEPT ![s] = Rejected]
          /\ UNCHANGED <<events, reader, writer>>
     ELSE /\ place' = [place EXCEPT ![s] = Joined]
          /\ Post(held[s], "connect", s)
          /\ reader' = [reader EXCEPT ![s] = IF reader[s] = Off THEN On ELSE reader[s]]
          /\ writer' = [writer EXCEPT ![s] = On]
  /\ UNCHANGED <<entry, loop, members, stats, held, client, unsent>>

-----------------------------------------------------------------------------
\* The reader

\* The client goes away.
Quit(s) ==
  /\ client[s] /\ client' = [client EXCEPT ![s] = FALSE]
  /\ UNCHANGED <<entry, loop, events, members, stats, place, held, reader, writer, unsent>>

\* Whether the reader stops when it has a packet for the match.
Stops(s) == IsClosed(held[s])

\* A packet of the client's
Speak(s) ==
  /\ reader[s] = On /\ client[s]
  /\ \/ /\ ~Stops(s) /\ UNCHANGED reader
        /\ Len(events[held[s]]) < MaxEvents /\ Post(held[s], "packet", s)
     \/ Stops(s) /\ reader' = [reader EXCEPT ![s] = Over] /\ UNCHANGED events
  /\ UNCHANGED <<entry, loop, members, stats, place, held, client, writer, unsent>>

HearsMutant(s) == reader[s] = On \/ (place[s] = Holding /\ reader[s] = Off)

\* Whether the reader is there to notice that the client has gone: not before
\* Connect is sent.
Hears(s) == reader[s] = On

\* The connection is closed.
Hangup(s) ==
  /\ Hears(s) /\ ~client[s] /\ reader' = [reader EXCEPT ![s] = Over]
  /\ Post(held[s], "disconnect", s)
  /\ UNCHANGED <<entry, loop, members, stats, place, held, client, writer, unsent>>

-----------------------------------------------------------------------------
\* The writer

HoldsMutant(s) == TRUE

\* Whether the session itself keeps a sender of its queue for as long as it
\* lasts.
Holds(s) == s \in Sockets

\* Whether anybody can still queue something for s: the session, its player in
\* a match, or a Connect that waits.
HasSender(s) ==
  \/ Holds(s)
  \/ \E n \in Loops : s \in members[n]
  \/ \E n \in Loops : \E i \in DOMAIN events[n] : events[n][i] = [kind |-> "connect", of |-> s]

\* What is queued is sent.  When the client has gone an error ends the task,
\* but not one about a snapshot sent as a datagram.
Write(s) ==
  /\ writer[s] = On /\ unsent[s]
  /\ \/ /\ client[s] \/ s \notin Sockets
        /\ unsent' = [unsent EXCEPT ![s] = FALSE] /\ UNCHANGED writer
     \/ /\ ~client[s]
        /\ writer' = [writer EXCEPT ![s] = Over] /\ unsent' = [unsent EXCEPT ![s] = FALSE]
  /\ UNCHANGED <<entry, loop, events, members, stats, place, held, client, reader>>

\* recv returns None.
CloseWriter(s) ==
  /\ writer[s] = On /\ ~unsent[s] /\ ~HasSender(s)
  /\ writer' = [writer EXCEPT ![s] = Over]
  /\ UNCHANGED <<entry, loop, events, members, stats, place, held, client, reader, unsent>>

-----------------------------------------------------------------------------
\* The match

\* try_queue_packet, for the players S
QueueFor(S) == unsent' = [s \in Sessions |-> unsent[s] \/ (s \in S /\ writer[s] = On)]

\* handle_event.  There may be no handle for another player.
HandleEvent(n) ==
  /\ loop[n] = Running /\ events[n] # << >>
  /\ events' = [events EXCEPT ![n] = Tail(@)]
  /\ LET e == Head(events[n]) IN
     \/ /\ e.kind = "connect" /\ Cardinality(members[n]) < MaxPlayers
        /\ members' = [members EXCEPT ![n] = @ \cup {e.of}]
        /\ QueueFor(members[n] \cup {e.of})
     \/ /\ e.kind = "connect" /\ Cardinality(members[n]) >= MaxPlayers
        /\ UNCHANGED <<members, unsent>>
     \/ /\ e.kind = "disconnect"
        /\ members' = [members EXCEPT ![n] = @ \ {e.of}]
        /\ QueueFor(members[n] \ {e.of})
     \/ e.kind = "packet" /\ UNCHANGED <<members, unsent>>
  /\ UNCHANGED <<entry, loop, stats, place, held, client, reader, writer>>

\* tick: snapshots, and statistics.
Simulate(n) ==
  /\ loop[n] = Running /\ QueueFor(members[n]) /\ stats' = n
  /\ UNCHANGED <<entry, loop, events, members, place, held, client, reader, writer>>

\* The match panics: its state is dropped, with its channel and what is in it.
Panic(n) ==
  /\ loop[n] = Running /\ loop' = [loop EXCEPT ![n] = Fallen]
  /\ events' = [events EXCEPT ![n] = << >>] /\ members' = [members EXCEPT ![n] = {}]
  /\ UNCHANGED <<entry, stats, sessionVars>>

\* same_channel
Same(n) == entry = n

\* The task of a match that is over removes it from the map.
Remove(n) ==
  /\ loop[n] = Fallen /\ loop' = [loop EXCEPT ![n] = Removed]
  /\ entry' = IF Same(n) THEN 0 ELSE entry
  /\ UNCHANGED <<events, members, stats, sessionVars>>

\* It removes the statistics, of whichever match of this id.
Unregister(n) ==
  /\ loop[n] = Removed /\ loop' = [loop EXCEPT ![n] = Finished] /\ stats' = 0
  /\ UNCHANGED <<entry, events, members, sessionVars>>

-----------------------------------------------------------------------------

RegistryInit ==
  /\ entry = 0 /\ loop = [n \in Loops |-> Unmade] /\ stats = 0
  /\ events = [n \in Loops |-> << >>] /\ members = [n \in Loops |-> {}]
  /\ place = [s \in Sessions |-> Arriving] /\ held = [s \in Sessions |-> 0]
  /\ client = [s \in Sessions |-> TRUE] /\ unsent = [s \in Sessions |-> FALSE]
  /\ reader = [s \in Sessions |-> Off] /\ writer = [s \in Sessions |-> Off]

RegistryNext ==
  \/ \E s \in Sessions : \/ Look(s) \/ Create(s) \/ Enlist(s) \/ Quit(s) \/ Speak(s)
                         \/ Hangup(s) \/ Write(s) \/ CloseWriter(s)
  \/ \E n \in Loops : \/ HandleEvent(n) \/ Simulate(n) \/ Panic(n) \/ Remove(n)
                      \/ Unregister(n)

RegistrySpec == RegistryInit /\ [][RegistryNext]_registryVars

\* The match handles its events, the writer writes, and who stays speaks.
RegistryFairness ==
  /\ \A n \in Loops : WF_registryVars(HandleEvent(n))
  /\ \A s \in Sessions : /\ WF_registryVars(Hangup(s)) /\ WF_registryVars(Speak(s))
                         /\ WF_registryVars(Write(s) \/ CloseWriter(s))

-----------------------------------------------------------------------------

\* The types of the variables.
RegistryTypeOK ==
  /\ entry \in 0 .. MaxLoops /\ stats \in 0 .. MaxLoops
  /\ loop \in [Loops -> Unmade .. Finished]
  /\ events \in [Loops -> Seq([kind : {"connect", "packet", "disconnect"}, of : Sessions])]
  /\ members \in [Loops -> SUBSET Sessions]
  /\ \A n \in Loops : IsClosed(n) => members[n] = {} /\ events[n] = << >>
  /\ place \in [Sessions -> Arriving .. Rejected] /\ held \in [Sessions -> 0 .. MaxLoops]
  /\ client \in [Sessions -> BOOLEAN] /\ unsent \in [Sessions -> BOOLEAN]
  /\ reader \in [Sessions -> Off .. Over] /\ writer \in [Sessions -> Off .. Over]

\* A match that runs is the one in the map, whoever looked, missed, created or
\* cleaned up in between: all who ask for the id meet in one match, and a late
\* clean-up never hides a match from those who come after.
RunningIsFound == \A n \in Loops : loop[n] = Running => entry = n

\* A client that has gone does not stay in a match as a player nobody moves:
\* its Disconnect follows its Connect.
NoGhosts == \A s \in Sessions :
  place[s] = Joined /\ ~client[s] ~> \A n \in Loops : s \notin members[n]

Ended(s) == reader[s] = Over /\ writer[s] = Over

\* A WebTransport session ends when its client has gone, or when its match has
\* panicked and the client speaks: neither task waits for the other.  It is not
\* so of a WebSocket, whose session keeps its queue open for itself.
SessionsEnd == \A s \in Sessions \ Sockets :
  place[s] = Joined /\ (~client[s] \/ IsClosed(held[s])) ~> Ended(s)
=============================================================================
