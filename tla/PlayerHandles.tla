--------------------------- MODULE PlayerHandles ---------------------------
(***************************************************************************)
(* The one-byte handles that stand for players in snapshots.  The server   *)
(* gives a handle to each connection, lets it rest for a while when the    *)
(* connection ends and then gives it to somebody else; it tells the clients *)
(* who has which in rosters, sent over the reliable stream on every change *)
(* and now and then besides, unless a client's outbound queue is full.     *)
(* Snapshots name players by handle only and are often lost or late, so a  *)
(* client may read a handle with a roster older or newer than the snapshot. *)
(*                                                                         *)
(* Time is counted in ticks and kept as ages.  Each player stands for one  *)
(* connection, and each client remembers whose state it shows as whose.    *)
(***************************************************************************)
EXTENDS Integers, Sequences, Links

CONSTANTS
  Players, NoPlayer,
  MaxHandle,    \* u8::MAX, 255 in the code
  Cooldown,     \* PLAYER_HANDLE_REUSE_COOLDOWN_TICKS, 600 in the code
  RosterEvery,  \* PLAYER_ROSTER_SYNC_INTERVAL_TICKS, 120 in the code
  MaxSilence,   \* environment: ticks a client's roster may be old
  MaxDelay,     \* environment: ticks a snapshot may be late
  MaxSnaps      \* bound: snapshots in flight to one client

\* The cooldown is meant to outlast what rosters and snapshots may be late.
ASSUME HandlesAssumption ==
  /\ NoPlayer \notin Players
  /\ MaxHandle \in Nat /\ Cooldown \in Nat /\ MaxSnaps \in Nat
  /\ RosterEvery \in Nat \ {0}
  /\ MaxSilence \in 1 .. Cooldown /\ MaxDelay \in 1 .. Cooldown

VARIABLES
  came,      \* the players that have connected so far
  here,      \* server: the players in the match
  refused,   \* connected, but the pool was exhausted
  handle,    \* server: player_handles
  next,      \* server: next_player_handle
  free,      \* server: free_player_handles
  cooling,   \* server: reusable_player_handles, with the ticks left and,
             \*   as history, the player that had the handle
  phase,     \* server: server_tick % RosterEvery
  names,     \* client: playerIdByHandle
  age,       \* history: ticks since the client's roster was built
  shown,     \* client: remotePlayers, as the player whose state is shown
  rosters,   \* rosters on their way to each client, with their ages
  snaps      \* snapshots on their way to each client, with their ages

poolVars == <<handle, next, free, cooling>>
clientVars == <<names, age, shown>>
vars == <<came, here, refused, poolVars, phase, clientVars, rosters, snaps>>

Handles == 1 .. MaxHandle
NoHandle == 0
Nobody == [h \in Handles |-> NoPlayer]

-----------------------------------------------------------------------------
\* Rosters

\* build_player_roster_packet, for the players in H: who has each handle.
Roster(H, hd) ==
  [h \in Handles |-> IF \E p \in H : hd[p] = h
                     THEN CHOOSE p \in H : hd[p] = h ELSE NoPlayer]

\* The links r with the roster w added to those of the clients in C.
WithRoster(r, C, w) ==
  [c \in Players |->
     IF c \in C THEN Append(r[c], [who |-> w, age |-> 0]) ELSE r[c]]

\* queue_roster_sync: some clients' queues may be full, not those of M.
RosterSync(M) ==
  \E C \in SUBSET here' :
    /\ M \subseteq C
    /\ rosters' = WithRoster(rosters, C, Roster(here', handle'))

-----------------------------------------------------------------------------
\* The server: connections

\* reclaim_player_handles: of the resting handles c the first n come back.
Due(c, n) ==
  /\ \A i \in 1 .. n : c[i].left = 0
  /\ n < Len(c) => c[n + 1].left # 0

PoolMutant(c, n) == free \o [i \in 1 .. n - 1 |-> c[i].handle]

\* The free handles and the resting ones after that.
Pool(c, n) == free \o [i \in 1 .. n |-> c[i].handle]
StillResting(c, n) == SubSeq(c, n + 1, Len(c))

ExhaustedMutant == next > MaxHandle + 1

Exhausted == next > MaxHandle

\* allocate_player_handle, with the free handles pool.
Allocate(p, pool) ==
  \/ /\ pool # << >>
     /\ handle' = [handle EXCEPT ![p] = pool[1]]
     /\ free' = Tail(pool) /\ next' = next
  \/ /\ pool = << >> /\ ~Exhausted
     /\ handle' = [handle EXCEPT ![p] = next]
     /\ free' = << >> /\ next' = next + 1

\* Connect: the new player's own roster finds its queue empty.
Connect(p) ==
  /\ p \notin came /\ came' = came \cup {p}
  /\ \E n \in 0 .. Len(cooling) :
       /\ Due(cooling, n) /\ cooling' = StillResting(cooling, n)
       /\ \/ /\ Allocate(p, Pool(cooling, n))
             /\ here' = here \cup {p} /\ refused' = refused
             /\ RosterSync({p})
          \/ /\ Pool(cooling, n) = << >> /\ Exhausted
             /\ refused' = refused \cup {p}
             /\ UNCHANGED <<here, handle, next, free, rosters>>
  /\ UNCHANGED <<phase, clientVars, snaps>>

ReleasedMutant(p) ==
  Append(cooling, [handle |-> handle[p], left |-> 0, was |-> p])

\* release_player_handle
Released(p) ==
  Append(cooling, [handle |-> handle[p], left |-> Cooldown, was |-> p])

\* Disconnect of a player; its client goes too.
Disconnect(p) ==
  /\ p \in here /\ here' = here \ {p}
  /\ cooling' = Released(p)
  /\ handle' = [handle EXCEPT ![p] = NoHandle]
  /\ \E C \in SUBSET here' :
       rosters' = WithRoster([rosters EXCEPT ![p] = << >>], C,
                             Roster(here', handle'))
  /\ names' = [names EXCEPT ![p] = Nobody]
  /\ age' = [age EXCEPT ![p] = 0]
  /\ shown' = [shown EXCEPT ![p] = [q \in Players |-> NoPlayer]]
  /\ snaps' = [snaps EXCEPT ![p] = << >>]
  /\ UNCHANGED <<came, refused, next, free, phase>>

\* Disconnect of a connection that never became a player.
GiveUp(p) ==
  /\ p \in refused /\ refused' = refused \ {p}
  /\ here' = here /\ handle' = handle
  /\ RosterSync({})
  /\ UNCHANGED <<came, next, free, cooling, phase, clientVars, snaps>>

-----------------------------------------------------------------------------
\* The server: a tick

Older(s) == [i \in DOMAIN s |-> [s[i] EXCEPT !.age = @ + 1]]

\* The environment: no client's roster and no snapshot gets too old.
InTime ==
  \A c \in here :
    /\ age[c] + 1 < MaxSilence
    /\ \A i \in DOMAIN rosters[c] : rosters[c][i].age + 1 < MaxSilence
    /\ \A i \in DOMAIN snaps[c] : snaps[c][i].age + 1 < MaxDelay

\* ... and no client's queue is full at one roster sync too many.
Overdue == {c \in here : age[c] + 1 + RosterEvery >= MaxSilence}

\* broadcast_snapshot: each client is sent the states of the others.
WithSnapshot(s) ==
  [c \in Players |->
     IF c \in here /\ Len(s[c]) < MaxSnaps
     THEN Append(s[c], [who |-> Roster(here \ {c}, handle), age |-> 0])
     ELSE s[c]]

Closer(c) == [i \in DOMAIN c |->
  [c[i] EXCEPT !.left = IF @ = 0 THEN 0 ELSE @ - 1]]

Tick ==
  /\ InTime
  /\ phase' = (phase + 1) % RosterEvery
  /\ \E n \in 0 .. Len(cooling) :
       /\ Due(Closer(cooling), n)
       /\ free' = Pool(Closer(cooling), n)
       /\ cooling' = StillResting(Closer(cooling), n)
  /\ age' = [c \in Players |-> IF c \in here THEN age[c] + 1 ELSE age[c]]
  /\ snaps' = WithSnapshot([c \in Players |-> Older(snaps[c])])
  /\ LET older == [c \in Players |-> Older(rosters[c])] IN
     IF phase' # 0 THEN rosters' = older
     ELSE \E C \in SUBSET here :
            /\ Overdue \subseteq C
            /\ rosters' = WithRoster(older, C, Roster(here, handle))
  /\ UNCHANGED <<came, here, refused, handle, next, names, shown>>

-----------------------------------------------------------------------------
\* The client

KeptMutant(c, w) == shown[c]

\* Players missing from the roster w are removed from the scene.
Kept(c, w) ==
  [q \in Players |->
     IF \E h \in Handles : w[h] = q THEN shown[c][q] ELSE NoPlayer]

\* applyPlayerRoster
ReceiveRoster(c) ==
  /\ rosters[c] # << >>
  /\ LET m == rosters[c][1] IN
     /\ names' = [names EXCEPT ![c] = m.who]
     /\ age' = [age EXCEPT ![c] = m.age]
     /\ shown' = [shown EXCEPT ![c] = Kept(c, m.who)]
  /\ rosters' = [rosters EXCEPT ![c] = Tail(@)]
  /\ UNCHANGED <<came, here, refused, poolVars, phase, snaps>>

\* The state that the handles H of a snapshot w give to a player.
Updated(c, w, H, q) ==
  LET named == {h \in H : w[h] # NoPlayer /\ names[c][h] = q}
  IN IF q # c /\ named # {} THEN w[CHOOSE h \in named : TRUE]
     ELSE shown[c][q]

\* applySnapshotV2.  Which players were near enough to be in the snapshot is
\* decided here.  Older snapshots that arrive later are ignored, which is the
\* same as losing them now.
ReceiveSnapshot(c) ==
  /\ \E i \in MayArrive(snaps[c]), H \in SUBSET Handles :
       /\ shown' = [shown EXCEPT ![c] =
            [q \in Players |-> Updated(c, snaps[c][i].who, H, q)]]
       /\ snaps' = [snaps EXCEPT ![c] = SubSeq(@, i + 1, Len(@))]
  /\ UNCHANGED <<came, here, refused, poolVars, phase, names, age, rosters>>

LoseSnapshot(c) ==
  /\ ~Reliable
  /\ \E i \in DOMAIN snaps[c] :
       snaps' = [snaps EXCEPT ![c] = Without(@, i)]
  /\ UNCHANGED <<came, here, refused, poolVars, phase, clientVars, rosters>>

-----------------------------------------------------------------------------
Init ==
  /\ came = {} /\ here = {} /\ refused = {}
  /\ handle = [p \in Players |-> NoHandle]
  /\ next = 1 /\ free = << >> /\ cooling = << >> /\ phase = 0
  /\ names = [c \in Players |-> Nobody]
  /\ age = [c \in Players |-> 0]
  /\ shown = [c \in Players |-> [q \in Players |-> NoPlayer]]
  /\ rosters = [c \in Players |-> << >>] /\ snaps = [c \in Players |-> << >>]

Next ==
  \/ Tick
  \/ \E p \in Players :
       \/ Connect(p) \/ Disconnect(p) \/ GiveUp(p)
       \/ ReceiveRoster(p) \/ ReceiveSnapshot(p) \/ LoseSnapshot(p)

Spec == Init /\ [][Next]_vars

\* The server ticks, and what is in flight arrives if it is not lost.
Fairness ==
  /\ WF_vars(Tick)
  /\ \A c \in Players : WF_vars(ReceiveRoster(c)) /\ WF_vars(ReceiveSnapshot(c))

FairSpec == Spec /\ Fairness

-----------------------------------------------------------------------------
\* Properties

SomePlayer == Players \cup {NoPlayer}
Naming == [who : [Handles -> SomePlayer], age : Nat]

TypeOK ==
  /\ came \subseteq Players
  /\ here \subseteq came /\ refused \subseteq came \ here
  /\ handle \in [Players -> Handles \cup {NoHandle}]
  /\ \A p \in Players : handle[p] # NoHandle <=> p \in here
  /\ next \in 1 .. MaxHandle + 1
  /\ free \in Seq(Handles)
  /\ cooling \in Seq([handle : Handles, left : 0 .. Cooldown, was : Players])
  /\ phase \in 0 .. RosterEvery - 1
  /\ names \in [Players -> [Handles -> SomePlayer]]
  /\ age \in [Players -> Nat]
  /\ shown \in [Players -> [Players -> SomePlayer]]
  /\ rosters \in [Players -> Seq(Naming)]
  /\ snaps \in [Players -> Seq(Naming)]

Owned(h) == \E p \in here : handle[p] = h
Free(h) == \E i \in DOMAIN free : free[i] = h
Resting(h) == \E i \in DOMAIN cooling : cooling[i].handle = h

\* No handle is ever lost or given twice: each one issued so far is either
\* one player's, or once in the free list, or once resting.
PoolWhole ==
  /\ \A h \in 1 .. next - 1 : Owned(h) \/ Free(h) \/ Resting(h)
  /\ \A h \in Handles :
       /\ ~(Owned(h) /\ Free(h)) /\ ~(Owned(h) /\ Resting(h))
       /\ ~(Free(h) /\ Resting(h))
  /\ \A p, q \in here : handle[p] = handle[q] => p = q
  /\ \A i, j \in DOMAIN free : free[i] = free[j] => i = j
  /\ \A i, j \in DOMAIN cooling : cooling[i].handle = cooling[j].handle => i = j

\* A client never shows one player's state as another's, although handles are
\* used again and snapshots are read with rosters of another time: what a
\* cooldown longer than the delays is for.
TrueNames ==
  \A c, q \in Players : shown[c][q] \in {NoPlayer, q}

\* Players who have left disappear from every client for good, even if the
\* roster that says so is dropped and late snapshots still show them.
GhostsVanish ==
  \A c, q \in Players :
    <>[](q \in came \ here => shown[c][q] = NoPlayer)
=============================================================================
