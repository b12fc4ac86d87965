----------------------------- MODULE Interest ------------------------------
(***************************************************************************)
(* What the snapshots tell one client of the vehicles and the loose bodies *)
(* around its player, and what the client goes on showing of them.         *)
(*                                                                         *)
(* A strict snapshot must fit one datagram.  Of what is in range the server *)
(* takes first what is hot: moving, driven, close, or not sent for a while. *)
(* The client keeps what a snapshot leaves out, and forgets it when it has *)
(* not been told of it for long.  Datagrams are lost, delayed, overtaken.   *)
(*                                                                         *)
(* A tick of the model is a snapshot.  What is where, what moves and what   *)
(* the player drives is an input of every snapshot.                        *)
(***************************************************************************)
EXTENDS Naturals, FiniteSets, FiniteSetsExt

CONSTANTS
  Vehicles, Bodies,
  Size,          \* bytes of the record of a vehicle, a sphere or a box
  PlayerSize,    \* SNAPSHOT_V2_REMOTE_PLAYER_BYTES
  Room,          \* STRICT_SNAPSHOT_DATAGRAM_TARGET_BYTES less the headers
  MaxNear,       \* bound: other players in range
  NearDist,      \* HOT_DYNAMIC_NEAR_RADIUS_M
  RangeDist,     \* VEHICLE_AOI_RADIUS_M, DYNAMIC_BODY_AOI_RADIUS_M
  MaxDist,       \* bound: the distances that are told apart
  Worlds,        \* bound: the worlds a snapshot may find
  Refresh,       \* COLD_VEHICLE_REFRESH_TICKS, COLD_DYNAMIC_REFRESH_TICKS
  Stale,         \* VEHICLE_STALE_TICKS, DYNAMIC_BODY_STALE_TICKS
  Modes,         \* the values of strict_snapshot_datagrams
  MaxFlight,     \* bound: snapshots under way
  MaxTick        \* bound: snapshots

Things == Vehicles \cup Bodies

World == [dist : [Things -> 0 .. MaxDist], moving : SUBSET Things,
          own : {{}} \cup {{v} : v \in Vehicles}]

ASSUME InterestAssumption ==
  /\ IsFiniteSet(Things) /\ Vehicles \cap Bodies = {}
  /\ Size \in [Things -> Nat \ {0}]
  /\ PlayerSize \in Nat \ {0} /\ Room \in Nat /\ MaxNear \in Nat
  /\ NearDist \in Nat /\ RangeDist \in Nat /\ MaxDist \in Nat
  /\ Refresh \in Nat \ {0} /\ Stale \in Nat /\ Modes \subseteq BOOLEAN
  /\ MaxFlight \in Nat /\ MaxTick \in Nat /\ Worlds \subseteq World
  /\ \A v, w \in Vehicles : Size[v] = Size[w] /\ Size[v] <= Room

VARIABLES
  strict,     \* strict_snapshot_datagrams, for the life of the server
  tick,       \* server_tick
  lastSent,   \* last_sent_vehicle_tick, last_sent_dynamic_tick; 0 if never
  flight,     \* snapshots queued or under way: [tick, has, size]
  latest,     \* the client's latestServerTick
  lastSeen,   \* vehicleLastSeenTick, dynamicBodyLastSeenTick; 0 if not shown
  carried,    \* history: ticks after lastSeen of the snapshots that had a thing
  excused     \* history: the last tick after lastSeen at which a thing was out
              \* of range, or was due and found no room; 0 if there is none

interestVars == <<strict, tick, lastSent, flight, latest, lastSeen, carried, excused>>

TotalSize(S) == MapThenSumSet(LAMBDA t : Size[t], S)

-----------------------------------------------------------------------------
\* The server, which finds the world w: how far each thing is, what is moving
\* or driven, and the vehicle this player drives, if any.

InRange(w) == w.own \cup {t \in Things : w.dist[t] <= RangeDist}

\* needs_refresh, and the same test for vehicles
NeedsRefresh(t) == lastSent[t] = 0 \/ tick + 1 - lastSent[t] >= Refresh

Hot(w, t) == t \in w.moving \/ NeedsRefresh(t) \/ (t \in Bodies /\ w.dist[t] <= NearDist)

\* The order in which things are taken.
Ahead(w, a, b) ==
  IF Hot(w, a) = Hot(w, b) THEN w.dist[a] < w.dist[b] ELSE Hot(w, a)

LeftMutant(w) == Room

\* What the vehicle of the player leaves to the others (reserved_vehicle_budget)
Left(w) == Room - TotalSize(w.own)

\* Vehicles are taken in order until one does not fit.  They are of one size.
ChosenVehicles(w, C, room) ==
  LET V == (InRange(w) \cap Vehicles) \ w.own IN
  /\ C \subseteq V
  /\ \A a \in V \ C, b \in C : ~Ahead(w, a, b)
  /\ TotalSize(C) <= room
  /\ \A a \in V \ C : TotalSize(C) + Size[a] > room

\* Bodies are taken in order, passing over those that do not fit.
ChosenBodies(w, C, room) ==
  LET B == InRange(w) \cap Bodies IN
  /\ C \subseteq B
  /\ TotalSize(C) <= room
  /\ \A a \in B \ C : TotalSize({b \in C : ~Ahead(w, a, b)}) + Size[a] > room

MarkedMutant(w, C) ==
  [t \in Things |-> IF t \in InRange(w) THEN tick + 1 ELSE lastSent[t]]

\* last_sent_vehicle_tick and last_sent_dynamic_tick after a strict snapshot.
\* It need not reach anybody.
Marked(w, C) == [t \in Things |-> IF t \in C THEN tick + 1 ELSE lastSent[t]]

\* A snapshot of C; try_queue_packet may find the queue full.
Emit(C, size) ==
  /\ tick < MaxTick /\ tick' = tick + 1
  /\ \/ flight' = flight \cup {[tick |-> tick + 1, has |-> C, size |-> size]}
        /\ Cardinality(flight) < MaxFlight
     \/ flight' = flight
  /\ carried' = [t \in Things |->
                   IF t \in C THEN carried[t] \cup {tick + 1} ELSE carried[t]]
  /\ UNCHANGED <<strict, latest, lastSeen>>

\* broadcast_snapshot with strict datagrams: room is set aside for the own
\* vehicle; then come other players, vehicles and bodies.
StrictSnapshot ==
  /\ strict
  /\ \E w \in Worlds, near \in 0 .. MaxNear :
       LET fit == IF near * PlayerSize <= Left(w) THEN near
                  ELSE Left(w) \div PlayerSize
           room == Left(w) - fit * PlayerSize
       IN  \E V \in SUBSET Vehicles, B \in SUBSET Bodies :
             /\ ChosenVehicles(w, V, room)
             /\ ChosenBodies(w, B, room - TotalSize(V))
             /\ LET C == w.own \cup V \cup B IN
                /\ Emit(C, fit * PlayerSize + TotalSize(C))
                /\ lastSent' = Marked(w, C)
                /\ excused' = [t \in Things |->
                     IF t \notin InRange(w) \/ (NeedsRefresh(t) /\ t \notin C) THEN tick + 1
                     ELSE excused[t]]

\* broadcast_snapshot otherwise: all that is in range, in a packet that is
\* sent another way when it does not fit a datagram.
WholeSnapshot ==
  /\ ~strict
  /\ \E S \in SUBSET Things :
       /\ Emit(S, 0)
       /\ excused' = [t \in Things |-> IF t \in S THEN excused[t] ELSE tick + 1]
  /\ UNCHANGED lastSent

-----------------------------------------------------------------------------
\* The client

Newer(m) == m.tick > latest

\* The sweep: what the client has not been told of for more than Stale ticks.
Forgotten(m, seen) == {t \in Things : m.tick > seen[t] + Stale}

\* applySnapshotV2, or the case snapshot of handlePacket
Accept(m) ==
  /\ m \in flight /\ flight' = flight \ {m}
  /\ IF Newer(m)
     THEN /\ latest' = m.tick
          /\ LET seen == [t \in Things |-> IF t \in m.has THEN m.tick ELSE lastSeen[t]]
             IN  lastSeen' = [t \in Things |-> IF t \in Forgotten(m, seen) THEN 0
                                               ELSE seen[t]]
     ELSE UNCHANGED <<latest, lastSeen>>
  /\ carried' = [t \in Things |-> {k \in carried[t] : k > lastSeen'[t]}]
  /\ excused' = [t \in Things |->
                   IF excused[t] > lastSeen'[t] THEN excused[t] ELSE 0]
  /\ UNCHANGED <<strict, tick, lastSent>>

\* A datagram is lost.
LoseDatagram(m) ==
  /\ m \in flight /\ flight' = flight \ {m}
  /\ UNCHANGED <<strict, tick, lastSent, latest, lastSeen, carried, excused>>

-----------------------------------------------------------------------------

InterestInit ==
  /\ strict \in Modes /\ tick = 0 /\ flight = {} /\ latest = 0
  /\ lastSent = [t \in Things |-> 0] /\ lastSeen = [t \in Things |-> 0]
  /\ carried = [t \in Things |-> {}] /\ excused = [t \in Things |-> 0]

InterestNext ==
  \/ StrictSnapshot \/ WholeSnapshot
  \/ \E m \in flight : Accept(m) \/ LoseDatagram(m)

InterestSpec == InterestInit /\ [][InterestNext]_interestVars

-----------------------------------------------------------------------------

\* The types of the variables; nothing of history is older than what is shown.
InterestTypeOK ==
  /\ strict \in BOOLEAN /\ tick \in 0 .. MaxTick /\ latest \in 0 .. tick
  /\ lastSent \in [Things -> 0 .. tick] /\ lastSeen \in [Things -> 0 .. latest]
  /\ flight \subseteq [tick : 1 .. tick, has : SUBSET Things, size : Nat]
  /\ carried \in [Things -> SUBSET (1 .. tick)] /\ excused \in [Things -> 0 .. tick]
  /\ \A t \in Things : \A k \in carried[t] : k > lastSeen[t]

\* A strict snapshot fits its datagram, with the room set aside for the vehicle
\* of the player and whoever else is around.
Fits == \A m \in flight : m.size <= Room

\* What has been in range all along, and was never left out when it was due,
\* vanishes from the client only when that many snapshots that had it were lost
\* or overtaken in a row: the server's refresh keeps ahead of the client's
\* sweep.  It fails when anything counts as sent that was not.
VanishesOnlyByLoss == [][\A t \in Things :
  lastSeen[t] # 0 /\ lastSeen'[t] = 0 /\ excused[t] = 0 =>
    Cardinality(carried[t]) >= Stale \div Refresh]_interestVars
=============================================================================
