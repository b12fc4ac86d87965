---------------------------- MODULE VehicleSeats ----------------------------
(***************************************************************************)
(* Who drives what.  The server keeps the answer twice, as the driver of   *)
(* each vehicle and the vehicle of each player, and switches a driver's    *)
(* capsule out of the collision world; each client predicts its own seat   *)
(* the moment the interact key is pressed and learns of everybody's seats  *)
(* from snapshots (V2), which name vehicles and drivers by small handles.  *)
(* Requests travel as datagrams (or over a stream) and may be lost.        *)
(*                                                                         *)
(* Every vehicle is in every client's area of interest and budget, so each *)
(* snapshot shows them all.                                                *)
(***************************************************************************)
EXTENDS Integers, FiniteSets, Sequences, Links

CONSTANTS
  Players,
  Vehicles,     \* runtime ids, the entity ids of the world document, which
                \* may be as small as the handles
  NoPlayer, NoVehicle,
  MaxKeys,      \* bound: interact keys pressed in a behaviour
  MaxDeaths,    \* bound: deaths in a behaviour
  MaxUp         \* bound: requests in flight from one client

Handles == 1 .. Cardinality(Vehicles)

ASSUME SeatsAssumption ==
  /\ NoPlayer \notin Players
  /\ IsFiniteSet(Vehicles) /\ Vehicles \subseteq Nat
  /\ NoVehicle \notin Vehicles /\ NoVehicle \notin Handles
  /\ Reliable \in BOOLEAN
  /\ MaxKeys \in Nat /\ MaxDeaths \in Nat /\ MaxUp \in Nat

VARIABLES
  handle,     \* server: vehicle_handles, fixed when the match starts
  present,    \* server: the players in the arena
  dead,       \* server: those of them that are dead
  driver,     \* server: the driver_id of each vehicle
  vehicleOf,  \* server: vehicle_of_player
  ghost,      \* server: players whose capsule collides with nothing
  mode,       \* client: the handle of the vehicle it predicts driving
  view,       \* client: the driver it believes each vehicle has
  drives,     \* client: localDrivenVehicleId
  known,      \* client: the players in its playerIdByHandle
  up,         \* requests on their way to the server, per client
  down,       \* the newest snapshot on its way, per client
  keys,       \* interact keys pressed
  deaths      \* deaths

serverVars == <<handle, present, dead, driver, vehicleOf, ghost>>
clientVars == <<mode, view, drives, known>>
netVars == <<up, down>>
boundVars == <<keys, deaths>>
vars == <<serverVars, clientVars, netVars, boundVars>>

-----------------------------------------------------------------------------
\* Names on the wire

VehicleAt(h) == CHOOSE v \in Vehicles : handle[v] = h

ResolveMutant(wire) ==
  IF wire \in Vehicles THEN wire ELSE CHOOSE v \in Vehicles : TRUE

\* resolve_vehicle_runtime_id: a runtime id if it is one, else a handle.
Resolve(wire) ==
  IF wire \in Vehicles THEN wire ELSE VehicleAt(wire)

Enter(h) == [kind |-> "enter", wire |-> h]
Exit(h) == [kind |-> "exit", wire |-> h]

-----------------------------------------------------------------------------
\* The client

\* The interact key while driving: leave at once; tell the server only if
\* the view names this client as the driver of some vehicle.
InteractDriving(p) ==
  /\ mode[p] # NoVehicle
  /\ mode' = [mode EXCEPT ![p] = NoVehicle]
  /\ \/ /\ \A h \in Handles : view[p][h] # p
        /\ up' = up
     \/ \E h \in Handles :
          /\ view[p][h] = p
          /\ Len(up[p]) < MaxUp
          /\ up' = [up EXCEPT ![p] = Append(@, Exit(h))]

\* The interact key on foot next to a vehicle that looks free: drive at once.
InteractOnFoot(p) ==
  /\ mode[p] = NoVehicle
  /\ \E h \in Handles :
       /\ view[p][h] = NoPlayer
       /\ Len(up[p]) < MaxUp
       /\ mode' = [mode EXCEPT ![p] = h]
       /\ up' = [up EXCEPT ![p] = Append(@, Enter(h))]

Interact(p) ==
  /\ p \in present /\ keys < MaxKeys /\ keys' = keys + 1
  /\ InteractDriving(p) \/ InteractOnFoot(p)
  /\ UNCHANGED <<serverVars, view, drives, known, down, deaths>>

RosterArrives(p) ==
  /\ p \in present /\ known[p] # present
  /\ known' = [known EXCEPT ![p] = present]
  /\ UNCHANGED <<serverVars, mode, view, drives, netVars, boundVars>>

\* The vehicle the client takes for its own in a snapshot: the one the server
\* lists first because the client drives it, if it can tell; or else the one
\* it remembers, forgotten when the snapshot says it is on foot.
Mine(p, snap) ==
  LET remembered == IF snap.driving THEN drives[p] ELSE NoVehicle
      own == {h \in Handles : snap.driver[h] = p}
  IN IF own # {} /\ (p \in known[p] \/ remembered \in own \cup {NoVehicle})
     THEN CHOOSE h \in own : TRUE ELSE remembered

SeenMutant(p, snap) ==
  [h \in Handles |->
     IF snap.driver[h] \in known[p] THEN snap.driver[h]
     ELSE IF h = Mine(p, snap) THEN p ELSE view[p][h]]

\* A driver missing from the client's roster makes the vehicle look free.
Seen(p, snap) ==
  [h \in Handles |->
     IF snap.driver[h] = NoPlayer THEN NoPlayer
     ELSE IF snap.driver[h] \in known[p] THEN snap.driver[h]
     ELSE IF h = Mine(p, snap) THEN p ELSE NoPlayer]

ReceiveSnapshot(p) ==
  /\ p \in present /\ down[p] # << >>
  /\ LET snap == down[p][1]
         mine == Mine(p, snap)
     IN /\ view' = [view EXCEPT ![p] = Seen(p, snap)]
        /\ drives' = [drives EXCEPT ![p] =
             IF mine # NoVehicle /\ snap.driver[mine] = NoPlayer
             THEN NoVehicle ELSE mine]
  /\ down' = [down EXCEPT ![p] = << >>]
  /\ UNCHANGED <<serverVars, mode, known, up, boundVars>>

-----------------------------------------------------------------------------
\* The network

LoseRequest(p) ==
  /\ ~Reliable
  /\ \E i \in DOMAIN up[p] : up' = [up EXCEPT ![p] = Without(@, i)]
  /\ UNCHANGED <<serverVars, clientVars, down, boundVars>>

-----------------------------------------------------------------------------
\* The server

DriverWithoutMutant(p) == driver

\* detach_player_from_vehicles clears every trace of p.
DriverWithout(p) ==
  [v \in Vehicles |-> IF driver[v] = p THEN NoPlayer ELSE driver[v]]

IsDriver(p) == \E v \in Vehicles : driver[v] = p

OccupiedMutant(v, p) == FALSE

\* Another player in the arena has the seat.
Occupied(v, p) == driver[v] \in present \ {p}

\* enter_vehicle: p leaves whatever it drove; then it takes the free seat, or
\* the seat of a driver who is gone.
EnterVehicle(p, v) ==
  IF Occupied(v, p)
  THEN /\ driver' = DriverWithout(p)
       /\ vehicleOf' = [vehicleOf EXCEPT ![p] = NoVehicle, ![driver[v]] = v]
       /\ ghost' = ghost
  ELSE /\ driver' = [w \in Vehicles |->
                       IF w = v THEN p
                       ELSE IF driver[w] \in {p, driver[v]} THEN NoPlayer
                       ELSE driver[w]]
       /\ vehicleOf' = [q \in Players |->
                          IF q = p THEN v
                          ELSE IF q = driver[v] THEN NoVehicle
                          ELSE vehicleOf[q]]
       /\ ghost' = ghost \cup {p}

\* exit_vehicle: the capsule comes back only if p was some vehicle's driver.
ExitVehicle(p) ==
  /\ driver' = DriverWithout(p)
  /\ vehicleOf' = [vehicleOf EXCEPT ![p] = NoVehicle]
  /\ ghost' = IF IsDriver(p) THEN ghost \ {p} ELSE ghost

ReceiveRequest(p) ==
  \E i \in MayArrive(up[p]) :
    /\ IF p \in dead THEN UNCHANGED <<driver, vehicleOf, ghost>>
       ELSE IF up[p][i].kind = "enter"
       THEN EnterVehicle(p, Resolve(up[p][i].wire))
       ELSE ExitVehicle(p)
    /\ up' = [up EXCEPT ![p] = Without(@, i)]
    /\ UNCHANGED <<handle, present, dead, clientVars, down, boundVars>>

DieMutant(p) ==
  /\ p \in present \ dead /\ deaths < MaxDeaths /\ deaths' = deaths + 1
  /\ dead' = dead \cup {p}
  /\ UNCHANGED <<handle, present, driver, vehicleOf, ghost, clientVars,
                 netVars, keys>>

\* kill_player_with_cause
Die(p) ==
  /\ p \in present \ dead /\ deaths < MaxDeaths /\ deaths' = deaths + 1
  /\ ExitVehicle(p)
  /\ dead' = dead \cup {p}
  /\ UNCHANGED <<handle, present, clientVars, netVars, keys>>

\* process_respawns, respawn_player
Respawn(p) ==
  /\ p \in dead
  /\ dead' = dead \ {p}
  /\ UNCHANGED <<handle, present, driver, vehicleOf, ghost,
                 clientVars, netVars, boundVars>>

RemovePlayerMutant(p) ==
  /\ present' = present \ {p} /\ dead' = dead /\ ghost' = ghost \ {p}
  /\ driver' = DriverWithout(p)
  /\ vehicleOf' = [vehicleOf EXCEPT ![p] = NoVehicle]

\* remove_player: the player's seat, body and capsule go.
RemovePlayer(p) ==
  /\ present' = present \ {p} /\ dead' = dead \ {p} /\ ghost' = ghost \ {p}
  /\ driver' = DriverWithout(p)
  /\ vehicleOf' = [vehicleOf EXCEPT ![p] = NoVehicle]

\* Disconnect; the client goes too.
Leave(p) ==
  /\ p \in present /\ RemovePlayer(p)
  /\ mode' = [mode EXCEPT ![p] = NoVehicle]
  /\ view' = [view EXCEPT ![p] = [h \in Handles |-> NoPlayer]]
  /\ drives' = [drives EXCEPT ![p] = NoVehicle]
  /\ known' = [known EXCEPT ![p] = {}]
  /\ up' = [up EXCEPT ![p] = << >>] /\ down' = [down EXCEPT ![p] = << >>]
  /\ UNCHANGED <<handle, boundVars>>

\* step_vehicles: seats whose driver is gone are freed, and each driver's
\* vehicle_of_player is set to the vehicle that names it.
Reconciled ==
  LET gone == {v \in Vehicles : driver[v] \notin present} IN
  /\ driver' = [v \in Vehicles |-> IF v \in gone THEN NoPlayer ELSE driver[v]]
  /\ vehicleOf' = [q \in Players |->
       IF q \in present /\ IsDriver(q) THEN CHOOSE v \in Vehicles : driver[v] = q
       ELSE IF \E v \in gone : driver[v] = q THEN NoVehicle
       ELSE vehicleOf[q]]

\* A tick with its snapshots: only some clients' get through, and the newest
\* one replaces one not yet applied (the client ignores older ticks).
ServerTick(reached) ==
  /\ Reconciled
  /\ down' = [p \in Players |->
       IF p \in reached
       THEN << [driver |-> [h \in Handles |-> driver'[VehicleAt(h)]],
                driving |-> vehicleOf'[p] # NoVehicle] >>
       ELSE down[p]]
  /\ UNCHANGED <<handle, present, dead, ghost, clientVars, up, boundVars>>

-----------------------------------------------------------------------------
\* Everyone has joined and seen the vehicles; no roster has arrived yet.
Init ==
  /\ handle \in [Vehicles -> Handles]
  /\ \A h \in Handles : \E v \in Vehicles : handle[v] = h
  /\ \A v, w \in Vehicles : handle[v] = handle[w] => v = w
  /\ present = Players /\ dead = {} /\ ghost = {}
  /\ driver = [v \in Vehicles |-> NoPlayer]
  /\ vehicleOf = [p \in Players |-> NoVehicle]
  /\ mode = [p \in Players |-> NoVehicle]
  /\ view = [p \in Players |-> [h \in Handles |-> NoPlayer]]
  /\ drives = [p \in Players |-> NoVehicle]
  /\ known = [p \in Players |-> {}]
  /\ up = [p \in Players |-> << >>] /\ down = [p \in Players |-> << >>]
  /\ keys = 0 /\ deaths = 0

Next ==
  \/ \E reached \in SUBSET present : ServerTick(reached)
  \/ \E p \in Players :
       \/ Interact(p) \/ RosterArrives(p) \/ ReceiveSnapshot(p)
       \/ LoseRequest(p) \/ ReceiveRequest(p)
       \/ Die(p) \/ Respawn(p) \/ Leave(p)

Spec == Init /\ [][Next]_vars

\* The server ticks, its snapshots keep getting through, what is in flight
\* arrives (if it is not lost) and the dead respawn.  Nobody has to press a
\* key, die or leave.
Fairness ==
  \A p \in Players :
    /\ WF_vars(\E reached \in SUBSET present : p \in reached /\ ServerTick(reached))
    /\ WF_vars(RosterArrives(p)) /\ WF_vars(ReceiveSnapshot(p))
    /\ WF_vars(ReceiveRequest(p)) /\ WF_vars(Respawn(p))

FairSpec == Spec /\ Fairness

-----------------------------------------------------------------------------
\* Properties

Request == [kind : {"enter", "exit"}, wire : Handles]
Drivers == Players \cup {NoPlayer}
Snapshots == [driver : [Handles -> Drivers], driving : BOOLEAN]

TypeOK ==
  /\ handle \in [Vehicles -> Handles]
  /\ present \subseteq Players /\ dead \subseteq present /\ ghost \subseteq present
  /\ driver \in [Vehicles -> Drivers]
  /\ vehicleOf \in [Players -> Vehicles \cup {NoVehicle}]
  /\ mode \in [Players -> Handles \cup {NoVehicle}]
  /\ view \in [Players -> [Handles -> Drivers]]
  /\ drives \in [Players -> Handles \cup {NoVehicle}]
  /\ known \in [Players -> SUBSET Players]
  /\ up \in [Players -> Seq(Request)]
  /\ down \in [Players -> Seq(Snapshots)]
  /\ keys \in Nat /\ deaths \in Nat

\* The two records of who drives what never disagree, whatever requests,
\* deaths and departures interleave: a vehicle names a driver exactly when
\* the driver's entry names the vehicle (so nobody has two seats).
SeatsAgree ==
  \A p \in Players, v \in Vehicles : driver[v] = p <=> vehicleOf[p] = v

\* Nobody drives who is dead or gone, and a driver's own capsule never
\* collides with the chassis around it.
DriversAreFit ==
  \A v \in Vehicles :
    driver[v] # NoPlayer => driver[v] \in (present \ dead) \cap ghost

\* No request of another player takes a live driver's seat.
NoSeatStolen ==
  [][\A v \in Vehicles :
       driver[v] # NoPlayer => driver'[v] \in {driver[v], NoPlayer}]_vars

\* The handles that the server takes for v: its own, and in a world whose ids
\* reach down to the handles also the one that equals its id, although some
\* other vehicle may have it.
NamesFor(v) == {handle[v]} \cup ({v} \cap Handles)

\* Whoever is newly seated in a vehicle has a request for it in flight, under
\* one of its names: no late, lost or overtaken request of another player, no
\* death and no departure seats anybody.
SeatsAsRequested ==
  [][\A v \in Vehicles :
       driver'[v] \notin {driver[v], NoPlayer} =>
         \E i \in DOMAIN up[driver'[v]], h \in NamesFor(v) :
           up[driver'[v]][i] = Enter(h)]_vars

\* No id is the handle of another vehicle.  It holds in every world document
\* that the server loads: the ids are 200 and 1003, or 1 is the only one.
IdsAreClear == \A v \in Vehicles : v \in Handles => Vehicles = {v}

\* The vehicle is then the very one that the client meant.
SeatsAsMeant ==
  IdsAreClear =>
    [][\A v \in Vehicles :
         driver'[v] \notin {driver[v], NoPlayer} =>
           \E i \in DOMAIN up[driver'[v]] :
             up[driver'[v]][i] = Enter(handle[v])]_vars

\* Once keys, deaths and departures stop, every client's view of every seat
\* becomes what the server has, stale snapshots and late rosters included.
ViewsSettle ==
  \A p \in Players :
    <>[](p \in present => \A h \in Handles : view[p][h] = driver[VehicleAt(h)])

\* After an exit the player's capsule is back in the collision world: nobody
\* walks about as a ghost.
CapsuleRestored ==
  \A p \in present : ~IsDriver(p) => p \notin ghost

\* The client plays on foot while the server still has it driving.
LeftBehind(p) == p \in present /\ mode[p] = NoVehicle /\ IsDriver(p)

\* The server learns that a client has left its vehicle.
ExitIsNotified == \A p \in Players : LeftBehind(p) ~> ~LeftBehind(p)
=============================================================================
