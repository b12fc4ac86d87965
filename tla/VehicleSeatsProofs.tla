------------------------- MODULE VehicleSeatsProofs -------------------------
(***************************************************************************)
(* What VehicleSeats satisfies for every number of players, vehicles and   *)
(* messages: the two records of who drives what agree, drivers are alive,  *)
(* and a seat is given only to the player that asked for it and only when  *)
(* no other player in the arena has it.  Nothing is assumed of the ids of  *)
(* the vehicles.  The inductive invariant adds to the properties that the  *)
(* handles are one-to-one.                                                 *)
(***************************************************************************)
EXTENDS VehicleSeats, LinksProofs, FiniteSetTheorems

HandlesOK ==
  /\ \A h \in Handles : \E v \in Vehicles : handle[v] = h
  /\ \A v, w \in Vehicles : handle[v] = handle[w] => v = w

\* Only players in the arena have requests in flight.
ClientsPresent == \A p \in Players : up[p] # << >> => p \in present

SeatsInv ==
  /\ TypeOK /\ HandlesOK /\ ClientsPresent
  /\ SeatsAgree /\ DriversAreFit

\* The finitely many vehicles have no NoVehicle among them, and no player is
\* NoPlayer.
LEMMA HandleNumbers ==
  /\ Cardinality(Vehicles) \in Nat
  /\ NoVehicle \notin Vehicles /\ NoPlayer \notin Players
<1>1. Cardinality(Vehicles) \in Nat
  BY SeatsAssumption, FS_CardinalityType
<1> QED
  BY <1>1, SeatsAssumption

\* A handle on the wire is resolved to a vehicle that has it for a name.
LEMMA ResolveHandle ==
  ASSUME SeatsInv, NEW h \in Handles
  PROVE  /\ Resolve(h) \in Vehicles /\ h \in NamesFor(Resolve(h))
         /\ VehicleAt(h) \in Vehicles
<1>1. \E v \in Vehicles : handle[v] = h
  BY DEF SeatsInv, HandlesOK
<1>2. VehicleAt(h) \in Vehicles /\ handle[VehicleAt(h)] = h
  BY <1>1 DEF VehicleAt
<1>3. Resolve(h) \in Vehicles /\ (Resolve(h) = h \/ handle[Resolve(h)] = h)
  BY <1>2 DEF Resolve
<1> QED
  BY <1>2, <1>3 DEF NamesFor

-----------------------------------------------------------------------------
\* The operations on the seats

LEMMA DetachOK ==
  ASSUME SeatsInv, NEW p \in Players
  PROVE  /\ DriverWithout(p) \in [Vehicles -> Drivers]
         /\ \A v \in Vehicles : DriverWithout(p)[v] # p
         /\ \A v \in Vehicles, q \in Players \ {p} :
              DriverWithout(p)[v] = q <=> driver[v] = q
  BY HandleNumbers DEF SeatsInv, TypeOK, DriverWithout, Drivers

LEMMA ExitOK ==
  ASSUME SeatsInv, NEW p \in Players, ExitVehicle(p)
  PROVE  /\ driver' \in [Vehicles -> Drivers]
         /\ vehicleOf' \in [Players -> Vehicles \cup {NoVehicle}]
         /\ SeatsAgree' /\ ghost' \subseteq present
         /\ \A v \in Vehicles :
              /\ driver'[v] # p /\ driver'[v] \in {driver[v], NoPlayer}
              /\ driver'[v] # NoPlayer => driver'[v] \in (present \ dead) \cap ghost'
<1>1. /\ driver \in [Vehicles -> Drivers]
      /\ vehicleOf \in [Players -> Vehicles \cup {NoVehicle}]
      /\ present \subseteq Players /\ ghost \subseteq present
  BY DEF SeatsInv, TypeOK
<1>2. /\ driver' = DriverWithout(p)
      /\ vehicleOf' = [vehicleOf EXCEPT ![p] = NoVehicle]
      /\ ghost' \subseteq ghost /\ ghost \subseteq ghost' \cup {p}
  BY DEF ExitVehicle
<1>3. SeatsAgree'
  BY <1>1, <1>2, DetachOK, HandleNumbers DEF SeatsInv, SeatsAgree
<1>4. \A v \in Vehicles : driver'[v] # p /\ driver'[v] \in {driver[v], NoPlayer}
  BY <1>1, <1>2, DetachOK, HandleNumbers DEF DriverWithout
<1>5. \A v \in Vehicles :
        driver'[v] # NoPlayer => driver'[v] \in (present \ dead) \cap ghost'
  BY <1>2, <1>4 DEF SeatsInv, DriversAreFit
<1> QED
  BY <1>1, <1>2, <1>3, <1>4, <1>5, DetachOK

\* A living player is seated, or finds the seat taken and has none.
LEMMA EnterOK ==
  ASSUME SeatsInv, NEW p \in present, p \notin dead, NEW v \in Vehicles,
         EnterVehicle(p, v)
  PROVE  /\ driver' \in [Vehicles -> Drivers]
         /\ vehicleOf' \in [Players -> Vehicles \cup {NoVehicle}]
         /\ SeatsAgree' /\ ghost' \subseteq present
         /\ \A w \in Vehicles :
              /\ driver'[w] \in {driver[w], NoPlayer} \/ (w = v /\ driver'[w] = p)
              /\ driver[w] # NoPlayer => driver'[w] \in {driver[w], NoPlayer}
              /\ driver'[w] # NoPlayer => driver'[w] \in (present \ dead) \cap ghost'
<1>1. /\ driver \in [Vehicles -> Drivers]
      /\ vehicleOf \in [Players -> Vehicles \cup {NoVehicle}]
      /\ present \subseteq Players /\ ghost \subseteq present
      /\ SeatsAgree /\ DriversAreFit /\ p \in Players
  BY DEF SeatsInv, TypeOK
<1>2. CASE Occupied(v, p)
  <2>1. /\ driver' = DriverWithout(p) /\ ghost' = ghost
        /\ vehicleOf' = [vehicleOf EXCEPT ![p] = NoVehicle, ![driver[v]] = v]
        /\ driver[v] \in Players /\ driver[v] # p
    BY <1>1, <1>2 DEF EnterVehicle, Occupied
  <2>2. vehicleOf[driver[v]] = v
    BY <1>1, <2>1 DEF SeatsAgree
  <2>3. vehicleOf' = [vehicleOf EXCEPT ![p] = NoVehicle]
    BY <1>1, <2>1, <2>2
  <2>4. SeatsAgree'
    BY <1>1, <2>1, <2>3, DetachOK, HandleNumbers DEF SeatsAgree
  <2>5. \A w \in Vehicles : driver'[w] \in {driver[w], NoPlayer}
    BY <1>1, <2>1 DEF DriverWithout
  <2> QED
    BY <1>1, <2>1, <2>3, <2>4, <2>5, DetachOK DEF DriversAreFit
<1>3. CASE ~Occupied(v, p)
  <2>1. driver[v] = NoPlayer \/ driver[v] = p
    BY <1>1, <1>3 DEF Occupied, DriversAreFit
  <2>2. /\ driver' = [w \in Vehicles |->
                        IF w = v THEN p
                        ELSE IF driver[w] \in {p, driver[v]} THEN NoPlayer
                        ELSE driver[w]]
        /\ vehicleOf' = [q \in Players |->
                           IF q = p THEN v
                           ELSE IF q = driver[v] THEN NoVehicle
                           ELSE vehicleOf[q]]
        /\ ghost' = ghost \cup {p}
    BY <1>3 DEF EnterVehicle
  <2>3. driver' \in [Vehicles -> Drivers]
    BY <1>1, <2>2 DEF Drivers
  <2>4. vehicleOf' \in [Players -> Vehicles \cup {NoVehicle}]
    BY <1>1, <2>2
  <2>5. SeatsAgree'
    <3> SUFFICES ASSUME NEW q \in Players, NEW w \in Vehicles
                 PROVE  driver'[w] = q <=> vehicleOf'[q] = w
      BY DEF SeatsAgree
    <3>1. driver[w] = q <=> vehicleOf[q] = w
      BY <1>1 DEF SeatsAgree
    <3>2. driver[v] = q <=> vehicleOf[q] = v
      BY <1>1 DEF SeatsAgree
    <3> QED
      BY <1>1, <2>1, <2>2, <3>1, <3>2, HandleNumbers
  <2>6. \A w \in Vehicles :
          /\ driver'[w] \in {driver[w], NoPlayer} \/ (w = v /\ driver'[w] = p)
          /\ driver[w] # NoPlayer => driver'[w] \in {driver[w], NoPlayer}
    BY <1>1, <2>1, <2>2
  <2>7. \A w \in Vehicles :
          driver'[w] # NoPlayer => driver'[w] \in (present \ dead) \cap ghost'
    BY <1>1, <2>2, <2>6 DEF DriversAreFit
  <2> QED
    BY <1>1, <2>2, <2>3, <2>4, <2>5, <2>6, <2>7
<1> QED
  BY <1>2, <1>3

\* With the two records in agreement and no driver gone, the reconciliation
\* of step_vehicles changes nothing.
LEMMA ReconciledOK ==
  ASSUME SeatsInv, Reconciled  PROVE driver' = driver /\ vehicleOf' = vehicleOf
<1>1. /\ driver \in [Vehicles -> Drivers]
      /\ vehicleOf \in [Players -> Vehicles \cup {NoVehicle}]
      /\ SeatsAgree /\ DriversAreFit
  BY DEF SeatsInv, TypeOK
<1>2. \A v \in Vehicles : driver[v] \notin present => driver[v] = NoPlayer
  BY <1>1 DEF DriversAreFit
<1>3. driver' = driver
  BY <1>1, <1>2 DEF Reconciled
<1>4. ASSUME NEW q \in Players  PROVE vehicleOf'[q] = vehicleOf[q]
  <2>1. CASE q \in present /\ IsDriver(q)
    <3>1. PICK v \in Vehicles : driver[v] = q
      BY <2>1 DEF IsDriver
    <3>2. \A w \in Vehicles : driver[w] = q => w = v
      BY <1>1, <3>1 DEF SeatsAgree
    <3>3. (CHOOSE w \in Vehicles : driver[w] = q) = v
      BY <3>1, <3>2
    <3> QED
      BY <1>1, <2>1, <3>1, <3>3 DEF Reconciled, SeatsAgree
  <2>2. CASE ~(q \in present /\ IsDriver(q))
    <3>1. ~\E v \in {w \in Vehicles : driver[w] \notin present} : driver[v] = q
      BY <1>2, HandleNumbers
    <3> QED
      BY <2>2, <3>1 DEF Reconciled
  <2> QED
    BY <2>1, <2>2
<1>5. vehicleOf' \in [Players -> Vehicles \cup {NoVehicle}] \/ DOMAIN vehicleOf' = Players
  BY DEF Reconciled
<1>6. vehicleOf' = [q \in Players |-> vehicleOf'[q]]
  BY DEF Reconciled
<1> QED
  BY <1>1, <1>3, <1>4, <1>6

-----------------------------------------------------------------------------
\* The invariant: one lemma per action

LEMMA InitInv == Init => SeatsInv
<1> SUFFICES ASSUME Init PROVE SeatsInv
  OBVIOUS
<1>1. TypeOK
  <2>1. /\ handle \in [Vehicles -> Handles]
        /\ present \subseteq Players /\ dead \subseteq present
        /\ ghost \subseteq present
        /\ driver \in [Vehicles -> Drivers]
        /\ vehicleOf \in [Players -> Vehicles \cup {NoVehicle}]
        /\ mode \in [Players -> Handles \cup {NoVehicle}]
        /\ view \in [Players -> [Handles -> Drivers]]
        /\ drives \in [Players -> Handles \cup {NoVehicle}]
        /\ known \in [Players -> SUBSET Players]
    BY DEF Init, Drivers
  <2>2. up \in [Players -> Seq(Request)] /\ down \in [Players -> Seq(Snapshots)]
    BY DEF Init
  <2>3. keys \in Nat /\ deaths \in Nat
    BY DEF Init
  <2> QED
    BY <2>1, <2>2, <2>3 DEF TypeOK
<1>2. HandlesOK /\ ClientsPresent
  BY DEF Init, HandlesOK, ClientsPresent
<1>3. SeatsAgree /\ DriversAreFit
  BY HandleNumbers DEF Init, SeatsAgree, DriversAreFit
<1> QED
  BY <1>1, <1>2, <1>3 DEF SeatsInv

\* What the client does with its own view disturbs no seat.
LEMMA InteractInv ==
  ASSUME SeatsInv, NEW p \in Players, Interact(p)  PROVE SeatsInv'
<1>1. /\ mode' \in [Players -> Handles \cup {NoVehicle}]
      /\ \/ up' = up
         \/ \E r \in Request : up' = [up EXCEPT ![p] = Append(@, r)]
  <2>1. CASE InteractDriving(p)
    <3>1. mode' \in [Players -> Handles \cup {NoVehicle}]
      BY <2>1 DEF InteractDriving, SeatsInv, TypeOK
    <3>2. \A h \in Handles : Exit(h) \in Request
      BY DEF Exit, Request
    <3> QED
      BY <2>1, <3>1, <3>2 DEF InteractDriving
  <2>2. CASE InteractOnFoot(p)
    <3>1. PICK h \in Handles : /\ mode' = [mode EXCEPT ![p] = h]
                               /\ up' = [up EXCEPT ![p] = Append(@, Enter(h))]
      BY <2>2 DEF InteractOnFoot
    <3>2. mode' \in [Players -> Handles \cup {NoVehicle}]
      BY <3>1 DEF SeatsInv, TypeOK
    <3>3. Enter(h) \in Request
      BY DEF Enter, Request
    <3> QED
      BY <3>1, <3>2, <3>3
  <2> QED
    BY <2>1, <2>2 DEF Interact
<1>2. /\ keys \in Nat /\ keys' = keys + 1
      /\ p \in present
      /\ UNCHANGED <<serverVars, view, drives, known, down, deaths>>
  BY DEF Interact, SeatsInv, TypeOK
<1>3. up' \in [Players -> Seq(Request)]
  <2>1. up \in [Players -> Seq(Request)] /\ up[p] \in Seq(Request)
    BY DEF SeatsInv, TypeOK
  <2>2. \A r \in Request : Append(up[p], r) \in Seq(Request)
    BY <2>1, AppendProperties
  <2> QED
    BY <1>1, <2>1, <2>2
<1>4. keys' \in Nat
  BY <1>2
<1>5. TypeOK'
  BY <1>1, <1>2, <1>3, <1>4 DEF SeatsInv, TypeOK, serverVars
<1>6. ClientsPresent'
  BY <1>1, <1>2 DEF SeatsInv, ClientsPresent, serverVars, TypeOK
<1> QED
  BY <1>2, <1>5, <1>6
  DEF SeatsInv, HandlesOK, SeatsAgree, DriversAreFit, serverVars

LEMMA RosterInv ==
  ASSUME SeatsInv, NEW p \in Players, RosterArrives(p)  PROVE SeatsInv'
<1>1. UNCHANGED <<serverVars, mode, view, drives, netVars, boundVars>>
  BY DEF RosterArrives
<1>2. known' \in [Players -> SUBSET Players]
  BY DEF RosterArrives, SeatsInv, TypeOK
<1>3. TypeOK'
  BY <1>1, <1>2 DEF SeatsInv, TypeOK, serverVars, netVars, boundVars
<1> QED
  BY <1>1, <1>3 DEF SeatsInv, HandlesOK, SeatsAgree, DriversAreFit,
     ClientsPresent, serverVars, netVars

\* A snapshot gives the client a view of the right shape.
LEMMA SeenOK ==
  ASSUME SeatsInv, NEW p \in Players, NEW snap \in Snapshots
  PROVE  /\ Mine(p, snap) \in Handles \cup {NoVehicle}
         /\ Seen(p, snap) \in [Handles -> Drivers]
<1>1. drives[p] \in Handles \cup {NoVehicle} /\ snap.driver \in [Handles -> Drivers]
  BY DEF SeatsInv, TypeOK, Snapshots
<1>2. Mine(p, snap) \in Handles \cup {NoVehicle}
  <2> DEFINE own == {h \in Handles : snap.driver[h] = p}
  <2>1. own # {} => (CHOOSE h \in own : TRUE) \in Handles
    OBVIOUS
  <2> QED
    BY <1>1, <2>1 DEF Mine
<1>3. Seen(p, snap) \in [Handles -> Drivers]
  BY <1>1 DEF Seen, Drivers
<1> QED
  BY <1>2, <1>3

LEMMA SnapshotInv ==
  ASSUME SeatsInv, NEW p \in Players, ReceiveSnapshot(p)  PROVE SeatsInv'
<1> DEFINE snap == down[p][1]
           mine == Mine(p, snap)
<1>1. snap \in Snapshots
  BY DEF ReceiveSnapshot, SeatsInv, TypeOK
<1>2. mine \in Handles \cup {NoVehicle} /\ Seen(p, snap) \in [Handles -> Drivers]
  BY <1>1, SeenOK
<1>3. /\ view' = [view EXCEPT ![p] = Seen(p, snap)]
      /\ drives' = [drives EXCEPT ![p] =
           IF mine # NoVehicle /\ snap.driver[mine] = NoPlayer
           THEN NoVehicle ELSE mine]
      /\ down' = [down EXCEPT ![p] = << >>]
      /\ UNCHANGED <<serverVars, mode, known, up, boundVars>>
  BY DEF ReceiveSnapshot
<1> HIDE DEF snap, mine
<1>4. /\ view' \in [Players -> [Handles -> Drivers]]
      /\ drives' \in [Players -> Handles \cup {NoVehicle}]
  BY <1>2, <1>3 DEF SeatsInv, TypeOK
<1>5. down' \in [Players -> Seq(Snapshots)]
  BY <1>3 DEF SeatsInv, TypeOK
<1>6. TypeOK'
  BY <1>3, <1>4, <1>5 DEF SeatsInv, TypeOK, serverVars, boundVars
<1> QED
  BY <1>3, <1>6 DEF SeatsInv, HandlesOK, SeatsAgree, DriversAreFit,
     ClientsPresent, serverVars

\* A request taken off its link, lost or received.
LEMMA TakenOff ==
  ASSUME SeatsInv, NEW p \in Players, NEW i \in 1 .. Len(up[p])
  PROVE  /\ [up EXCEPT ![p] = Without(@, i)] \in [Players -> Seq(Request)]
         /\ up[p] # << >> /\ up[p][i] \in Request
<1>1. up \in [Players -> Seq(Request)] /\ up[p] \in Seq(Request)
  BY DEF SeatsInv, TypeOK
<1>2. Without(up[p], i) \in Seq(Request)
  BY <1>1, WithoutOK
<1> QED
  BY <1>1, <1>2

LEMMA LoseInv ==
  ASSUME SeatsInv, NEW p \in Players, LoseRequest(p)  PROVE SeatsInv'
<1>1. PICK i \in DOMAIN up[p] : up' = [up EXCEPT ![p] = Without(@, i)]
  BY DEF LoseRequest
<1>2. i \in 1 .. Len(up[p])
  BY DEF SeatsInv, TypeOK
<1>3. up' \in [Players -> Seq(Request)] /\ up[p] # << >>
  BY <1>1, <1>2, TakenOff
<1>4. UNCHANGED <<serverVars, clientVars, down, boundVars>>
  BY DEF LoseRequest
<1>5. TypeOK'
  BY <1>3, <1>4 DEF SeatsInv, TypeOK, serverVars, clientVars, boundVars
<1>6. ClientsPresent'
  BY <1>1, <1>3, <1>4 DEF SeatsInv, ClientsPresent, TypeOK, serverVars
<1> QED
  BY <1>4, <1>5, <1>6
  DEF SeatsInv, HandlesOK, SeatsAgree, DriversAreFit, serverVars

LEMMA ReceiveInv ==
  ASSUME SeatsInv, NEW p \in Players, ReceiveRequest(p)
  PROVE  /\ SeatsInv'
         /\ \A v \in Vehicles :
              /\ driver[v] # NoPlayer => driver'[v] \in {driver[v], NoPlayer}
              /\ driver'[v] \notin {driver[v], NoPlayer} =>
                   /\ driver'[v] = p
                   /\ \E i \in DOMAIN up[p], h \in NamesFor(v) :
                        up[p][i] = Enter(h)
<1>1. PICK i \in MayArrive(up[p]) :
        /\ IF p \in dead THEN UNCHANGED <<driver, vehicleOf, ghost>>
           ELSE IF up[p][i].kind = "enter"
           THEN EnterVehicle(p, Resolve(up[p][i].wire))
           ELSE ExitVehicle(p)
        /\ up' = [up EXCEPT ![p] = Without(@, i)]
        /\ UNCHANGED <<handle, present, dead, clientVars, down, boundVars>>
  BY DEF ReceiveRequest
<1>2. i \in 1 .. Len(up[p]) /\ i \in DOMAIN up[p]
  <2>1. up[p] \in Seq(Request)
    BY DEF SeatsInv, TypeOK
  <2> QED
    BY <2>1, ArrivalInRange
<1>3. up' \in [Players -> Seq(Request)] /\ up[p] # << >> /\ up[p][i] \in Request
  BY <1>1, <1>2, TakenOff
<1>4. p \in present
  BY <1>3 DEF SeatsInv, ClientsPresent
<1>5. /\ driver' \in [Vehicles -> Drivers]
      /\ vehicleOf' \in [Players -> Vehicles \cup {NoVehicle}]
      /\ SeatsAgree' /\ ghost' \subseteq present
      /\ \A v \in Vehicles :
           /\ driver[v] # NoPlayer => driver'[v] \in {driver[v], NoPlayer}
           /\ driver'[v] \notin {driver[v], NoPlayer} =>
                /\ driver'[v] = p
                /\ \E h \in NamesFor(v) : up[p][i] = Enter(h)
           /\ driver'[v] # NoPlayer => driver'[v] \in (present \ dead) \cap ghost'
  <2>1. CASE p \in dead
    <3>1. UNCHANGED <<driver, vehicleOf, ghost>>
      BY <1>1, <2>1
    <3> QED
      BY <3>1 DEF SeatsInv, TypeOK, SeatsAgree, DriversAreFit
  <2>2. CASE p \notin dead /\ up[p][i].kind = "enter"
    <3> DEFINE v == Resolve(up[p][i].wire)
    <3>1. up[p][i].wire \in Handles
      BY <1>3 DEF Request
    <3>2. v \in Vehicles /\ up[p][i].wire \in NamesFor(v)
      BY <3>1, ResolveHandle
    <3>3. \E h \in NamesFor(v) : up[p][i] = Enter(h)
      BY <1>3, <2>2, <3>2 DEF Request, Enter
    <3>4. EnterVehicle(p, v)
      BY <1>1, <2>2
    <3> HIDE DEF v
    <3> QED
      BY <1>4, <2>2, <3>2, <3>3, <3>4, EnterOK
  <2>3. CASE p \notin dead /\ up[p][i].kind # "enter"
    <3>1. ExitVehicle(p)
      BY <1>1, <2>3
    <3> QED
      BY <3>1, ExitOK
  <2> QED
    BY <2>1, <2>2, <2>3
<1>6. TypeOK'
  BY <1>1, <1>3, <1>5 DEF SeatsInv, TypeOK, clientVars, boundVars
<1>7. ClientsPresent'
  BY <1>1, <1>4 DEF SeatsInv, ClientsPresent, TypeOK
<1>8. HandlesOK' /\ DriversAreFit'
  BY <1>1, <1>5 DEF SeatsInv, HandlesOK, DriversAreFit
<1> QED
  BY <1>2, <1>5, <1>6, <1>7, <1>8 DEF SeatsInv

LEMMA DieInv ==
  ASSUME SeatsInv, NEW p \in Players, Die(p)
  PROVE  /\ SeatsInv'
         /\ \A v \in Vehicles : driver'[v] \in {driver[v], NoPlayer}
<1>1. /\ p \in present /\ deaths \in Nat /\ deaths' = deaths + 1
      /\ ExitVehicle(p) /\ dead' = dead \cup {p}
      /\ UNCHANGED <<handle, present, clientVars, netVars, keys>>
  BY DEF Die, SeatsInv, TypeOK
<1>2. /\ driver' \in [Vehicles -> Drivers]
      /\ vehicleOf' \in [Players -> Vehicles \cup {NoVehicle}]
      /\ SeatsAgree' /\ ghost' \subseteq present
      /\ \A v \in Vehicles :
           /\ driver'[v] # p /\ driver'[v] \in {driver[v], NoPlayer}
           /\ driver'[v] # NoPlayer => driver'[v] \in (present \ dead) \cap ghost'
  BY <1>1, ExitOK
<1>3. deaths' \in Nat
  BY <1>1
<1>4. TypeOK'
  BY <1>1, <1>2, <1>3 DEF SeatsInv, TypeOK, clientVars, netVars
<1>5. DriversAreFit'
  BY <1>1, <1>2 DEF DriversAreFit
<1> QED
  BY <1>1, <1>2, <1>4, <1>5 DEF SeatsInv, HandlesOK, ClientsPresent, netVars

LEMMA RespawnInv ==
  ASSUME SeatsInv, NEW p \in Players, Respawn(p)  PROVE SeatsInv'
<1>1. /\ dead' = dead \ {p}
      /\ UNCHANGED <<handle, present, driver, vehicleOf, ghost,
                     clientVars, netVars, boundVars>>
  BY DEF Respawn
<1>2. TypeOK'
  BY <1>1 DEF SeatsInv, TypeOK, clientVars, netVars, boundVars
<1>3. DriversAreFit'
  BY <1>1 DEF SeatsInv, DriversAreFit
<1> QED
  BY <1>1, <1>2, <1>3
  DEF SeatsInv, HandlesOK, SeatsAgree, ClientsPresent, netVars

LEMMA LeaveInv ==
  ASSUME SeatsInv, NEW p \in Players, Leave(p)
  PROVE  /\ SeatsInv'
         /\ \A v \in Vehicles : driver'[v] \in {driver[v], NoPlayer}
<1>1. /\ present' = present \ {p} /\ dead' = dead \ {p} /\ ghost' = ghost \ {p}
      /\ driver' = DriverWithout(p)
      /\ vehicleOf' = [vehicleOf EXCEPT ![p] = NoVehicle]
      /\ UNCHANGED <<handle, boundVars>>
  BY DEF Leave, RemovePlayer
<1>2. /\ mode' \in [Players -> Handles \cup {NoVehicle}]
      /\ view' \in [Players -> [Handles -> Drivers]]
      /\ drives' \in [Players -> Handles \cup {NoVehicle}]
      /\ known' \in [Players -> SUBSET Players]
  BY DEF Leave, SeatsInv, TypeOK, Drivers
<1>3. /\ up' = [up EXCEPT ![p] = << >>] /\ down' = [down EXCEPT ![p] = << >>]
      /\ up' \in [Players -> Seq(Request)] /\ down' \in [Players -> Seq(Snapshots)]
  BY DEF Leave, SeatsInv, TypeOK
<1>4. /\ driver \in [Vehicles -> Drivers]
      /\ vehicleOf \in [Players -> Vehicles \cup {NoVehicle}]
      /\ driver' \in [Vehicles -> Drivers]
      /\ vehicleOf' \in [Players -> Vehicles \cup {NoVehicle}]
  BY <1>1, DetachOK DEF SeatsInv, TypeOK
<1>5. \A v \in Vehicles : driver'[v] # p /\ driver'[v] \in {driver[v], NoPlayer}
  BY <1>1, <1>4, DetachOK DEF DriverWithout
<1>6. TypeOK'
  BY <1>1, <1>2, <1>3, <1>4 DEF SeatsInv, TypeOK, boundVars
<1>7. SeatsAgree'
  BY <1>1, <1>4, DetachOK, HandleNumbers DEF SeatsInv, SeatsAgree
<1>8. DriversAreFit'
  BY <1>1, <1>5 DEF SeatsInv, DriversAreFit
<1>9. ClientsPresent'
  BY <1>1, <1>3 DEF SeatsInv, ClientsPresent, TypeOK
<1> QED
  BY <1>1, <1>5, <1>6, <1>7, <1>8, <1>9 DEF SeatsInv, HandlesOK

LEMMA TickInv ==
  ASSUME SeatsInv, NEW reached \in SUBSET present, ServerTick(reached)
  PROVE  SeatsInv' /\ driver' = driver
<1>1. driver' = driver /\ vehicleOf' = vehicleOf
  BY ReconciledOK DEF ServerTick
<1>2. /\ down' = [p \in Players |->
           IF p \in reached
           THEN << [driver |-> [h \in Handles |-> driver[VehicleAt(h)]],
                    driving |-> vehicleOf[p] # NoVehicle] >>
           ELSE down[p]]
      /\ UNCHANGED <<handle, present, dead, ghost, clientVars, up, boundVars>>
  BY <1>1 DEF ServerTick
<1>3. ASSUME NEW p \in Players
      PROVE  [driver |-> [h \in Handles |-> driver[VehicleAt(h)]],
              driving |-> vehicleOf[p] # NoVehicle] \in Snapshots
  <2>1. [h \in Handles |-> driver[VehicleAt(h)]] \in [Handles -> Drivers]
    BY ResolveHandle DEF SeatsInv, TypeOK
  <2>2. (vehicleOf[p] # NoVehicle) \in BOOLEAN
    OBVIOUS
  <2> QED
    BY <2>1, <2>2 DEF Snapshots
<1>4. down' \in [Players -> Seq(Snapshots)]
  BY <1>2, <1>3 DEF SeatsInv, TypeOK
<1>5. TypeOK'
  BY <1>1, <1>2, <1>4 DEF SeatsInv, TypeOK, clientVars, boundVars
<1> QED
  BY <1>1, <1>2, <1>5
  DEF SeatsInv, HandlesOK, SeatsAgree, DriversAreFit, ClientsPresent

-----------------------------------------------------------------------------
\* Every step

\* A step keeps the invariant, takes no seat away from a driver for another
\* player, and seats a player only where its own request says.
LEMMA StepOK ==
  ASSUME SeatsInv, [Next]_vars
  PROVE  /\ SeatsInv'
         /\ \A v \in Vehicles :
              /\ driver[v] # NoPlayer => driver'[v] \in {driver[v], NoPlayer}
              /\ driver'[v] \notin {driver[v], NoPlayer} =>
                   \E i \in DOMAIN up[driver'[v]], h \in NamesFor(v) :
                     up[driver'[v]][i] = Enter(h)
<1>1. CASE \E reached \in SUBSET present : ServerTick(reached)
  BY <1>1, TickInv
<1>2. ASSUME NEW p \in Players, Interact(p)  PROVE SeatsInv' /\ driver' = driver
  <2>1. driver' = driver
    BY <1>2 DEF Interact, serverVars
  <2> QED
    BY <1>2, <2>1, InteractInv
<1>3. ASSUME NEW p \in Players, RosterArrives(p)  PROVE SeatsInv' /\ driver' = driver
  <2>1. driver' = driver
    BY <1>3 DEF RosterArrives, serverVars
  <2> QED
    BY <1>3, <2>1, RosterInv
<1>4. ASSUME NEW p \in Players, ReceiveSnapshot(p)  PROVE SeatsInv' /\ driver' = driver
  <2>1. driver' = driver
    BY <1>4 DEF ReceiveSnapshot, serverVars
  <2> QED
    BY <1>4, <2>1, SnapshotInv
<1>5. ASSUME NEW p \in Players, LoseRequest(p)  PROVE SeatsInv' /\ driver' = driver
  <2>1. driver' = driver
    BY <1>5 DEF LoseRequest, serverVars
  <2> QED
    BY <1>5, <2>1, LoseInv
<1>6. CASE \E p \in Players : ReceiveRequest(p)
  BY <1>6, ReceiveInv
<1>7. CASE \E p \in Players : Die(p)
  BY <1>7, DieInv
<1>8. ASSUME NEW p \in Players, Respawn(p)  PROVE SeatsInv' /\ driver' = driver
  <2>1. driver' = driver
    BY <1>8 DEF Respawn
  <2> QED
    BY <1>8, <2>1, RespawnInv
<1>9. CASE \E p \in Players : Leave(p)
  BY <1>9, LeaveInv
<1>10. CASE UNCHANGED vars
  <2>1. UNCHANGED <<serverVars, clientVars, netVars, boundVars>>
    BY <1>10 DEF vars
  <2>2. TypeOK'
    BY <2>1 DEF SeatsInv, TypeOK, serverVars, clientVars, netVars, boundVars
  <2> QED
    BY <2>1, <2>2 DEF SeatsInv, HandlesOK, SeatsAgree, DriversAreFit,
       ClientsPresent, serverVars, netVars
<1> QED
  BY <1>1, <1>2, <1>3, <1>4, <1>5, <1>6, <1>7, <1>8, <1>9, <1>10 DEF Next

\* The inductive invariant holds in every reachable state.
THEOREM Invariance == Spec => []SeatsInv
<1>1. SeatsInv /\ [Next]_vars => SeatsInv'
  BY StepOK
<1> QED
  BY <1>1, InitInv, PTL DEF Spec

\* Every variable keeps its type.
THEOREM TypeCorrect == Spec => []TypeOK
<1>1. SeatsInv => TypeOK
  BY DEF SeatsInv
<1> QED
  BY <1>1, Invariance, PTL

\* The driver of a vehicle and the vehicle of a player always agree.
THEOREM SeatsAlwaysAgree == Spec => []SeatsAgree
<1>1. SeatsInv => SeatsAgree
  BY DEF SeatsInv
<1> QED
  BY <1>1, Invariance, PTL

\* Every driver is alive, in the arena, and has its capsule switched off.
THEOREM DriversAlwaysFit == Spec => []DriversAreFit
<1>1. SeatsInv => DriversAreFit
  BY DEF SeatsInv
<1> QED
  BY <1>1, Invariance, PTL

\* A driver's seat goes to nobody else while it drives.
THEOREM SeatsAreKept == Spec => NoSeatStolen
<1>1. SeatsInv /\ [Next]_vars =>
        [\A v \in Vehicles :
           driver[v] # NoPlayer => driver'[v] \in {driver[v], NoPlayer}]_vars
  BY StepOK
<1> QED
  BY <1>1, Invariance, PTL DEF Spec, NoSeatStolen

\* A player is seated only where one of its own requests says, whatever the
\* ids of the world's vehicles.
THEOREM SeatsFollowRequests == Spec => SeatsAsRequested
<1>1. SeatsInv /\ [Next]_vars =>
        [\A v \in Vehicles :
           driver'[v] \notin {driver[v], NoPlayer} =>
             \E i \in DOMAIN up[driver'[v]], h \in NamesFor(v) :
               up[driver'[v]][i] = Enter(h)]_vars
  BY StepOK
<1> QED
  BY <1>1, Invariance, PTL DEF Spec, SeatsAsRequested

\* A vehicle whose id is a handle, and which is alone, has it for its handle.
LEMMA OneName ==
  ASSUME SeatsInv, IdsAreClear, NEW v \in Vehicles  PROVE NamesFor(v) = {handle[v]}
<1>1. CASE v \in Handles
  <2>1. \E w \in Vehicles : handle[w] = v
    BY <1>1 DEF SeatsInv, HandlesOK
  <2>2. Vehicles = {v}
    BY <1>1 DEF IdsAreClear
  <2> QED
    BY <2>1, <2>2 DEF NamesFor
<1>2. CASE v \notin Handles
  BY <1>2 DEF NamesFor
<1> QED
  BY <1>1, <1>2

\* Where no id is the handle of another vehicle, as in the worlds the server
\* loads, a player is seated only in the vehicle its client meant.
THEOREM SeatsAreMeant == Spec => SeatsAsMeant
<1>1. CASE IdsAreClear
  <2>1. SeatsInv /\ [Next]_vars =>
          [\A v \in Vehicles :
             driver'[v] \notin {driver[v], NoPlayer} =>
               \E i \in DOMAIN up[driver'[v]] :
                 up[driver'[v]][i] = Enter(handle[v])]_vars
    BY <1>1, StepOK, OneName
  <2> QED
    BY <2>1, Invariance, PTL DEF Spec, SeatsAsMeant
<1>2. CASE ~IdsAreClear
  BY <1>2 DEF SeatsAsMeant
<1> QED
  BY <1>1, <1>2
=============================================================================
