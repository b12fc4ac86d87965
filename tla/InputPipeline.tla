--------------------------- MODULE InputPipeline ---------------------------
(***************************************************************************)
(* The path of one player's inputs: generated and predicted by the         *)
(* browser, bundled, carried by a WebSocket or by WebTransport datagrams,  *)
(* filtered and queued by the match server, applied one per tick,          *)
(* acknowledged in snapshots, pruned and replayed by the browser.          *)
(*                                                                         *)
(* An input is named by its true number 1, 2, 3, ...; the wire carries its *)
(* low 16 bits, so every comparison the code makes is made here modulo     *)
(* SeqMod (SeqIsNewer) and may confuse numbers half a range apart.         *)
(***************************************************************************)
EXTENDS Integers, FiniteSets, Sequences, Links

CONSTANTS
  Half,            \* half the sequence space: 0x8000 in the code
  MaxPending,      \* CLIENT_PREDICTION_MAX_PENDING_INPUTS, 30 in the code
  CatchupSteps,    \* CLIENT_MAX_CATCHUP_STEPS, 4 in the code
  BacklogLimit,    \* VEHICLE_CLIENT_CATCHUP_THRESHOLD, 8 in the code
  Redundancy,      \* VEHICLE_INPUT_REDUNDANCY (and ..._KEEP), 4 in the code
  ServerCatchup,   \* VEHICLE_INPUT_CATCHUP_THRESHOLD, 4 in the code
  MaxQueue,        \* MAX_PENDING_INPUTS, 120 in the code
  RespawnTicks,    \* respawn_delay_ms, in ticks
  LongDrives,      \* may a drive outlast half the sequence space?
  MaxInputs,       \* bound: inputs generated in a behaviour
  MaxUp,           \* bound: messages in flight to the server
  MaxDown          \* bound: snapshots queued or in flight to the client

ASSUME PipelineAssumption ==
  /\ Half \in Nat \ {0}
  /\ MaxPending \in Nat \ {0} /\ CatchupSteps \in 1 .. Half
  /\ BacklogLimit \in 0 .. Half /\ Redundancy \in 1 .. Half
  /\ ServerCatchup \in Nat \ {0} /\ MaxQueue \in Nat \ {0}
  /\ RespawnTicks \in Nat \ {0}
  /\ Reliable \in BOOLEAN /\ LongDrives \in BOOLEAN
  /\ MaxInputs \in Nat /\ MaxUp \in Nat /\ MaxDown \in Nat

VARIABLES
  next,        \* client: nextSeq, the number of the next input
  inVehicle,   \* client: isInVehicle(), is a vehicle being predicted
  seenDriving, \* client: does its latest view show it driving a vehicle
  foot,        \* client: pending_inputs, the on-foot replay buffer
  veh,         \* client: pendingInputsForSend = vehicle_pending_inputs
  seenAck,     \* client: ackInputSeq of the newest snapshot applied
  footAck,     \* history: the ack of the client's last on-foot reconcile
  up,          \* messages on their way to the server
  down,        \* snapshots on their way to the client
  rt,          \* server: the input part of PlayerRuntime
  odd          \* server: server_tick % SNAPSHOT_EVERY (= 2)

clientVars == <<next, inVehicle, seenDriving, foot, veh, seenAck, footAck>>
vars == <<next, inVehicle, seenDriving, foot, veh, seenAck, footAck,
          up, down, rt, odd>>

-----------------------------------------------------------------------------
\* Sequence numbers

SeqMod == 2 * Half

SeqIsNewerMutant(a, b) == (a - b) % SeqMod # 0

\* The comparison of two 16-bit sequence numbers.
SeqIsNewer(a, b) ==
  LET diff == (a - b) % SeqMod IN diff # 0 /\ diff < Half

NoInput == -1    \* last_received_input_seq = None

-----------------------------------------------------------------------------
\* The server's side of the pipeline, as functions of its per-player state

NewRuntime == [queue |-> << >>, lastRecv |-> NoInput, ack |-> 0,
               seat |-> "none", respawnIn |-> 0]

Dead(s) == s.respawnIn # 0

IsNewMutant(s, c) == TRUE

IsNew(s, c) == s.lastRecv = NoInput \/ SeqIsNewer(c, s.lastRecv)

KeepNewest(q) ==
  IF Len(q) > MaxQueue THEN SubSeq(q, Len(q) - MaxQueue + 1, Len(q)) ELSE q

Run(first, last) == [i \in 1 .. last - first + 1 |-> first + i - 1]

\* The bundle first..last has been accepted from its first new input on.
Accepted(s, first, last) ==
  [s EXCEPT !.queue = KeepNewest(s.queue \o Run(first, last)), !.lastRecv = last]

\* Entering a vehicle discards what is queued and acknowledges it.
Entered(s) ==
  [s EXCEPT !.queue = << >>,
            !.ack = IF s.lastRecv = NoInput THEN s.ack ELSE s.lastRecv,
            !.seat = "driver"]

Left(s) == [s EXCEPT !.seat = "none"]

\* One tick's input: the oldest queued one, or, for a driver with a long
\* backlog, the newest one with the others skipped; none queued repeats the
\* last one applied.
Taken(s) ==
  IF s.queue = << >> THEN s
  ELSE IF s.seat = "driver" /\ Len(s.queue) >= ServerCatchup
  THEN [s EXCEPT !.queue = << >>, !.ack = s.queue[Len(s.queue)]]
  ELSE [s EXCEPT !.queue = Tail(@), !.ack = s.queue[1]]

KilledMutant(s) ==
  [s EXCEPT !.queue = << >>, !.seat = "none", !.respawnIn = RespawnTicks,
            !.lastRecv = NoInput]

Killed(s) ==
  [s EXCEPT !.queue = << >>, !.seat = "none", !.respawnIn = RespawnTicks]

RespawnStepMutant1(s) ==
  IF s.respawnIn = 1
  THEN [s EXCEPT !.queue = << >>, !.respawnIn = 0, !.ack = 0]
  ELSE IF s.respawnIn > 1 THEN [s EXCEPT !.respawnIn = @ - 1]
  ELSE s

RespawnStepMutant2(s) ==
  IF s.respawnIn = 1 THEN [s EXCEPT !.queue = << >>, !.respawnIn = 0]
  ELSE IF s.respawnIn > 1 THEN [s EXCEPT !.respawnIn = @ - 1]
  ELSE s

\* process_respawns: the dead player's deadline comes one tick nearer.
RespawnStep(s) ==
  IF s.respawnIn = 1
  THEN [s EXCEPT !.queue = << >>, !.respawnIn = 0,
                 !.ack = IF s.lastRecv = NoInput THEN 0 ELSE s.lastRecv]
  ELSE IF s.respawnIn > 1 THEN [s EXCEPT !.respawnIn = @ - 1]
  ELSE s

-----------------------------------------------------------------------------
\* The client's side

Inputs(first, last) == [kind |-> "inputs", first |-> first, last |-> last]
Enter == [kind |-> "enter"]
Exit == [kind |-> "exit"]

NewestMutant(S, top, n) == {i \in S : Cardinality({j \in S : j < i}) < n}

\* The last n inputs of a buffer whose newest is top.  The vehicle buffer is
\* always a run of consecutive inputs (TypeOK), so they are the n highest.
Newest(S, top, n) == {i \in S : i > top - n}

InWindow(m, i) == m.kind = "inputs" => i - m.first < Half

\* The environment: no input, message or acknowledgement the two sides still
\* work with is half the sequence space (nine minutes of play) behind.  The
\* on-foot buffer kept while driving is exempt when LongDrives.
Recent(i) ==
  /\ i <= MaxInputs
  /\ i - seenAck < Half
  /\ \A m \in 1 .. Len(up) : InWindow(up[m], i)
  /\ LongDrives \/ \A j \in foot : i - j < Half

UnackedMutant(buffer, ack) == {c \in buffer : SeqIsNewer(c, ack + 1)}

\* A replay buffer after pruning by an acknowledgement.
Unacked(buffer, ack) == {c \in buffer : SeqIsNewer(c, ack)}

MayPredictMutant == Cardinality(foot) <= MaxPending

\* On foot, prediction pauses while too many inputs are unacknowledged.
MayPredict == Cardinality(foot) < MaxPending

SendWindowMutant(buffer, top, k) ==
  IF k = 0 THEN {} ELSE Newest(buffer, top, Redundancy)

\* What a frame of k steps in a vehicle sends: the newest inputs, even when
\* it made none.
SendWindow(buffer, top, k) == Newest(buffer, top, Redundancy)

Generated(k) == next .. next + k - 1

\* One frame of on-foot prediction with k fixed steps; requests, if any, were
\* sent earlier in the same frame.
FootUpdate(k, requests) ==
  /\ k > 0 => MayPredict /\ Recent(next + k - 1)
  /\ next' = next + k
  /\ foot' = foot \cup Generated(k)
  /\ up' = up \o requests
              \o IF k = 0 THEN << >> ELSE << Inputs(next, next + k - 1) >>
  /\ Len(up') <= MaxUp
  /\ inVehicle' = FALSE /\ veh' = {}

\* One frame of vehicle prediction: the newest inputs are sent again in every
\* frame, and a backlog over the limit is cut down to the newest ones.
VehicleUpdate(k, buffer, requests) ==
  LET top == next + k - 1
      grown == buffer \cup Generated(k)
      kept == IF k > 0 /\ Cardinality(grown) > BacklogLimit
              THEN Newest(grown, top, Redundancy) ELSE grown
      window == SendWindow(kept, top, k)
  IN /\ k > 0 => Recent(top)
     /\ next' = next + k
     /\ veh' = kept
     /\ \/ window = {} /\ up' = up \o requests
        \/ \E first \in window :
             /\ \A i \in window : first <= i
             /\ up' = up \o requests \o << Inputs(first, top) >>
     /\ Len(up') <= MaxUp
     /\ inVehicle' = TRUE /\ foot' = foot

FootFrame ==
  /\ ~inVehicle
  /\ \E k \in 1 .. CatchupSteps : FootUpdate(k, << >>)
  /\ UNCHANGED <<seenDriving, seenAck, footAck, down, rt, odd>>

VehicleFrame ==
  /\ inVehicle
  /\ \E k \in 0 .. CatchupSteps : VehicleUpdate(k, veh, << >>)
  /\ UNCHANGED <<seenDriving, seenAck, footAck, down, rt, odd>>

\* The interact key next to a free vehicle: prediction switches at once and
\* the request is sent.
EnterFrame ==
  /\ ~inVehicle
  /\ \E k \in 0 .. CatchupSteps : VehicleUpdate(k, {}, << Enter >>)
  /\ UNCHANGED <<seenDriving, seenAck, footAck, down, rt, odd>>

\* The interact key in a vehicle: prediction switches at once, but a request
\* is sent only if the client's view names it as some vehicle's driver.
ExitFrame ==
  /\ inVehicle
  /\ \E k \in 0 .. CatchupSteps :
       FootUpdate(k, IF seenDriving THEN << Exit >> ELSE << >>)
  /\ UNCHANGED <<seenDriving, seenAck, footAck, down, rt, odd>>

-----------------------------------------------------------------------------
\* The network and the server

ReceiveInputs(i) ==
  LET m == up[i] IN
  /\ m.kind = "inputs"
  /\ \/ /\ \A c \in m.first .. m.last : ~IsNew(rt, c)
        /\ rt' = rt
     \/ \E f \in m.first .. m.last :
          /\ IsNew(rt, f)
          /\ \A c \in m.first .. f - 1 : ~IsNew(rt, c)
          /\ rt' = Accepted(rt, f, m.last)

\* The vehicle is free (or its driver is gone), or another player has it:
\* then the player is detached from whatever it was driving and gets nothing.
ReceiveEnter(i) ==
  /\ up[i].kind = "enter"
  /\ \/ Dead(rt) /\ rt' = rt
     \/ ~Dead(rt) /\ rt' \in {Entered(rt), Left(rt)}

ReceiveExit(i) ==
  /\ up[i].kind = "exit"
  /\ rt' = IF Dead(rt) THEN rt ELSE Left(rt)

Receive ==
  /\ \E i \in MayArrive(up) :
       /\ ReceiveInputs(i) \/ ReceiveEnter(i) \/ ReceiveExit(i)
       /\ up' = Without(up, i)
  /\ UNCHANGED <<clientVars, down, odd>>

LoseMessage ==
  /\ ~Reliable
  /\ \E i \in DOMAIN up : up' = Without(up, i)
  /\ UNCHANGED <<clientVars, down, rt, odd>>

\* A snapshot finds the player's outbound queue full and is dropped, or not.
Snapshot(s) == [ack |-> s.ack, driving |-> s.seat = "driver"]

Sent(s) == IF Len(down) < MaxDown THEN Append(down, Snapshot(s)) ELSE down

\* One tick: respawns, one input, perhaps a death, every other tick a snapshot.
ServerTick ==
  /\ LET s == Taken(RespawnStep(rt)) IN
     \/ rt' = s
     \/ ~Dead(s) /\ rt' = Killed(s)
  /\ odd' = ~odd
  /\ down' = IF odd' THEN down ELSE Sent(rt')
  /\ UNCHANGED <<clientVars, up>>

\* A snapshot is applied; older ones that arrive later are ignored, which is
\* the same as losing them now.  The on-foot buffer is pruned on foot only,
\* the vehicle's only while the server has the player driving.
ReceiveSnapshot ==
  \E i \in MayArrive(down) :
    LET snap == down[i] IN
    /\ seenAck' = snap.ack
    /\ seenDriving' = snap.driving
    /\ IF inVehicle THEN UNCHANGED <<foot, footAck>>
       ELSE /\ foot' = Unacked(foot, snap.ack)
            /\ footAck' = snap.ack
    /\ veh' = IF inVehicle /\ snap.driving
              THEN Unacked(veh, snap.ack) ELSE veh
    /\ down' = SubSeq(down, i + 1, Len(down))
    /\ UNCHANGED <<next, inVehicle, up, rt, odd>>

LoseSnapshot ==
  /\ ~Reliable
  /\ \E i \in DOMAIN down : down' = Without(down, i)
  /\ UNCHANGED <<clientVars, up, rt, odd>>

-----------------------------------------------------------------------------
\* The player has just connected and the first snapshot has initialized the
\* client's prediction.
Init ==
  /\ next = 1 /\ inVehicle = FALSE /\ seenDriving = FALSE
  /\ foot = {} /\ veh = {} /\ seenAck = 0 /\ footAck = 0
  /\ up = << >> /\ down = << >>
  /\ rt = NewRuntime /\ odd = FALSE

Next ==
  \/ FootFrame \/ VehicleFrame \/ EnterFrame \/ ExitFrame
  \/ Receive \/ LoseMessage
  \/ ServerTick \/ ReceiveSnapshot \/ LoseSnapshot

Spec == Init /\ [][Next]_vars

\* The frame loop and the tick loop never stop, and a message sent again and
\* again is delivered again and again.
Fairness ==
  /\ WF_vars(FootFrame) /\ WF_vars(VehicleFrame)
  /\ WF_vars(ServerTick)
  /\ SF_vars(Receive) /\ SF_vars(ReceiveSnapshot)

FairSpec == Spec /\ Fairness

-----------------------------------------------------------------------------
\* Properties

Message ==
  [kind : {"inputs"}, first : Nat, last : Nat] \cup {Enter, Exit}

Report == [ack : Nat, driving : BOOLEAN]

Seat == {"none", "driver"}

Runtime ==
  [queue : Seq(Nat), lastRecv : Nat \cup {NoInput}, ack : Nat,
   seat : Seat, respawnIn : Nat]

VehicleRun == \E lo \in 1 .. next : veh = lo .. next - 1

\* The types, and the shape the code's arrays keep: the vehicle buffer is a
\* run of consecutive inputs that ends with the newest one.
TypeOK ==
  /\ next \in Nat \ {0} /\ inVehicle \in BOOLEAN /\ seenDriving \in BOOLEAN
  /\ foot \in SUBSET (1 .. next - 1)
  /\ VehicleRun
  /\ seenAck \in Nat /\ footAck \in Nat
  /\ up \in Seq(Message)
  /\ down \in Seq(Report)
  /\ rt \in Runtime
  /\ odd \in BOOLEAN

\* The server applies each input at most once and in order, across bundle
\* overlap, reordering, duplicates by redundancy, catch-up, death and
\* sequence-number wrap-around: what is queued is in strictly rising order,
\* newer than all it has acknowledged, and not newer than the last received.
ServerOrder ==
  /\ \A i, j \in DOMAIN rt.queue : i < j => rt.queue[i] < rt.queue[j]
  /\ \A i \in DOMAIN rt.queue :
       rt.ack < rt.queue[i] /\ rt.queue[i] <= rt.lastRecv
  /\ rt.lastRecv < next

\* No death, respawn, vehicle entry or late bundle ever takes back an
\* acknowledgement, on the server or in the client's view of it.
AckMonotone ==
  [][rt'.ack >= rt.ack /\ rt'.lastRecv >= rt.lastRecv
     /\ seenAck' >= seenAck]_vars

\* The on-foot prediction never replays an input that the snapshot it
\* reconciled with had already counted.
NoStaleReplay == \A i \in foot : i > footAck

\* An input leaves the on-foot replay buffer only when the client has been
\* told that the server is done with it: no keystroke is predicted once and
\* then silently forgotten.
NothingForgotten ==
  [][\A i \in foot \ foot' : i <= seenAck' /\ seenAck' <= rt'.ack]_vars

\* The replay buffer stays below the size at which the simulation would trim
\* it (MAX_ROLLBACK_INPUTS), whatever the link does.
FootBounded == Cardinality(foot) < MaxPending + CatchupSteps

\* On foot, input generation stops when MaxPending inputs are unacknowledged.
Stalled == ~inVehicle /\ Cardinality(foot) >= MaxPending

\* Input generation that has stopped starts again.
StallEnds == Stalled ~> ~Stalled

\* An input the server has received does not hold up the client's on-foot
\* prediction for ever, whatever is lost and however the player dies, respawns
\* or changes mode: it is acknowledged even when it is never applied.
ReceivedIsReleased ==
  \A n \in 1 .. MaxInputs :
    (n \in foot /\ n <= rt.lastRecv) ~> (inVehicle \/ n \notin foot)

\* Every input predicted in a vehicle, or a newer one, reaches the server as
\* long as the player stays in it, because every frame sends the newest ones
\* again: no burst of lost datagrams leaves the server with stale controls.
ControlsArrive ==
  \A n \in 1 .. MaxInputs :
    (inVehicle /\ n \in veh) ~> (~inVehicle \/ rt.lastRecv >= n)

\* The pipeline implements the abstract input stream.
Stream == INSTANCE InputStream WITH
            made <- next - 1, decided <- rt.ack, known <- seenAck,
            replay <- foot

ImplementsStream == Stream!StreamSpec
=============================================================================
