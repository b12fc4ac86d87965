------------------------ MODULE InputPipelineProofs ------------------------
(***************************************************************************)
(* What InputPipeline satisfies for every value of its constants: its      *)
(* safety properties, and that it implements InputStream.  The inductive   *)
(* invariant PipelineInv says what each party may rely on: every number    *)
(* still in use is within half the sequence space of the newest one, so    *)
(* the 16-bit comparison never errs, and acknowledgements only ever lag.   *)
(***************************************************************************)
EXTENDS InputPipeline, LinksProofs, FiniteSetTheorems

\* Two numbers less than half the range apart compare as they should.
LEMMA NewerIsGreater ==
  ASSUME NEW a \in Int, NEW b \in Int, a - b < Half, b - a < Half
  PROVE  SeqIsNewer(a, b) <=> a > b
  BY PipelineAssumption, SMT DEF SeqIsNewer, SeqMod

\* A number ahead by less than half the range is always seen as newer.
LEMMA AheadIsNewer ==
  ASSUME NEW a \in Int, NEW b \in Int, a - b < Half, a > b
  PROVE  SeqIsNewer(a, b)
  BY PipelineAssumption, SMT DEF SeqIsNewer, SeqMod

-----------------------------------------------------------------------------
\* The server's state of one player

Rising(q) == \A i, j \in 1 .. Len(q) : i < j => q[i] < q[j]

ServerOK(s) ==
  /\ s.lastRecv = NoInput => s.ack = 0 /\ s.queue = << >>
  /\ s.lastRecv # NoInput => s.ack <= s.lastRecv
  /\ Rising(s.queue)
  /\ \A i \in 1 .. Len(s.queue) :
       s.ack < s.queue[i] /\ s.queue[i] <= s.lastRecv

LEMMA KeepNewestOK ==
  ASSUME NEW q \in Seq(Nat), Rising(q)
  PROVE  /\ KeepNewest(q) \in Seq(Nat)
         /\ Rising(KeepNewest(q))
         /\ \A i \in 1 .. Len(KeepNewest(q)) :
              \E j \in 1 .. Len(q) : KeepNewest(q)[i] = q[j]
<1>1. CASE Len(q) > MaxQueue
  <2> DEFINE d == Len(q) - MaxQueue
             r == SubSeq(q, d + 1, Len(q))
  <2>1. KeepNewest(q) = r
    BY <1>1 DEF KeepNewest
  <2>2. Len(q) \in Nat /\ d \in Nat /\ d < Len(q)
    BY <1>1, PipelineAssumption
  <2>3. r \in Seq(Nat) /\ Len(r) = MaxQueue
    BY <2>2, PipelineAssumption
  <2>4. \A i \in 1 .. MaxQueue : r[i] = q[i + d] /\ i + d \in 1 .. Len(q)
    BY <2>2, PipelineAssumption
  <2> HIDE DEF r, d
  <2>5. Rising(r)
    <3> SUFFICES ASSUME NEW i \in 1 .. MaxQueue, NEW j \in 1 .. MaxQueue, i < j
                 PROVE  r[i] < r[j]
      BY <2>3 DEF Rising
    <3>1. i + d \in 1 .. Len(q) /\ j + d \in 1 .. Len(q) /\ i + d < j + d
      BY <2>2, <2>4, PipelineAssumption, SMTT(30)
    <3>2. q[i + d] < q[j + d]
      BY <3>1 DEF Rising
    <3> QED
      BY <2>4, <3>2
  <2>6. \A i \in 1 .. Len(r) : \E j \in 1 .. Len(q) : r[i] = q[j]
    BY <2>2, <2>3, <2>4, PipelineAssumption
  <2> QED
    BY <2>1, <2>3, <2>5, <2>6
<1>2. CASE ~(Len(q) > MaxQueue)
  BY <1>2 DEF KeepNewest
<1> QED
  BY <1>1, <1>2

LEMMA AppendRunOK ==
  ASSUME NEW q \in Seq(Nat), Rising(q), NEW first \in Nat, NEW last \in Nat,
         first <= last, \A i \in 1 .. Len(q) : q[i] < first
  PROVE  /\ q \o Run(first, last) \in Seq(Nat)
         /\ Rising(q \o Run(first, last))
         /\ \A i \in 1 .. Len(q \o Run(first, last)) :
              \/ i \in 1 .. Len(q) /\ (q \o Run(first, last))[i] = q[i]
              \/ (q \o Run(first, last))[i] \in first .. last
<1> DEFINE r == Run(first, last)
           n == last - first + 1
<1>1. n \in Nat /\ r = [i \in 1 .. n |-> first + i - 1]
  BY DEF Run
<1>2. r \in Seq(Nat) /\ Len(r) = n
  BY <1>1
<1>3. \A i \in 1 .. n : r[i] = first + i - 1
  BY <1>1
<1> HIDE DEF r, n
<1>3a. /\ q \o r \in Seq(Nat)
       /\ Len(q \o r) = Len(q) + Len(r)
       /\ \A i \in 1 .. Len(q) + Len(r) :
            (q \o r)[i] = IF i <= Len(q) THEN q[i] ELSE r[i - Len(q)]
  BY <1>2, ConcatProperties
<1>4. /\ q \o r \in Seq(Nat)
      /\ Len(q \o r) = Len(q) + n
      /\ \A i \in 1 .. Len(q) + n :
           (q \o r)[i] = IF i <= Len(q) THEN q[i] ELSE r[i - Len(q)]
  BY <1>2, <1>3a
<1>5. \A i \in 1 .. Len(q) + n : i > Len(q) => (q \o r)[i] = first + i - Len(q) - 1
  BY <1>1, <1>3, <1>4
<1>6. Rising(q \o r)
  BY <1>1, <1>4, <1>5 DEF Rising
<1>7. \A i \in 1 .. Len(q \o r) :
              \/ i \in 1 .. Len(q) /\ (q \o r)[i] = q[i]
              \/ (q \o r)[i] \in first .. last
  BY <1>1, <1>4, <1>5 DEF n
<1> QED
  BY <1>4, <1>6, <1>7 DEF r

LEMMA AcceptedOK ==
  ASSUME NEW s \in Runtime, ServerOK(s),
         NEW first \in Nat \ {0}, NEW last \in Nat, first <= last,
         first > s.lastRecv
  PROVE  /\ Accepted(s, first, last) \in Runtime
         /\ ServerOK(Accepted(s, first, last))
         /\ Accepted(s, first, last).ack = s.ack
         /\ Accepted(s, first, last).lastRecv = last
<1> DEFINE q == s.queue \o Run(first, last)
           t == Accepted(s, first, last)
<1>1. s.queue \in Seq(Nat) /\ s.ack \in Nat /\ s.lastRecv \in Nat \cup {NoInput}
  BY DEF Runtime
<1>2. \A i \in 1 .. Len(s.queue) : s.queue[i] < first
  BY <1>1 DEF ServerOK, NoInput
<1>3. s.ack < first
  BY <1>1 DEF ServerOK, NoInput
<1>4. /\ q \in Seq(Nat) /\ Rising(q)
      /\ \A i \in 1 .. Len(q) : s.ack < q[i] /\ q[i] <= last
  <2>1. /\ q \in Seq(Nat) /\ Rising(q)
        /\ \A i \in 1 .. Len(q) : \/ i \in 1 .. Len(s.queue) /\ q[i] = s.queue[i]
                                 \/ q[i] \in first .. last
    BY <1>1, <1>2, AppendRunOK DEF ServerOK
  <2> HIDE DEF q
  <2>2. \A i \in 1 .. Len(s.queue) : s.ack < s.queue[i] /\ s.queue[i] <= last
    BY <1>1, <1>2 DEF ServerOK
  <2>3. ASSUME NEW i \in 1 .. Len(q)  PROVE s.ack < q[i] /\ q[i] <= last
    <3>1. CASE i \in 1 .. Len(s.queue) /\ q[i] = s.queue[i]
      BY <2>2, <3>1
    <3>2. CASE q[i] \in first .. last
      BY <1>1, <1>3, <3>2
    <3> QED
      BY <2>1, <3>1, <3>2
  <2> QED
    BY <2>1, <2>3
<1>5. /\ t.queue = KeepNewest(q)
      /\ t.lastRecv = last
      /\ t.ack = s.ack
  BY DEF Accepted, Runtime
<1>6. t \in Runtime
  BY <1>4, KeepNewestOK DEF Accepted, Runtime
<1> HIDE DEF q, t
<1>7. /\ Rising(KeepNewest(q))
      /\ \A i \in 1 .. Len(KeepNewest(q)) :
           s.ack < KeepNewest(q)[i] /\ KeepNewest(q)[i] <= last
  BY <1>4, KeepNewestOK
<1>8. last # NoInput /\ s.ack <= last
  BY <1>1, <1>3 DEF NoInput
<1>9. ServerOK(t)
  BY <1>5, <1>7, <1>8 DEF ServerOK
<1> QED
  BY <1>5, <1>6, <1>9 DEF t

\* What every operation of the server that receives no inputs preserves.
Preserves(s, t) ==
  /\ t \in Runtime /\ ServerOK(t)
  /\ t.ack >= s.ack /\ t.lastRecv = s.lastRecv

\* Dropping the queue and acknowledging the last input received, or nothing.
LEMMA ClearedOK ==
  ASSUME NEW s \in Runtime, ServerOK(s), NEW t \in Runtime,
         t.queue = << >>, t.lastRecv = s.lastRecv,
         t.ack \in {s.ack, IF s.lastRecv = NoInput THEN 0 ELSE s.lastRecv}
  PROVE  Preserves(s, t)
  BY DEF Preserves, ServerOK, Runtime, Rising, NoInput

LEMMA RuntimeValues == << >> \in Seq(Nat) /\ "none" \in Seat /\ "driver" \in Seat
  BY DEF Seat

LEMMA EnteredOK ==
  ASSUME NEW s \in Runtime, ServerOK(s)  PROVE  Preserves(s, Entered(s))
<1>1. Entered(s) \in Runtime
  BY RuntimeValues DEF Entered, Runtime, NoInput
<1>2. /\ Entered(s).queue = << >>
      /\ Entered(s).lastRecv = s.lastRecv
      /\ Entered(s).ack = IF s.lastRecv = NoInput THEN s.ack ELSE s.lastRecv
  BY DEF Entered, Runtime
<1> QED
  BY <1>1, <1>2, ClearedOK

LEMMA LeftOK ==
  ASSUME NEW s \in Runtime, ServerOK(s)  PROVE  Preserves(s, Left(s))
<1>1. Left(s) \in Runtime
  BY RuntimeValues DEF Left, Runtime
<1>2. /\ Left(s).queue = s.queue
      /\ Left(s).lastRecv = s.lastRecv
      /\ Left(s).ack = s.ack
  BY DEF Left, Runtime
<1>3. ServerOK(Left(s))
  BY <1>2 DEF ServerOK
<1> QED
  BY <1>1, <1>2, <1>3 DEF Preserves, Runtime

LEMMA KilledOK ==
  ASSUME NEW s \in Runtime, ServerOK(s)  PROVE  Preserves(s, Killed(s))
<1>1. Killed(s) \in Runtime
  BY RuntimeValues, PipelineAssumption DEF Killed, Runtime
<1>2. /\ Killed(s).queue = << >>
      /\ Killed(s).lastRecv = s.lastRecv
      /\ Killed(s).ack = s.ack
  BY DEF Killed, Runtime
<1> QED
  BY <1>1, <1>2, ClearedOK

LEMMA RespawnStepOK ==
  ASSUME NEW s \in Runtime, ServerOK(s)  PROVE  Preserves(s, RespawnStep(s))
<1>1. CASE s.respawnIn = 1
  <2>1. RespawnStep(s) =
          [queue |-> << >>, lastRecv |-> s.lastRecv,
           ack |-> IF s.lastRecv = NoInput THEN 0 ELSE s.lastRecv,
           seat |-> s.seat, respawnIn |-> 0]
    BY <1>1 DEF RespawnStep, Runtime
  <2>2. RespawnStep(s) \in Runtime
    BY <2>1 DEF Runtime, NoInput
  <2> QED
    BY <2>1, <2>2, ClearedOK
<1>2. CASE s.respawnIn > 1
  <2>1. RespawnStep(s) =
          [queue |-> s.queue, lastRecv |-> s.lastRecv, ack |-> s.ack,
           seat |-> s.seat, respawnIn |-> s.respawnIn - 1]
    BY <1>2 DEF RespawnStep, Runtime
  <2>2. RespawnStep(s) \in Runtime
    BY <1>2, <2>1 DEF Runtime
  <2>3. ServerOK(RespawnStep(s))
    BY <2>1 DEF ServerOK
  <2> QED
    BY <2>1, <2>2, <2>3 DEF Preserves, Runtime
<1>3. CASE ~(s.respawnIn = 1) /\ ~(s.respawnIn > 1)
  BY <1>3 DEF RespawnStep, Preserves, ServerOK, Runtime
<1> QED
  BY <1>1, <1>2, <1>3

LEMMA TakenOK ==
  ASSUME NEW s \in Runtime, ServerOK(s)  PROVE  Preserves(s, Taken(s))
<1> DEFINE q == s.queue
<1>1. q \in Seq(Nat) /\ s.ack \in Nat /\ s.lastRecv \in Nat \cup {NoInput}
  BY DEF Runtime
<1>2. CASE q = << >>
  BY <1>2 DEF Taken, Preserves, Runtime
<1>3. CASE q # << >> /\ s.seat = "driver" /\ Len(q) >= ServerCatchup
  <2>1. Len(q) \in 1 .. Len(q)
    BY <1>1, <1>3
  <2>2. Taken(s) = [queue |-> << >>, lastRecv |-> s.lastRecv, ack |-> q[Len(q)],
                    seat |-> s.seat, respawnIn |-> s.respawnIn]
    BY <1>3 DEF Taken, Runtime
  <2> QED
    BY <1>1, <2>1, <2>2 DEF Preserves, ServerOK, Runtime, Rising, NoInput
<1>4. CASE q # << >> /\ ~(s.seat = "driver" /\ Len(q) >= ServerCatchup)
  <2>1. Taken(s) = [queue |-> Tail(q), lastRecv |-> s.lastRecv, ack |-> q[1],
                    seat |-> s.seat, respawnIn |-> s.respawnIn]
    BY <1>4 DEF Taken, Runtime
  <2>2. /\ Tail(q) \in Seq(Nat) /\ Len(Tail(q)) = Len(q) - 1
        /\ \A i \in 1 .. Len(q) - 1 : Tail(q)[i] = q[i + 1]
    BY <1>1, <1>4
  <2>3. 1 \in 1 .. Len(q) /\ q[1] \in Nat
    BY <1>1, <1>4
  <2>4. \A i \in 1 .. Len(q) - 1 : i + 1 \in 1 .. Len(q) /\ 1 < i + 1
    BY <1>1
  <2>5. Rising(Tail(q))
    BY <1>1, <2>2, <2>4 DEF ServerOK, Rising
  <2>6. \A i \in 1 .. Len(Tail(q)) : q[1] < Tail(q)[i] /\ Tail(q)[i] <= s.lastRecv
    BY <2>2, <2>3, <2>4 DEF ServerOK, Rising
  <2>7. s.lastRecv # NoInput /\ s.ack < q[1] /\ q[1] <= s.lastRecv
    BY <1>1, <1>4, <2>3 DEF ServerOK
  <2> HIDE DEF q
  <2>8. Taken(s) \in Runtime
    BY <2>1, <2>2, <2>3 DEF Runtime
  <2> QED
    BY <1>1, <2>1, <2>3, <2>5, <2>6, <2>7, <2>8 DEF Preserves, ServerOK
<1> QED
  BY <1>2, <1>3, <1>4

-----------------------------------------------------------------------------
\* The inductive invariant

\* A message of inputs up to some number, none half a range behind top.
MessageOK(m, top) ==
  m.kind = "inputs" =>
    /\ 1 <= m.first /\ m.first <= m.last /\ m.last <= top
    /\ top - m.first < Half

MessagesOK == \A i \in 1 .. Len(up) : MessageOK(up[i], next - 1)

\* Acknowledgements lag from server to network to client.
AcksOK ==
  /\ seenAck <= rt.ack /\ footAck <= seenAck
  /\ \A i \in 1 .. Len(down) : seenAck <= down[i].ack /\ down[i].ack <= rt.ack
  /\ \A i, j \in 1 .. Len(down) : i < j => down[i].ack <= down[j].ack

WindowOK ==
  /\ rt.lastRecv < next
  /\ next - 1 - seenAck < Half
  /\ \A c \in veh : next - 1 - c < Half

PipelineInv == TypeOK /\ ServerOK(rt) /\ MessagesOK /\ AcksOK /\ WindowOK

LEMMA InitInv == Init => PipelineInv
<1> SUFFICES ASSUME Init PROVE PipelineInv
  OBVIOUS
<1>1. rt \in Runtime /\ ServerOK(rt) /\ rt.lastRecv = NoInput /\ rt.ack = 0
  BY RuntimeValues DEF Init, NewRuntime, Runtime, ServerOK, Rising, NoInput
<1>2. veh = 1 .. next - 1 /\ 1 \in 1 .. next
  BY DEF Init
<1>3. up \in Seq(Message) /\ down \in Seq(Report)
  BY DEF Init
<1>4. VehicleRun
  BY <1>2 DEF VehicleRun
<1>5. TypeOK
  <2>1. next \in Nat \ {0} /\ seenAck \in Nat /\ footAck \in Nat
    BY DEF Init
  <2>2. foot \in SUBSET (1 .. next - 1)
    BY DEF Init
  <2>3. inVehicle \in BOOLEAN /\ seenDriving \in BOOLEAN /\ odd \in BOOLEAN
    BY DEF Init
  <2> QED
    BY <1>1, <1>3, <1>4, <2>1, <2>2, <2>3 DEF TypeOK
<1> QED
  BY <1>1, <1>5, PipelineAssumption
     DEF Init, PipelineInv, MessagesOK, AcksOK, WindowOK, NoInput

-----------------------------------------------------------------------------
\* The client's frames

LEMMA SendOK ==
  ASSUME NEW u \in Seq(Message), NEW r \in Seq({Enter, Exit}),
         NEW b \in Seq(Message), NEW top \in Int,
         \A i \in 1 .. Len(u) : MessageOK(u[i], top),
         \A i \in 1 .. Len(b) : MessageOK(b[i], top)
  PROVE  /\ u \o r \o b \in Seq(Message)
         /\ \A i \in 1 .. Len(u \o r \o b) : MessageOK((u \o r \o b)[i], top)
<1>1. \A m \in {Enter, Exit} : MessageOK(m, top)
  BY DEF MessageOK, Enter, Exit
<1>2. r \in Seq(Message) /\ \A i \in 1 .. Len(r) : MessageOK(r[i], top)
  <2>1. {Enter, Exit} \subseteq Message
    BY DEF Message
  <2>2. r \in Seq(Message)
    BY <2>1, SeqMonotonic
  <2>3. \A i \in 1 .. Len(r) : r[i] \in {Enter, Exit}
    BY ElementOfSeq
  <2> QED
    BY <1>1, <2>2, <2>3
<1> DEFINE ur == u \o r
<1>3. ur \in Seq(Message) /\ \A i \in 1 .. Len(ur) : MessageOK(ur[i], top)
  <2>1. ur \in Seq(Message)
    BY <1>2, ConcatElement
  <2>2. \A i \in 1 .. Len(ur) :
              \/ \E j \in 1 .. Len(u) : ur[i] = u[j]
              \/ \E j \in 1 .. Len(r) : ur[i] = r[j]
    BY <1>2, ConcatElement
  <2> HIDE DEF ur
  <2> QED
    BY <1>2, <2>1, <2>2
<1> HIDE DEF ur
<1>4. /\ ur \o b \in Seq(Message)
      /\ \A i \in 1 .. Len(ur \o b) : MessageOK((ur \o b)[i], top)
  <2> DEFINE urb == ur \o b
  <2>1. urb \in Seq(Message)
    BY <1>3, ConcatElement
  <2>2. \A i \in 1 .. Len(urb) :
              \/ \E j \in 1 .. Len(ur) : urb[i] = ur[j]
              \/ \E j \in 1 .. Len(b) : urb[i] = b[j]
    BY <1>3, ConcatElement
  <2> HIDE DEF urb
  <2>3. \A i \in 1 .. Len(urb) : MessageOK(urb[i], top)
    BY <1>3, <2>1, <2>2
  <2> QED
    BY <2>1, <2>3 DEF urb
<1> QED
  BY <1>4 DEF ur

\* The messages in flight stay within the window when top is the newest
\* input and the environment lets it be made, or when none is made.
LEMMA OldMessagesOK ==
  ASSUME PipelineInv, NEW k \in Nat, k > 0 => Recent(next + k - 1)
  PROVE  \A i \in 1 .. Len(up) : MessageOK(up[i], next + k - 1)
<1> SUFFICES ASSUME NEW i \in 1 .. Len(up), up[i].kind = "inputs"
             PROVE  MessageOK(up[i], next + k - 1)
  BY DEF MessageOK
<1>1. /\ 1 <= up[i].first /\ up[i].first <= up[i].last
      /\ up[i].last <= next - 1 /\ next - 1 - up[i].first < Half
  BY DEF PipelineInv, MessagesOK, MessageOK
<1>2. up[i] \in [kind : {"inputs"}, first : Nat, last : Nat]
  <2>1. up[i] \in Message
    BY ElementOfSeq DEF PipelineInv, TypeOK
  <2> QED
    BY <2>1 DEF Message, Enter, Exit
<1>3. next \in Nat /\ up[i].first \in Nat /\ up[i].last \in Nat
  BY <1>2 DEF PipelineInv, TypeOK
<1>4. CASE k = 0
  BY <1>1, <1>3, <1>4 DEF MessageOK
<1>5. CASE k > 0
  <2>1. next + k - 1 - up[i].first < Half
    <3>1. Recent(next + k - 1)
      BY <1>5
    <3>2. InWindow(up[i], next + k - 1)
      BY <3>1, Zenon DEF Recent
    <3> QED
      BY <1>3, <3>2, PipelineAssumption DEF InWindow
  <2> QED
    BY <1>1, <1>3, <2>1, SMTT(30) DEF MessageOK
<1> QED
  BY <1>4, <1>5

LEMMA FootUpdateInv ==
  ASSUME PipelineInv, NEW k \in 0 .. CatchupSteps,
         NEW requests \in Seq({Enter, Exit}), FootUpdate(k, requests),
         UNCHANGED <<seenDriving, seenAck, footAck, down, rt, odd>>
  PROVE  PipelineInv'
<1> DEFINE top == next + k - 1
           b == IF k = 0 THEN << >> ELSE << Inputs(next, top) >>
<1>1. k \in Nat /\ k <= Half /\ next \in Nat \ {0} /\ next' = next + k
  BY PipelineAssumption DEF FootUpdate, PipelineInv, TypeOK
<1>2. b \in Seq(Message) /\ \A i \in 1 .. Len(b) : MessageOK(b[i], top)
  <2>1. CASE k = 0
    BY <2>1
  <2>2. CASE k # 0
    <3>1. Inputs(next, top) \in Message
      BY <1>1, <2>2 DEF Inputs, Message
    <3>2. MessageOK(Inputs(next, top), top)
      <4>1. Inputs(next, top).first = next /\ Inputs(next, top).last = top
        BY DEF Inputs
      <4>2. top \in Int /\ next <= top /\ top - next < Half /\ 1 <= next
        BY <1>1, <2>2, PipelineAssumption
      <4> HIDE DEF top
      <4> QED
        BY <1>1, <4>1, <4>2 DEF MessageOK
    <3>3. b = << Inputs(next, top) >>
      BY <2>2
    <3> HIDE DEF b
    <3> QED
      BY <3>1, <3>2, <3>3
  <2> QED
    BY <2>1, <2>2
<1>3. \A i \in 1 .. Len(up) : MessageOK(up[i], top)
  BY <1>1, OldMessagesOK DEF FootUpdate
<1>4. up' = up \o requests \o b
  BY DEF FootUpdate
<1>5. up' \in Seq(Message) /\ MessagesOK'
  <2>1. up \in Seq(Message) /\ top \in Int /\ top = next' - 1
    BY <1>1 DEF PipelineInv, TypeOK
  <2> HIDE DEF top, b
  <2>2. /\ up' \in Seq(Message)
        /\ \A i \in 1 .. Len(up') : MessageOK(up'[i], top)
    BY <1>2, <1>3, <1>4, <2>1, SendOK
  <2> QED
    BY <2>1, <2>2 DEF MessagesOK
<1>6. VehicleRun' /\ veh' = {}
  <2>1. veh' = {}
    BY DEF FootUpdate
  <2>2. veh' = next' .. next' - 1 /\ next' \in 1 .. next'
    BY <1>1, <2>1
  <2> QED
    BY <2>1, <2>2 DEF VehicleRun
<1>7. foot' \in SUBSET (1 .. next' - 1)
  BY <1>1 DEF FootUpdate, Generated, PipelineInv, TypeOK
<1>8. TypeOK'
  <2>1. next' \in Nat \ {0}
    BY <1>1
  <2>2. inVehicle' \in BOOLEAN
    BY DEF FootUpdate
  <2>3. /\ seenDriving' \in BOOLEAN /\ odd' \in BOOLEAN
        /\ seenAck' \in Nat /\ footAck' \in Nat /\ rt' \in Runtime
        /\ down' \in Seq(Report)
    BY DEF PipelineInv, TypeOK
  <2> QED
    BY <1>5, <1>6, <1>7, <2>1, <2>2, <2>3 DEF TypeOK
<1>9. WindowOK'
  <2>1. next' - 1 - seenAck < Half
    BY <1>1 DEF FootUpdate, Recent, PipelineInv, WindowOK, TypeOK
  <2> QED
    BY <1>1, <1>6, <2>1 DEF PipelineInv, WindowOK, TypeOK, Runtime, NoInput
<1> QED
  BY <1>5, <1>8, <1>9 DEF PipelineInv, AcksOK

LEMMA VehicleUpdateInv ==
  ASSUME PipelineInv, NEW k \in 0 .. CatchupSteps, NEW buffer \in {veh, {}},
         NEW requests \in Seq({Enter, Exit}),
         VehicleUpdate(k, buffer, requests),
         UNCHANGED <<seenDriving, seenAck, footAck, down, rt, odd>>
  PROVE  PipelineInv'
<1> DEFINE top == next + k - 1
           grown == buffer \cup Generated(k)
           kept == IF k > 0 /\ Cardinality(grown) > BacklogLimit
                   THEN Newest(grown, top, Redundancy) ELSE grown
           window == SendWindow(kept, top, k)
<1>1. /\ k \in Nat /\ next \in Nat \ {0} /\ next' = next + k
      /\ top \in Nat /\ top = next' - 1 /\ next' \in Nat \ {0}
      /\ Half \in Nat \ {0}
  BY PipelineAssumption DEF VehicleUpdate, PipelineInv, TypeOK
<1>2. PICK lo \in 1 .. next : buffer = lo .. next - 1
  <2>1. CASE buffer = veh
    BY <2>1 DEF PipelineInv, TypeOK, VehicleRun
  <2>2. CASE buffer = {}
    <3>1. {} = next .. next - 1 /\ next \in 1 .. next
      BY <1>1
    <3> QED
      BY <2>2, <3>1
  <2> QED
    BY <2>1, <2>2
<1>3. grown = lo .. top
  BY <1>1, <1>2 DEF Generated
<1>4. \E l \in 1 .. next' : kept = l .. top /\ \A c \in l .. top : top - c < Half
  <2>1. CASE k > 0 /\ Cardinality(grown) > BacklogLimit
    <3>1. kept = {c \in lo .. top : c > top - Redundancy}
      BY <1>3, <2>1 DEF Newest
    <3> HIDE DEF kept
    <3>2. CASE lo > top - Redundancy
      <4>1. kept = lo .. top
        BY <1>1, <1>2, <3>1, <3>2, PipelineAssumption
      <4>2. \A c \in lo .. top : top - c < Half
        BY <1>1, <1>2, <3>2, PipelineAssumption
      <4> QED
        BY <1>1, <1>2, <4>1, <4>2
    <3>3. CASE ~(lo > top - Redundancy)
      <4> DEFINE l == top - Redundancy + 1
      <4>1. l \in 1 .. next'
        BY <1>1, <1>2, <3>3, PipelineAssumption
      <4>2. kept = l .. top
        BY <1>1, <1>2, <3>1, <3>3, PipelineAssumption
      <4>3. \A c \in l .. top : top - c < Half
        BY <1>1, <4>1, PipelineAssumption
      <4> QED
        BY <4>1, <4>2, <4>3
    <3> QED
      BY <3>2, <3>3
  <2>2. CASE k > 0 /\ ~(Cardinality(grown) > BacklogLimit)
    <3>1. lo <= top /\ lo \in Int /\ top \in Int
      BY <1>1, <1>2, <2>2
    <3>2. kept = lo .. top
      BY <1>3, <2>2
    <3> HIDE DEF grown, kept, top
    <3>3. Cardinality(grown) = top - lo + 1
      BY <1>3, <3>1, FS_Interval
    <3>4. \A c \in lo .. top : top - c < Half
      BY <2>2, <3>1, <3>3, PipelineAssumption
    <3>5. lo \in 1 .. next'
      BY <1>1, <1>2
    <3> QED
      BY <3>2, <3>4, <3>5, Zenon
  <2>3. CASE k = 0
    <3>1. kept = buffer /\ kept = lo .. top
      BY <1>1, <1>2, <1>3, <2>3 DEF Generated
    <3>2. \A c \in buffer : top - c < Half
      BY <1>1, <2>3 DEF PipelineInv, WindowOK
    <3>3. lo \in 1 .. next' /\ \A c \in lo .. top : top - c < Half
      BY <1>1, <1>2, <3>1, <3>2
    <3> HIDE DEF kept, top
    <3> QED
      BY <3>1, <3>3, Zenon
  <2> HIDE DEF kept
  <2> QED
    BY <1>1, <2>1, <2>2, <2>3
<1>4a. PICK l \in 1 .. next' : kept = l .. top /\ \A c \in l .. top : top - c < Half
  BY <1>4
<1>5. veh' = kept
  BY DEF VehicleUpdate
<1>6. VehicleRun' /\ \A c \in veh' : next' - 1 - c < Half
  BY <1>1, <1>4a, <1>5 DEF VehicleRun
<1>7. \A i \in 1 .. Len(up) : MessageOK(up[i], top)
  BY <1>1, OldMessagesOK DEF VehicleUpdate
<1>8. PICK b \in Seq(Message) :
        /\ up' = up \o requests \o b
        /\ \A i \in 1 .. Len(b) : MessageOK(b[i], top)
  <2>1. CASE window = {} /\ up' = up \o requests
    <3>1. up \o requests \o << >> = up \o requests
      <4>1. requests \in Seq(Message)
        <5>1. {Enter, Exit} \subseteq Message
          BY DEF Message
        <5> QED
          BY <5>1, SeqMonotonic
      <4>2. up \o requests \in Seq(Message)
        BY <4>1, ConcatElement DEF PipelineInv, TypeOK
      <4> QED
        BY <4>2, ConcatEmptySeq
    <3> HIDE DEF top, window
    <3>2. << >> \in Seq(Message)
      OBVIOUS
    <3>3. \A i \in 1 .. Len(<< >>) : MessageOK(<< >>[i], top)
      OBVIOUS
    <3>4. up' = up \o requests \o << >>
      BY <2>1, <3>1
    <3> QED
      BY <3>2, <3>3, <3>4, Zenon
  <2>2. ASSUME NEW first \in window,
               up' = up \o requests \o << Inputs(first, top) >>
        PROVE  \E b \in Seq(Message) :
                 /\ up' = up \o requests \o b
                 /\ \A i \in 1 .. Len(b) : MessageOK(b[i], top)
    <3>1. first \in l .. top /\ first > top - Redundancy
      BY <1>4a DEF SendWindow, Newest
    <3>2. first \in Nat /\ 1 <= first /\ first <= top /\ top - first < Half
      BY <1>1, <1>4a, <3>1, PipelineAssumption
    <3>3. Inputs(first, top).first = first /\ Inputs(first, top).last = top
      BY DEF Inputs
    <3>4. Inputs(first, top) \in Message
      BY <1>1, <3>2 DEF Inputs, Message
    <3> HIDE DEF top
    <3>5. MessageOK(Inputs(first, top), top)
      BY <1>1, <3>2, <3>3 DEF MessageOK
    <3>6. << Inputs(first, top) >> \in Seq(Message)
      BY <3>4
    <3>7. \A i \in 1 .. Len(<< Inputs(first, top) >>) :
            MessageOK(<< Inputs(first, top) >>[i], top)
      BY <3>5
    <3> QED
      BY <2>2, <3>6, <3>7, Zenon
  <2> QED
    BY <2>1, <2>2 DEF VehicleUpdate
<1>9. up' \in Seq(Message) /\ MessagesOK'
  <2>1. up \in Seq(Message) /\ top \in Int
    BY <1>1 DEF PipelineInv, TypeOK
  <2> HIDE DEF top
  <2>2. /\ up' \in Seq(Message)
        /\ \A i \in 1 .. Len(up') : MessageOK(up'[i], top)
    BY <1>7, <1>8, <2>1, SendOK
  <2> QED
    BY <1>1, <2>2 DEF MessagesOK
<1>10. foot' \in SUBSET (1 .. next' - 1)
  BY <1>1 DEF VehicleUpdate, PipelineInv, TypeOK
<1>11. TypeOK'
  <2>1. inVehicle' \in BOOLEAN
    BY DEF VehicleUpdate
  <2>2. /\ seenDriving' \in BOOLEAN /\ odd' \in BOOLEAN
        /\ seenAck' \in Nat /\ footAck' \in Nat /\ rt' \in Runtime
        /\ down' \in Seq(Report)
    BY DEF PipelineInv, TypeOK
  <2> QED
    BY <1>1, <1>6, <1>9, <1>10, <2>1, <2>2 DEF TypeOK
<1>12. WindowOK'
  <2>1. next' - 1 - seenAck < Half
    BY <1>1 DEF VehicleUpdate, Recent, PipelineInv, WindowOK, TypeOK
  <2> QED
    BY <1>1, <1>6, <2>1 DEF PipelineInv, WindowOK, TypeOK, Runtime, NoInput
<1> QED
  BY <1>9, <1>11, <1>12 DEF PipelineInv, AcksOK

-----------------------------------------------------------------------------
\* The network and the server

LEMMA PreservesTrans ==
  ASSUME NEW r \in Runtime, NEW s, NEW t, Preserves(r, s), Preserves(s, t)
  PROVE  Preserves(r, t)
  BY DEF Preserves, Runtime

LEMMA SnapshotAcks ==
  ASSUME PipelineInv  PROVE \A j \in 1 .. Len(down) : down[j].ack \in Nat
<1>1. down \in Seq(Report)
  BY DEF PipelineInv, TypeOK
<1>2. \A j \in 1 .. Len(down) : down[j] \in Report
  BY <1>1, ElementOfSeq
<1> QED
  BY <1>2 DEF Report

\* Nothing the server acknowledges is beyond what the client has made.
LEMMA AckMade == ASSUME PipelineInv PROVE rt.ack < next
  BY DEF PipelineInv, TypeOK, ServerOK, WindowOK, Runtime, NoInput

LEMMA LessMessagesOK ==
  ASSUME PipelineInv, NEW i \in 1 .. Len(up), up' = Without(up, i), next' = next
  PROVE  up' \in Seq(Message) /\ MessagesOK'
<1>1. /\ up' \in Seq(Message) /\ Len(up') = Len(up) - 1 /\ Len(up) \in Nat
      /\ \A j \in 1 .. Len(up) - 1 : up'[j] = up[IF j < i THEN j ELSE j + 1]
  <2>1. up \in Seq(Message) /\ Len(up) \in Nat
    BY DEF PipelineInv, TypeOK
  <2> QED
    BY <2>1, WithoutOK
<1>2. ASSUME NEW j \in 1 .. Len(up')  PROVE MessageOK(up'[j], next - 1)
  <2>1. PICK k \in 1 .. Len(up) : up'[j] = up[k]
    <3>1. CASE j < i
      BY <1>1, <3>1
    <3>2. CASE ~(j < i)
      BY <1>1, <3>2
    <3> QED
      BY <3>1, <3>2
  <2> QED
    BY <2>1 DEF PipelineInv, MessagesOK
<1> QED
  BY <1>1, <1>2 DEF MessagesOK

\* The arriving bundle is accepted only from its first number past the last
\* received one: the comparison is exact inside the window.
LEMMA ReceiveInputsOK ==
  ASSUME PipelineInv, NEW i \in 1 .. Len(up), ReceiveInputs(i)
  PROVE  /\ rt' \in Runtime /\ ServerOK(rt')
         /\ rt'.ack = rt.ack /\ rt'.lastRecv >= rt.lastRecv /\ rt'.lastRecv < next
<1> DEFINE m == up[i]
<1>1. /\ rt \in Runtime /\ ServerOK(rt) /\ rt.lastRecv < next /\ next \in Nat
      /\ rt.lastRecv \in Nat \cup {NoInput} /\ rt.ack \in Nat
      /\ seenAck \in Nat /\ seenAck <= rt.ack /\ next - 1 - seenAck < Half
      /\ Half \in Nat
  BY PipelineAssumption DEF PipelineInv, TypeOK, WindowOK, AcksOK, Runtime
<1>2. CASE rt' = rt
  BY <1>1, <1>2 DEF NoInput
<1>3. ASSUME NEW f \in m.first .. m.last, IsNew(rt, f),
             rt' = Accepted(rt, f, m.last)
      PROVE  /\ rt' \in Runtime /\ ServerOK(rt')
             /\ rt'.ack = rt.ack /\ rt'.lastRecv >= rt.lastRecv
             /\ rt'.lastRecv < next
  <2>1. m.kind = "inputs" /\ m \in Message
    BY ElementOfSeq DEF ReceiveInputs, PipelineInv, TypeOK
  <2>2. m.first \in Nat /\ m.last \in Nat
    BY <2>1 DEF Message, Enter, Exit
  <2>3. /\ 1 <= m.first /\ m.first <= m.last /\ m.last <= next - 1
        /\ next - 1 - m.first < Half
    BY <2>1 DEF PipelineInv, MessagesOK, MessageOK
  <2> HIDE DEF m
  <2>4. f \in Nat \ {0} /\ f <= m.last /\ f >= m.first
    BY <2>2, <2>3
  <2>5. f > rt.lastRecv
    <3>1. CASE rt.lastRecv = NoInput
      BY <2>4, <3>1 DEF NoInput
    <3>2. CASE rt.lastRecv # NoInput
      <4>1. rt.lastRecv \in Nat /\ seenAck <= rt.lastRecv
        BY <1>1, <3>2 DEF ServerOK
      <4>2. f - rt.lastRecv < Half /\ rt.lastRecv - f < Half
        BY <1>1, <2>2, <2>3, <2>4, <4>1, SMTT(30)
      <4>3. SeqIsNewer(f, rt.lastRecv)
        BY <1>3, <3>2 DEF IsNew
      <4> QED
        BY <2>4, <4>1, <4>2, <4>3, NewerIsGreater
    <3> QED
      BY <3>1, <3>2
  <2>6. /\ rt' \in Runtime /\ ServerOK(rt')
        /\ rt'.ack = rt.ack /\ rt'.lastRecv = m.last
    BY <1>1, <1>3, <2>2, <2>4, <2>5, AcceptedOK
  <2> QED
    BY <1>1, <2>2, <2>3, <2>4, <2>5, <2>6 DEF NoInput
<1> QED
  BY <1>2, <1>3 DEF ReceiveInputs

LEMMA ReceiveInv == ASSUME PipelineInv, Receive PROVE PipelineInv'
<1>1. PICK i \in MayArrive(up) :
        /\ ReceiveInputs(i) \/ ReceiveEnter(i) \/ ReceiveExit(i)
        /\ up' = Without(up, i)
  BY DEF Receive
<1>2. i \in 1 .. Len(up)
  BY ArrivalInRange DEF PipelineInv, TypeOK
<1>3. UNCHANGED <<next, inVehicle, seenDriving, foot, veh, seenAck, footAck, down, odd>>
  BY DEF Receive, clientVars
<1>4. rt \in Runtime /\ ServerOK(rt)
  BY DEF PipelineInv, TypeOK
<1>5. /\ rt' \in Runtime /\ ServerOK(rt')
      /\ rt'.ack >= rt.ack /\ rt'.lastRecv < next
  <2>1. CASE ReceiveInputs(i)
    BY <1>2, <1>4, <2>1, ReceiveInputsOK DEF Runtime
  <2>2. CASE rt' = rt
    BY <1>4, <2>2 DEF PipelineInv, WindowOK, Runtime
  <2>3. CASE rt' = Entered(rt)
    BY <1>4, <2>3, EnteredOK DEF Preserves, PipelineInv, WindowOK
  <2>4. CASE rt' = Left(rt)
    BY <1>4, <2>4, LeftOK DEF Preserves, PipelineInv, WindowOK
  <2> QED
    BY <1>1, <2>1, <2>2, <2>3, <2>4 DEF ReceiveEnter, ReceiveExit
<1>6. up' \in Seq(Message) /\ MessagesOK'
  BY <1>1, <1>2, <1>3, LessMessagesOK
<1>7. TypeOK'
  BY <1>3, <1>5, <1>6 DEF PipelineInv, TypeOK, VehicleRun
<1>8. AcksOK'
  <2>1. \A j \in 1 .. Len(down) : down[j].ack \in Nat
    BY SnapshotAcks
  <2>2. seenAck \in Nat /\ rt.ack \in Nat /\ rt'.ack \in Nat
    BY <1>4, <1>5 DEF PipelineInv, TypeOK, Runtime
  <2> QED
    BY <1>3, <1>5, <2>1, <2>2 DEF PipelineInv, AcksOK
<1>9. WindowOK'
  BY <1>3, <1>5 DEF PipelineInv, WindowOK
<1> QED
  BY <1>5, <1>6, <1>7, <1>8, <1>9 DEF PipelineInv

LEMMA LoseMessageInv == ASSUME PipelineInv, LoseMessage PROVE PipelineInv'
<1>1. PICK i \in 1 .. Len(up) : up' = Without(up, i)
  BY DEF LoseMessage, PipelineInv, TypeOK
<1>2. UNCHANGED <<next, inVehicle, seenDriving, foot, veh, seenAck, footAck, down, rt, odd>>
  BY DEF LoseMessage, clientVars
<1>3. up' \in Seq(Message) /\ MessagesOK'
  BY <1>1, <1>2, LessMessagesOK
<1>4. TypeOK'
  BY <1>2, <1>3 DEF PipelineInv, TypeOK, VehicleRun
<1> QED
  BY <1>2, <1>3, <1>4 DEF PipelineInv, AcksOK, WindowOK

LEMMA ServerTickInv == ASSUME PipelineInv, ServerTick PROVE PipelineInv'
<1> DEFINE s == Taken(RespawnStep(rt))
<1>1. UNCHANGED <<next, inVehicle, seenDriving, foot, veh, seenAck, footAck, up>>
  BY DEF ServerTick, clientVars
<1>2. rt \in Runtime /\ ServerOK(rt)
  BY DEF PipelineInv, TypeOK
<1>3. Preserves(rt, rt')
  <2>1. Preserves(rt, RespawnStep(rt))
    BY <1>2, RespawnStepOK
  <2>2. Preserves(RespawnStep(rt), s)
    BY <2>1, TakenOK DEF Preserves
  <2>3. Preserves(rt, s)
    BY <1>2, <2>1, <2>2, PreservesTrans
  <2>4. Preserves(s, Killed(s))
    BY <2>2, KilledOK DEF Preserves
  <2>5. Preserves(rt, Killed(s))
    BY <1>2, <2>3, <2>4, PreservesTrans
  <2> QED
    BY <2>3, <2>5 DEF ServerTick
<1>4. /\ rt' \in Runtime /\ ServerOK(rt')
      /\ rt'.ack >= rt.ack /\ rt'.lastRecv = rt.lastRecv
      /\ rt.ack \in Nat /\ rt'.ack \in Nat
  BY <1>2, <1>3 DEF Preserves, Runtime
<1>5. down' = down \/ down' = Append(down, Snapshot(rt'))
  BY DEF ServerTick, Sent
<1>6. down \in Seq(Report) /\ odd' \in BOOLEAN
  BY DEF PipelineInv, TypeOK, ServerTick
<1>7. /\ Snapshot(rt') \in Report
      /\ Snapshot(rt').ack = rt'.ack
  BY <1>4 DEF Snapshot, Report
<1>8. down' \in Seq(Report)
  BY <1>5, <1>6, <1>7, AppendProperties
<1>9. TypeOK'
  BY <1>1, <1>4, <1>6, <1>8 DEF PipelineInv, TypeOK, VehicleRun
<1>10. AcksOK'
  <2>1. /\ \A j \in 1 .. Len(down) : /\ down[j].ack \in Nat
                                     /\ seenAck <= down[j].ack
                                     /\ down[j].ack <= rt.ack
        /\ \A i, j \in 1 .. Len(down) : i < j => down[i].ack <= down[j].ack
        /\ seenAck <= rt.ack /\ footAck <= seenAck /\ seenAck \in Nat
    BY SnapshotAcks DEF PipelineInv, AcksOK, TypeOK
  <2>2. CASE down' = down
    BY <1>1, <1>4, <2>1, <2>2 DEF AcksOK
  <2>3. CASE down' = Append(down, Snapshot(rt'))
    <3>1. /\ Len(down) \in Nat /\ Len(down') = Len(down) + 1
          /\ \A j \in 1 .. Len(down) : down'[j] = down[j]
          /\ down'[Len(down) + 1] = Snapshot(rt')
      BY <1>6, <1>7, <2>3, AppendProperties
    <3>2. \A j \in 1 .. Len(down') :
            \/ j \in 1 .. Len(down) /\ down'[j].ack = down[j].ack
            \/ j = Len(down) + 1 /\ down'[j].ack = rt'.ack
      BY <1>7, <3>1
    <3>3. \A j \in 1 .. Len(down') : seenAck <= down'[j].ack /\ down'[j].ack <= rt'.ack
      BY <1>4, <2>1, <3>2
    <3>4. \A i, j \in 1 .. Len(down') : i < j => down'[i].ack <= down'[j].ack
      <4> SUFFICES ASSUME NEW i \in 1 .. Len(down'), NEW j \in 1 .. Len(down'), i < j
                   PROVE  down'[i].ack <= down'[j].ack
        OBVIOUS
      <4>1. i \in 1 .. Len(down) /\ down'[i].ack = down[i].ack
        BY <3>1, <3>2
      <4> QED
        BY <1>4, <2>1, <3>2, <4>1, SMTT(30)
    <3> QED
      BY <1>1, <1>4, <2>1, <3>3, <3>4 DEF AcksOK
  <2> QED
    BY <1>5, <2>2, <2>3
<1> QED
  BY <1>1, <1>4, <1>9, <1>10 DEF PipelineInv, MessagesOK, WindowOK

LEMMA LoseSnapshotInv == ASSUME PipelineInv, LoseSnapshot PROVE PipelineInv'
<1>1. PICK i \in 1 .. Len(down) : down' = Without(down, i)
  BY DEF LoseSnapshot, PipelineInv, TypeOK
<1>2. UNCHANGED <<next, inVehicle, seenDriving, foot, veh, seenAck, footAck, up, rt, odd>>
  BY DEF LoseSnapshot, clientVars
<1>3. down \in Seq(Report) /\ Len(down) \in Nat
  BY DEF PipelineInv, TypeOK
<1>4. /\ down' \in Seq(Report) /\ Len(down') = Len(down) - 1
      /\ \A j \in 1 .. Len(down) - 1 : down'[j] = down[IF j < i THEN j ELSE j + 1]
  BY <1>1, <1>3, WithoutOK
<1>5. TypeOK'
  BY <1>2, <1>4 DEF PipelineInv, TypeOK, VehicleRun
<1>6. AcksOK'
  <2>1. \A j \in 1 .. Len(down') :
          (IF j < i THEN j ELSE j + 1) \in 1 .. Len(down)
    BY <1>3, <1>4
  <2>2. \A j \in 1 .. Len(down') : seenAck <= down'[j].ack /\ down'[j].ack <= rt.ack
    BY <1>4, <2>1 DEF PipelineInv, AcksOK
  <2>3. \A j, k \in 1 .. Len(down') : j < k => down'[j].ack <= down'[k].ack
    <3> SUFFICES ASSUME NEW j \in 1 .. Len(down'), NEW k \in 1 .. Len(down'), j < k
                 PROVE  down'[j].ack <= down'[k].ack
      OBVIOUS
    <3> DEFINE a == IF j < i THEN j ELSE j + 1
               b == IF k < i THEN k ELSE k + 1
    <3>1. a \in 1 .. Len(down) /\ b \in 1 .. Len(down) /\ a < b
      BY <1>3, <1>4, <2>1
    <3>2. down'[j] = down[a] /\ down'[k] = down[b]
      BY <1>4
    <3> HIDE DEF a, b
    <3> QED
      BY <3>1, <3>2 DEF PipelineInv, AcksOK
  <2> QED
    BY <1>2, <2>2, <2>3 DEF PipelineInv, AcksOK
<1> QED
  BY <1>2, <1>5, <1>6 DEF PipelineInv, MessagesOK, WindowOK

LEMMA ReceiveSnapshotInv == ASSUME PipelineInv, ReceiveSnapshot PROVE PipelineInv'
<1>1. PICK i \in 1 .. Len(down) :
        /\ seenAck' = down[i].ack /\ seenDriving' = down[i].driving
        /\ footAck' \in {footAck, down[i].ack}
        /\ foot' \subseteq foot
        /\ veh' \in {veh, Unacked(veh, down[i].ack)}
        /\ down' = SubSeq(down, i + 1, Len(down))
  <2>1. PICK i \in MayArrive(down) :
          /\ seenAck' = down[i].ack /\ seenDriving' = down[i].driving
          /\ IF inVehicle THEN UNCHANGED <<foot, footAck>>
             ELSE foot' = Unacked(foot, down[i].ack) /\ footAck' = down[i].ack
          /\ veh' = IF inVehicle /\ down[i].driving
                    THEN Unacked(veh, down[i].ack) ELSE veh
          /\ down' = SubSeq(down, i + 1, Len(down))
    BY DEF ReceiveSnapshot
  <2>2. i \in 1 .. Len(down)
    BY ArrivalInRange DEF PipelineInv, TypeOK
  <2>3. Unacked(foot, down[i].ack) \subseteq foot
    BY DEF Unacked
  <2> QED
    BY <2>1, <2>2, <2>3
<1>2. UNCHANGED <<next, inVehicle, up, rt, odd>>
  BY DEF ReceiveSnapshot
<1> DEFINE a == down[i].ack
<1>3. /\ a \in Nat /\ seenAck <= a /\ a <= rt.ack /\ rt.ack < next
      /\ seenAck \in Nat /\ rt.ack \in Nat /\ next \in Nat \ {0} /\ Half \in Nat
      /\ next - 1 - seenAck < Half /\ footAck <= seenAck /\ footAck \in Nat
  BY SnapshotAcks, AckMade, PipelineAssumption
     DEF PipelineInv, AcksOK, WindowOK, TypeOK, Runtime
<1>4. down \in Seq(Report) /\ Len(down) \in Nat /\ down[i] \in Report
  BY ElementOfSeq DEF PipelineInv, TypeOK
<1>5. /\ down' \in Seq(Report) /\ Len(down') = Len(down) - i
      /\ \A j \in 1 .. Len(down) - i : down'[j] = down[j + i]
  BY <1>1, <1>4
<1>6. VehicleRun' /\ \A c \in veh' : next' - 1 - c < Half
  <2>1. PICK lo \in 1 .. next : veh = lo .. next - 1
    BY DEF PipelineInv, TypeOK, VehicleRun
  <2>2. \A c \in veh : next - 1 - c < Half
    BY DEF PipelineInv, WindowOK
  <2>3. CASE veh' = veh
    BY <1>2, <2>1, <2>2, <2>3 DEF VehicleRun
  <2>4. CASE veh' = Unacked(veh, a)
    <3>1. ASSUME NEW c \in veh PROVE SeqIsNewer(c, a) <=> c > a
      <4>1. c \in Int /\ a \in Int
        BY <1>3, <2>1
      <4>2. c <= next - 1 /\ next - 1 - c < Half
        BY <1>3, <2>1, <2>2
      <4> HIDE DEF a
      <4>3. c - a < Half /\ a - c < Half
        BY <1>3, <4>1, <4>2
      <4> QED
        BY <4>1, <4>3, NewerIsGreater
    <3>2. veh' = {c \in lo .. next - 1 : c > a}
      BY <2>1, <2>4, <3>1 DEF Unacked
    <3> HIDE DEF a
    <3>3. CASE lo > a
      <4>1. veh' = lo .. next - 1
        BY <1>3, <3>2, <3>3
      <4> QED
        BY <1>2, <2>1, <2>2, <4>1 DEF VehicleRun
    <3>4. CASE ~(lo > a)
      <4>1. veh' = a + 1 .. next - 1 /\ a + 1 \in 1 .. next
        BY <1>3, <3>2, <3>4
      <4>2. veh' \subseteq veh
        BY <2>1, <3>2
      <4> QED
        BY <1>2, <2>2, <4>1, <4>2 DEF VehicleRun
    <3> QED
      BY <3>3, <3>4
  <2> QED
    BY <1>1, <2>3, <2>4
<1>7. TypeOK'
  <2>1. seenDriving' \in BOOLEAN
    BY <1>1, <1>4 DEF Report
  <2>2. seenAck' \in Nat /\ footAck' \in Nat
    BY <1>1, <1>3
  <2>3. foot' \in SUBSET (1 .. next' - 1)
    BY <1>1, <1>2 DEF PipelineInv, TypeOK
  <2> QED
    BY <1>2, <1>5, <1>6, <2>1, <2>2, <2>3 DEF PipelineInv, TypeOK
<1>8. AcksOK'
  <2>1. \A j \in 1 .. Len(down') : j + i \in 1 .. Len(down) /\ i < j + i
    BY <1>4, <1>5
  <2>2. \A j \in 1 .. Len(down') : a <= down'[j].ack /\ down'[j].ack <= rt.ack
    BY <1>5, <2>1 DEF PipelineInv, AcksOK
  <2>3. \A j, k \in 1 .. Len(down') : j < k => down'[j].ack <= down'[k].ack
    <3> SUFFICES ASSUME NEW j \in 1 .. Len(down'), NEW k \in 1 .. Len(down'), j < k
                 PROVE  down'[j].ack <= down'[k].ack
      OBVIOUS
    <3>1. j + i < k + i
      BY <1>4, <1>5
    <3> QED
      BY <1>5, <2>1, <3>1 DEF PipelineInv, AcksOK
  <2>4. footAck' <= seenAck'
    BY <1>1, <1>3
  <2> QED
    BY <1>1, <1>2, <1>3, <2>2, <2>3, <2>4 DEF AcksOK
<1>9. WindowOK'
  <2>1. next' - 1 - seenAck' < Half
    BY <1>1, <1>2, <1>3
  <2> QED
    BY <1>2, <1>6, <2>1 DEF PipelineInv, WindowOK
<1> QED
  BY <1>2, <1>7, <1>8, <1>9 DEF PipelineInv, MessagesOK

-----------------------------------------------------------------------------
\* The invariant holds

LEMMA RequestsAreMessages ==
  << >> \in Seq({Enter, Exit}) /\ << Enter >> \in Seq({Enter, Exit})
  /\ << Exit >> \in Seq({Enter, Exit})
  OBVIOUS

LEMMA NextInv == PipelineInv /\ [Next]_vars => PipelineInv'
<1> SUFFICES ASSUME PipelineInv, [Next]_vars PROVE PipelineInv'
  OBVIOUS
<1>0. 0 \in 0 .. CatchupSteps /\ 1 .. CatchupSteps \subseteq 0 .. CatchupSteps
  BY PipelineAssumption
<1>1. CASE FootFrame
  BY <1>0, <1>1, FootUpdateInv, RequestsAreMessages DEF FootFrame
<1>2. CASE VehicleFrame
  BY <1>2, VehicleUpdateInv, RequestsAreMessages DEF VehicleFrame
<1>3. CASE EnterFrame
  BY <1>3, VehicleUpdateInv, RequestsAreMessages DEF EnterFrame
<1>4. CASE ExitFrame
  BY <1>4, FootUpdateInv, RequestsAreMessages DEF ExitFrame
<1>5. CASE Receive
  BY <1>5, ReceiveInv
<1>6. CASE LoseMessage
  BY <1>6, LoseMessageInv
<1>7. CASE ServerTick
  BY <1>7, ServerTickInv
<1>8. CASE ReceiveSnapshot
  BY <1>8, ReceiveSnapshotInv
<1>9. CASE LoseSnapshot
  BY <1>9, LoseSnapshotInv
<1>10. CASE UNCHANGED vars
  BY <1>10 DEF vars, PipelineInv, TypeOK, VehicleRun, MessagesOK, AcksOK, WindowOK
<1> QED
  BY <1>1, <1>2, <1>3, <1>4, <1>5, <1>6, <1>7, <1>8, <1>9, <1>10 DEF Next

\* The inductive invariant holds in every reachable state.
THEOREM Invariance == Spec => []PipelineInv
  BY InitInv, NextInv, PTL DEF Spec

-----------------------------------------------------------------------------
\* The three kinds of step, as the properties see them

\* The client makes k inputs; on foot they join the replay buffer.
Makes(k) ==
  /\ next' = next + k /\ (k > 0 => Recent(next + k - 1))
  /\ \/ foot' = foot
     \/ foot' = foot \cup Generated(k) /\ (k > 0 => MayPredict)
  /\ UNCHANGED <<seenAck, footAck, rt>>

\* The server receives, applies or discards inputs, or nothing happens here.
Decides ==
  /\ UNCHANGED <<next, foot, seenAck, footAck>>
  /\ rt'.ack >= rt.ack /\ rt'.lastRecv >= rt.lastRecv

\* The client applies a snapshot that acknowledges a.
Learns(a) ==
  /\ seenAck' = a /\ UNCHANGED <<next, rt>>
  /\ \/ UNCHANGED <<foot, footAck>>
     \/ foot' = Unacked(foot, a) /\ footAck' = a

\* What the invariant says about the numbers the properties compare.
LEMMA NumbersOK ==
  ASSUME PipelineInv
  PROVE  /\ next \in Nat \ {0} /\ Half \in Nat /\ seenAck \in Nat
         /\ footAck \in Nat /\ rt.ack \in Nat
         /\ rt.lastRecv \in Nat \cup {NoInput}
         /\ foot \in SUBSET (1 .. next - 1)
         /\ footAck <= seenAck /\ seenAck <= rt.ack /\ rt.ack < next
         /\ next - 1 - seenAck < Half
  BY AckMade, PipelineAssumption DEF PipelineInv, TypeOK, AcksOK, WindowOK, Runtime

LEMMA StepKinds ==
  ASSUME PipelineInv, [Next]_vars
  PROVE  \/ \E k \in 0 .. CatchupSteps : Makes(k)
         \/ Decides
         \/ \E a \in Nat : seenAck <= a /\ a <= rt.ack /\ Learns(a)
<1>0. 0 \in 0 .. CatchupSteps /\ 1 .. CatchupSteps \subseteq 0 .. CatchupSteps
  BY PipelineAssumption
<1>1. ASSUME NEW k \in 0 .. CatchupSteps, NEW r, FootUpdate(k, r),
             UNCHANGED <<seenDriving, seenAck, footAck, down, rt, odd>>
      PROVE  Makes(k)
  BY <1>1 DEF FootUpdate, Makes
<1>2. ASSUME NEW k \in 0 .. CatchupSteps, NEW b, NEW r, VehicleUpdate(k, b, r),
             UNCHANGED <<seenDriving, seenAck, footAck, down, rt, odd>>
      PROVE  Makes(k)
  BY <1>2 DEF VehicleUpdate, Makes
<1>3. rt \in Runtime /\ ServerOK(rt) /\ up \in Seq(Message) /\ down \in Seq(Report)
  BY DEF PipelineInv, TypeOK
<1>4. CASE Receive
  <2>1. PICK i \in 1 .. Len(up) : ReceiveInputs(i) \/ ReceiveEnter(i) \/ ReceiveExit(i)
    BY <1>3, <1>4, ArrivalInRange DEF Receive
  <2>2. rt'.ack >= rt.ack /\ rt'.lastRecv >= rt.lastRecv
    <3>1. CASE ReceiveInputs(i)
      BY <1>3, <3>1, ReceiveInputsOK DEF Runtime
    <3>2. CASE rt' = rt
      BY <1>3, <3>2 DEF Runtime, NoInput
    <3>3. CASE rt' = Entered(rt)
      BY <1>3, <3>3, EnteredOK DEF Preserves, Runtime, NoInput
    <3>4. CASE rt' = Left(rt)
      BY <1>3, <3>4, LeftOK DEF Preserves, Runtime, NoInput
    <3> QED
      BY <2>1, <3>1, <3>2, <3>3, <3>4 DEF ReceiveEnter, ReceiveExit
  <2> QED
    BY <1>4, <2>2 DEF Receive, clientVars, Decides
<1>5. CASE ServerTick
  <2> DEFINE s == Taken(RespawnStep(rt))
  <2>1. Preserves(rt, RespawnStep(rt))
    BY <1>3, RespawnStepOK
  <2>2. Preserves(rt, s)
    BY <1>3, <2>1, TakenOK, PreservesTrans DEF Preserves
  <2>3. Preserves(rt, Killed(s))
    BY <1>3, <2>2, KilledOK, PreservesTrans DEF Preserves
  <2>4. Preserves(rt, rt')
    BY <1>5, <2>2, <2>3 DEF ServerTick
  <2> QED
    BY <1>3, <1>5, <2>4 DEF ServerTick, clientVars, Decides, Preserves, Runtime, NoInput
<1>6. CASE ReceiveSnapshot
  <2>1. PICK i \in MayArrive(down) :
          /\ seenAck' = down[i].ack /\ UNCHANGED <<next, rt>>
          /\ IF inVehicle THEN UNCHANGED <<foot, footAck>>
             ELSE foot' = Unacked(foot, down[i].ack) /\ footAck' = down[i].ack
    BY <1>6 DEF ReceiveSnapshot
  <2>2. i \in 1 .. Len(down)
    BY <1>3, ArrivalInRange
  <2>3. /\ down[i].ack \in Nat
        /\ seenAck <= down[i].ack /\ down[i].ack <= rt.ack
    BY <2>2, SnapshotAcks DEF PipelineInv, AcksOK
  <2>4. Learns(down[i].ack)
    BY <2>1 DEF Learns
  <2> QED
    BY <2>3, <2>4
<1>7. CASE LoseMessage \/ LoseSnapshot \/ UNCHANGED vars
  <2>1. UNCHANGED <<next, foot, seenAck, footAck, rt>>
    BY <1>7 DEF LoseMessage, LoseSnapshot, clientVars, vars
  <2> QED
    BY <1>3, <2>1 DEF Decides, Runtime, NoInput
<1>8. CASE FootFrame \/ VehicleFrame \/ EnterFrame \/ ExitFrame
  BY <1>0, <1>1, <1>2, <1>8 DEF FootFrame, VehicleFrame, EnterFrame, ExitFrame
<1> QED
  BY <1>4, <1>5, <1>6, <1>7, <1>8 DEF Next

-----------------------------------------------------------------------------
\* The theorems

\* Every variable keeps its type, and the vehicle buffer stays a run of
\* consecutive inputs that ends with the newest one.
THEOREM TypeCorrect == Spec => []TypeOK
  BY Invariance, PTL DEF PipelineInv

\* The server applies each input at most once and in order (enqueue_inputs,
\* the two take_input functions, death, respawn and vehicle entry).
THEOREM OrderKept == Spec => []ServerOrder
<1>1. PipelineInv => ServerOrder
  <2> SUFFICES ASSUME PipelineInv PROVE ServerOrder
    OBVIOUS
  <2>1. DOMAIN rt.queue = 1 .. Len(rt.queue)
    BY DEF PipelineInv, TypeOK, Runtime
  <2> QED
    BY <2>1 DEF PipelineInv, ServerOK, Rising, WindowOK, ServerOrder
<1> QED
  BY <1>1, Invariance, PTL

\* No step takes back an acknowledgement, on either side.
THEOREM AcksNeverRetreat == Spec => AckMonotone
<1>1. PipelineInv /\ [Next]_vars =>
        [rt'.ack >= rt.ack /\ rt'.lastRecv >= rt.lastRecv
           /\ seenAck' >= seenAck]_vars
  <2> SUFFICES ASSUME PipelineInv, [Next]_vars
               PROVE  rt'.ack >= rt.ack /\ rt'.lastRecv >= rt.lastRecv
                        /\ seenAck' >= seenAck
    OBVIOUS
  <2> QED
    BY NumbersOK, StepKinds DEF Makes, Decides, Learns, NoInput
<1> QED
  BY <1>1, Invariance, PTL DEF Spec, AckMonotone

\* The on-foot prediction forgets an input only once it has been told that
\* the server is done with it (reconcile prunes by the acknowledgement).
THEOREM NothingIsForgotten == Spec => NothingForgotten
<1>1. PipelineInv /\ [Next]_vars =>
        [\A i \in foot \ foot' : i <= seenAck' /\ seenAck' <= rt'.ack]_vars
  <2> SUFFICES ASSUME PipelineInv, [Next]_vars, NEW i \in foot, i \notin foot'
               PROVE  i <= seenAck' /\ seenAck' <= rt'.ack
    OBVIOUS
  <2>1. PICK a \in Nat : seenAck <= a /\ a <= rt.ack /\ Learns(a)
    BY StepKinds DEF Makes, Decides
  <2>2. ~SeqIsNewer(i, a)
    BY <2>1 DEF Learns, Unacked
  <2>3. i \in Int /\ i - a < Half
    BY <2>1, NumbersOK
  <2>4. i <= a
    BY <2>2, <2>3, AheadIsNewer
  <2> QED
    BY <2>1, <2>4 DEF Learns
<1> QED
  BY <1>1, Invariance, PTL DEF Spec, NothingForgotten

\* The on-foot replay buffer never outgrows the pause by more than one
\* frame's catch-up steps.
THEOREM FootIsBounded == Spec => []FootBounded
<1>1. Init => FootBounded
  BY FS_EmptySet, PipelineAssumption DEF Init, FootBounded
<1>2. PipelineInv /\ FootBounded /\ [Next]_vars => FootBounded'
  <2> SUFFICES ASSUME PipelineInv, FootBounded, [Next]_vars PROVE FootBounded'
    OBVIOUS
  <2>1. IsFiniteSet(foot) /\ Cardinality(foot) \in Nat
    <3>1. IsFiniteSet(1 .. next - 1)
      BY NumbersOK, FS_Interval
    <3> QED
      BY <3>1, NumbersOK, FS_Subset, FS_CardinalityType
  <2>2. CASE foot' \subseteq foot
    BY <2>1, <2>2, FS_Subset, FS_CardinalityType, PipelineAssumption DEF FootBounded
  <2>3. ASSUME NEW k \in 1 .. CatchupSteps, MayPredict,
               foot' = foot \cup Generated(k)
        PROVE  FootBounded'
    <3>1. k \in Nat /\ next \in Int /\ next + k - 1 \in Int /\ next <= next + k - 1
      BY NumbersOK, PipelineAssumption
    <3>2. /\ IsFiniteSet(Generated(k))
          /\ Cardinality(Generated(k)) = k
      BY <3>1, FS_Interval DEF Generated
    <3>3. /\ Cardinality(foot') =
               Cardinality(foot) + Cardinality(Generated(k))
                 - Cardinality(foot \cap Generated(k))
          /\ Cardinality(foot \cap Generated(k)) \in Nat
      BY <2>1, <2>3, <3>2, FS_Union, FS_Intersection, FS_CardinalityType
    <3> QED
      BY <2>1, <2>3, <3>2, <3>3, PipelineAssumption DEF MayPredict, FootBounded
  <2>4. ASSUME NEW k \in 0 .. CatchupSteps, Makes(k) PROVE FootBounded'
    <3>1. CASE foot' = foot
      BY <2>2, <3>1
    <3>2. CASE k = 0 /\ foot' = foot \cup Generated(k)
      <4>1. Generated(k) = {}
        BY <3>2, NumbersOK DEF Generated
      <4> QED
        BY <2>2, <3>2, <4>1
    <3>3. CASE k > 0 /\ MayPredict /\ foot' = foot \cup Generated(k)
      <4>1. k \in 1 .. CatchupSteps
        BY <3>3, PipelineAssumption
      <4> QED
        BY <2>3, <3>3, <4>1
    <3>4. k = 0 \/ k > 0
      BY PipelineAssumption
    <3> QED
      BY <2>4, <3>1, <3>2, <3>3, <3>4 DEF Makes
  <2>5. CASE Decides
    BY <2>2, <2>5 DEF Decides
  <2>6. ASSUME NEW a \in Nat, Learns(a) PROVE FootBounded'
    BY <2>2, <2>6 DEF Learns, Unacked
  <2> QED
    BY <2>4, <2>5, <2>6, StepKinds
<1> QED
  BY <1>1, <1>2, Invariance, PTL DEF Spec

-----------------------------------------------------------------------------
\* What also needs drives to be shorter than half the sequence space

FootInv == \A j \in foot : j > footAck /\ next - 1 - j < Half

\* Inside the window, pruning leaves exactly what is not acknowledged.
LEMMA UnackedIsExact ==
  ASSUME PipelineInv, FootInv, NEW a \in Nat, seenAck <= a, a <= rt.ack
  PROVE  Unacked(foot, a) = {j \in foot : j > a}
<1>1. ASSUME NEW j \in foot  PROVE SeqIsNewer(j, a) <=> j > a
  <2>1. j \in Int /\ j - a < Half /\ a - j < Half
    BY NumbersOK DEF FootInv
  <2> QED
    BY <2>1, NewerIsGreater
<1> QED
  BY <1>1 DEF Unacked

LEMMA FootInvariance == ASSUME ~LongDrives PROVE Spec => []FootInv
<1>1. Init => FootInv
  BY DEF Init, FootInv
<1>2. PipelineInv /\ FootInv /\ [Next]_vars => FootInv'
  <2> SUFFICES ASSUME PipelineInv, FootInv, [Next]_vars PROVE FootInv'
    OBVIOUS
  <2>1. ASSUME NEW k \in 0 .. CatchupSteps, Makes(k) PROVE FootInv'
    <3> SUFFICES ASSUME NEW j \in foot'
                 PROVE  j > footAck' /\ next' - 1 - j < Half
      BY DEF FootInv
    <3>1. k \in Nat /\ k <= Half /\ next' = next + k /\ footAck' = footAck
      BY <2>1, PipelineAssumption DEF Makes
    <3>2. CASE j \in foot
      <4>1. j \in Int /\ j > footAck /\ next - 1 - j < Half
        BY <3>2, NumbersOK DEF FootInv
      <4>2. CASE k = 0
        BY <3>1, <4>1, <4>2, NumbersOK
      <4>3. CASE k > 0
        <5>1. Recent(next + k - 1)
          BY <2>1, <4>3 DEF Makes
        <5> DEFINE top == next + k - 1
        <5> HIDE DEF top
        <5>2. Recent(top)
          BY <5>1 DEF top
        <5>3. \A c \in foot : top - c < Half
          BY <5>2, Zenon DEF Recent
        <5>4. top - j < Half
          BY <3>2, <5>3
        <5> QED
          BY <3>1, <4>1, <5>4, NumbersOK DEF top
      <4> QED
        BY <3>1, <4>2, <4>3
    <3>3. CASE j \in Generated(k)
      BY <3>1, <3>3, NumbersOK DEF Generated
    <3> QED
      BY <2>1, <3>2, <3>3 DEF Makes
  <2>2. CASE Decides
    BY <2>2 DEF Decides, FootInv
  <2>3. ASSUME NEW a \in Nat, seenAck <= a, a <= rt.ack, Learns(a) PROVE FootInv'
    <3>1. CASE UNCHANGED <<foot, footAck>>
      BY <2>3, <3>1 DEF Learns, FootInv
    <3>2. CASE foot' = Unacked(foot, a) /\ footAck' = a
      BY <2>3, <3>2, UnackedIsExact DEF Learns, FootInv
    <3> QED
      BY <2>3, <3>1, <3>2 DEF Learns
  <2> QED
    BY <2>1, <2>2, <2>3, StepKinds
<1> QED
  BY <1>1, <1>2, Invariance, PTL DEF Spec

\* As long as no drive outlasts half the sequence space, the on-foot
\* prediction never replays an input its snapshot had already counted.
THEOREM ReplayIsFresh == ASSUME ~LongDrives PROVE Spec => []NoStaleReplay
<1>1. FootInv => NoStaleReplay
  BY DEF FootInv, NoStaleReplay
<1> QED
  BY <1>1, FootInvariance, PTL

\* Then the pipeline implements the abstract input stream: whatever the
\* transport loses or reorders, and through deaths, respawns and vehicles,
\* each step is a Make, a Decide, a Learn, or changes nothing it shows.
THEOREM PipelineImplementsStream ==
  ASSUME ~LongDrives PROVE Spec => ImplementsStream
<1>1. Init => Stream!StreamInit
  BY DEF Init, NewRuntime, Stream!StreamInit
<1>2. PipelineInv /\ PipelineInv' /\ FootInv /\ [Next]_vars
        => [Stream!StreamNext]_(Stream!streamVars)
  <2> SUFFICES ASSUME PipelineInv, PipelineInv', FootInv, [Next]_vars
               PROVE  Stream!StreamNext \/ UNCHANGED Stream!streamVars
    OBVIOUS
  <2>0. /\ next' \in Nat \ {0} /\ rt'.ack \in Nat /\ rt'.ack < next'
    <3>1. next' \in Nat \ {0} /\ rt' \in Runtime
      BY DEF PipelineInv, TypeOK
    <3>2. ServerOK(rt') /\ rt'.lastRecv < next'
      BY DEF PipelineInv, WindowOK
    <3> QED
      BY <3>1, <3>2 DEF ServerOK, Runtime, NoInput
  <2>1. ASSUME NEW k \in 0 .. CatchupSteps, Makes(k)
        PROVE  Stream!StreamNext \/ UNCHANGED Stream!streamVars
    <3>1. k \in Nat /\ next' = next + k /\ UNCHANGED <<rt, seenAck>>
      BY <2>1, PipelineAssumption DEF Makes
    <3>2. CASE k = 0
      <4>1. Generated(k) = {} /\ next' = next
        BY <3>1, <3>2, NumbersOK DEF Generated
      <4>2. foot' = foot
        BY <2>1, <4>1 DEF Makes
      <4> QED
        BY <3>1, <4>1, <4>2 DEF Stream!streamVars
    <3>3. CASE k > 0
      <4>1. next' - 1 \in Nat /\ next' - 1 > next - 1
        BY <3>1, <3>3, NumbersOK
      <4>2. Generated(k) = (next - 1) + 1 .. next' - 1
        BY <3>1, NumbersOK DEF Generated
      <4>3. foot' \in {foot, foot \cup ((next - 1) + 1 .. next' - 1)}
        BY <2>1, <4>2 DEF Makes
      <4>4. Stream!Make
        BY <3>1, <4>1, <4>3 DEF Stream!Make
      <4> QED
        BY <4>4 DEF Stream!StreamNext
    <3> QED
      BY <3>1, <3>2, <3>3
  <2>2. CASE Decides
    <3>1. CASE rt'.ack = rt.ack
      BY <2>2, <3>1 DEF Decides, Stream!streamVars
    <3>2. CASE rt'.ack # rt.ack
      <4>1. rt'.ack \in Nat /\ rt.ack < rt'.ack /\ rt'.ack <= next - 1
        BY <2>0, <2>2, <3>2, NumbersOK DEF Decides
      <4>2. Stream!Decide
        BY <2>2, <4>1 DEF Decides, Stream!Decide
      <4> QED
        BY <4>2 DEF Stream!StreamNext
    <3> QED
      BY <3>1, <3>2
  <2>3. ASSUME NEW a \in Nat, seenAck <= a, a <= rt.ack, Learns(a)
        PROVE  Stream!StreamNext
    <3>1. foot' \in {foot, {j \in foot : j > a}}
      BY <2>3, UnackedIsExact DEF Learns
    <3>2. seenAck' = a /\ UNCHANGED <<next, rt>>
      BY <2>3 DEF Learns
    <3>3. Stream!Learn
      BY <2>3, <3>1, <3>2 DEF Stream!Learn
    <3> QED
      BY <3>3 DEF Stream!StreamNext
  <2> QED
    BY <2>1, <2>2, <2>3, StepKinds
<1> QED
  BY <1>1, <1>2, Invariance, FootInvariance, PTL
     DEF Spec, ImplementsStream, Stream!StreamSpec
=============================================================================
