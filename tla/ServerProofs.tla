---------------------------- MODULE ServerProofs ----------------------------
(***************************************************************************)
(* Proofs about a server: that what it believes of a client is what the    *)
(* client will show, for every set of batteries and every queue            *)
(* (BatterySync); that a match that runs is the one in the map, however    *)
(* sessions look, miss and create and however late a match is cleaned up   *)
(* (MatchRegistry); and both beside the player handles (MCPlayerHandles).  *)
(***************************************************************************)
EXTENDS MCPlayerHandles, PlayerHandlesProofs

\* What the client shows when it has taken the packets before the i-th.
Before(i) == IF i = 1 THEN displayed ELSE outbox[i - 1].then
BeforeEnergy(i) == IF i = 1 THEN shownEnergy ELSE outbox[i - 1].thenEnergy

\* Each packet does what its history says, and the last leaves what is told.
Chained ==
  /\ \A i \in 1 .. Len(outbox) :
       /\ Applied(Before(i), outbox[i]) = outbox[i].then
       /\ AppliedEnergy(BeforeEnergy(i), outbox[i]) = outbox[i].thenEnergy
  /\ told = Before(Len(outbox) + 1) /\ toldEnergy = BeforeEnergy(Len(outbox) + 1)

Believed ==
  /\ ~pending => told = visible
  /\ lastEnergy # Never => toldEnergy = lastEnergy

SyncInv == SyncTypeOK /\ Chained /\ Believed

-----------------------------------------------------------------------------

\* No energy is an energy.
LEMMA ZeroCharge == 0 \in Charges
BY SyncAssumption DEF SyncAssumption, Charges

\* A packet that does to what is told what its history says is chained to the
\* others.
LEMMA Appended ==
  ASSUME SyncTypeOK, Chained, NEW p \in SyncPacket, Len(outbox) < QueueCap,
         NEW n \in Nat, n = Len(outbox),
         SyncAssumption,
         outbox' = Append(outbox, p), UNCHANGED learntVars,
         Applied(told, p) = p.then, AppliedEnergy(toldEnergy, p) = p.thenEnergy,
         told' = p.then, toldEnergy' = p.thenEnergy
  PROVE  Chained' /\ outbox' \in Seq(SyncPacket) /\ Len(outbox') <= QueueCap
<1>1. outbox \in Seq(SyncPacket) /\ QueueCap \in Nat
  BY DEF SyncTypeOK, SyncAssumption
<1>2. /\ outbox' \in Seq(SyncPacket) /\ Len(outbox') = n + 1 /\ outbox'[n + 1] = p
      /\ \A i \in 1 .. n : outbox'[i] = outbox[i]
  BY <1>1, AppendProperties
<1>3. \A i \in 1 .. n + 1 : Before(i)' = Before(i) /\ BeforeEnergy(i)' = BeforeEnergy(i)
  BY <1>1, <1>2 DEF Before, BeforeEnergy, learntVars
<1>4. ASSUME NEW i \in 1 .. n + 1
      PROVE  /\ Applied(Before(i), outbox'[i]) = outbox'[i].then
             /\ AppliedEnergy(BeforeEnergy(i), outbox'[i]) = outbox'[i].thenEnergy
  <2>1. CASE i \in 1 .. n
    BY <2>1, <1>2 DEF Chained
  <2>2. CASE i = n + 1
    BY <2>2, <1>2 DEF Chained
  <2>3. QED
    BY <2>1, <2>2, <1>1
<1>5. told' = Before(n + 2)' /\ toldEnergy' = BeforeEnergy(n + 2)'
  BY <1>1, <1>2 DEF Before, BeforeEnergy
<1>6. \A i \in 1 .. n + 1 :
        /\ Applied(Before(i), outbox[i])' = outbox'[i].then
        /\ AppliedEnergy(BeforeEnergy(i), outbox[i])' = outbox'[i].thenEnergy
  BY <1>3, <1>4 DEF Applied, AppliedEnergy
<1>7. Chained'
  <2>1. Len(outbox)' = n + 1 /\ Len(outbox)' + 1 = n + 2
    BY <1>1, <1>2
  <2>2. QED
    BY <1>5, <1>6, <2>1 DEF Chained
<1>8. QED
  BY <1>1, <1>2, <1>7

\* The client takes the first packet, and the rest is chained to what it shows.
LEMMA Learnt ==
  ASSUME SyncAssumption, SyncTypeOK, Chained, Learn, NEW n \in Nat, n = Len(outbox)
  PROVE  /\ Chained' /\ outbox' \in Seq(SyncPacket) /\ Len(outbox') <= QueueCap
         /\ displayed' \subseteq Batteries /\ shownEnergy' \in Charges
<1>1. outbox \in Seq(SyncPacket) /\ n \in Nat \ {0} /\ outbox # << >>
      /\ n <= QueueCap /\ QueueCap \in Nat
  <2>1. /\ outbox \in Seq(SyncPacket) /\ outbox # << >>
        /\ n <= QueueCap /\ QueueCap \in Nat
    BY DEF SyncTypeOK, Learn, SyncAssumption
  <2>2. QED
    BY <2>1, EmptySeq, LenProperties
<1>2. /\ outbox' = Tail(outbox) /\ outbox' \in Seq(SyncPacket) /\ Len(outbox') = n - 1
      /\ \A i \in 1 .. n - 1 : outbox'[i] = outbox[i + 1]
  BY <1>1, HeadTailProperties DEF Learn
<1>3. Head(outbox) = outbox[1] /\ outbox[1] \in SyncPacket
  BY <1>1, HeadTailProperties, ElementOfSeq
<1>4. displayed' = outbox[1].then /\ shownEnergy' = outbox[1].thenEnergy
  <2>1. /\ displayed' = Applied(displayed, outbox[1])
        /\ shownEnergy' = AppliedEnergy(shownEnergy, outbox[1])
    BY <1>3 DEF Learn
  <2>2. Before(1) = displayed /\ BeforeEnergy(1) = shownEnergy
    BY DEF Before, BeforeEnergy
  <2>3. QED
    BY <1>1, <2>1, <2>2 DEF Chained
<1>5. \A i \in 1 .. n : /\ Before(i)' = Before(i + 1)
                        /\ BeforeEnergy(i)' = BeforeEnergy(i + 1)
  BY <1>1, <1>2, <1>4 DEF Before, BeforeEnergy
<1>6. ASSUME NEW i \in 1 .. n - 1
      PROVE  /\ Applied(Before(i), outbox[i])' = outbox'[i].then
             /\ AppliedEnergy(BeforeEnergy(i), outbox[i])' = outbox'[i].thenEnergy
  <2>1. /\ Applied(Before(i + 1), outbox[i + 1]) = outbox[i + 1].then
        /\ AppliedEnergy(BeforeEnergy(i + 1), outbox[i + 1]) = outbox[i + 1].thenEnergy
    BY <1>1 DEF Chained
  <2>2. /\ Before(i)' = Before(i + 1) /\ BeforeEnergy(i)' = BeforeEnergy(i + 1)
        /\ outbox'[i] = outbox[i + 1]
    BY <1>1, <1>2, <1>5
  <2>3. QED
    BY <2>1, <2>2 DEF Applied, AppliedEnergy
<1>7. Chained'
  <2>1. Len(outbox)' = n - 1 /\ Len(outbox)' + 1 = n
    BY <1>1, <1>2
  <2>2. told' = told /\ toldEnergy' = toldEnergy
    BY DEF Learn
  <2>3. Before(n)' = Before(n + 1) /\ BeforeEnergy(n)' = BeforeEnergy(n + 1)
    BY <1>1, <1>5
  <2>4. told' = Before(n)' /\ toldEnergy' = BeforeEnergy(n)'
    BY <2>2, <2>3 DEF Chained
  <2>5. QED
    BY <1>6, <2>1, <2>4 DEF Chained
<1>8. displayed' \subseteq Batteries /\ shownEnergy' \in Charges
  BY <1>3, <1>4 DEF SyncPacket
<1>9. Len(outbox') <= QueueCap
  BY <1>1, <1>2
<1>10. QED
  BY <1>2, <1>7, <1>8, <1>9

\* The length of the queue
LEMMA QueueLength ==
  ASSUME SyncTypeOK
  PROVE  Len(outbox) \in Nat
BY LenProperties DEF SyncTypeOK

\* What does not touch the queue or the client leaves the chain as it is.
LEMMA ChainKept ==
  ASSUME Chained, UNCHANGED <<outbox, told, toldEnergy, learntVars>>
  PROVE  Chained'
BY DEF Chained, Before, BeforeEnergy, Applied, AppliedEnergy, learntVars

-----------------------------------------------------------------------------

LEMMA SyncStart ==
  ASSUME SyncAssumption, SyncInit
  PROVE  SyncInv
<1>1. outbox = << >> /\ outbox \in Seq(SyncPacket) /\ Len(outbox) = 0
  BY EmptySeq DEF SyncInit
<1>2. Chained
  BY <1>1 DEF SyncInit, Chained, Before, BeforeEnergy
<1>3. SyncTypeOK
  BY <1>1 DEF SyncInit, SyncTypeOK, SyncAssumption, Charges
<1>4. Believed
  BY DEF SyncInit, Believed
<1>5. QED
  BY <1>2, <1>3, <1>4 DEF SyncInv

LEMMA TellEnergyStep ==
  ASSUME SyncAssumption, SyncInv, TellEnergy
  PROVE  SyncInv'
<1> USE DEF SyncInv
<1>1. EnergyPacket \in SyncPacket
  BY DEF SyncTypeOK, EnergyPacket, SyncPacket
<1>2. /\ Applied(told, EnergyPacket) = told /\ EnergyPacket.then = told
      /\ AppliedEnergy(toldEnergy, EnergyPacket) = charge
      /\ EnergyPacket.thenEnergy = charge
  BY DEF Applied, AppliedEnergy, EnergyPacket
<1>3. /\ Len(outbox) < QueueCap /\ outbox' = Append(outbox, EnergyPacket)
      /\ told' = told /\ toldEnergy' = charge /\ UNCHANGED learntVars
  BY DEF TellEnergy, Believes, HasRoom
<1>4. Chained' /\ outbox' \in Seq(SyncPacket) /\ Len(outbox') <= QueueCap
  BY <1>1, <1>2, <1>3, Appended, QueueLength
<1>5. SyncTypeOK'
  BY <1>3, <1>4 DEF TellEnergy, SyncTypeOK, learntVars
<1>6. Believed'
  BY <1>3 DEF TellEnergy, Believed
<1>7. QED
  BY <1>4, <1>5, <1>6

\* A packet of batteries makes of what was told, where that is what the server
\* believes, what is around.
LEMMA BatteryPacketWorks ==
  ASSUME SyncInv
  PROVE  /\ BatteryPacket \in SyncPacket
         /\ Applied(told, BatteryPacket) = around /\ BatteryPacket.then = around
         /\ AppliedEnergy(toldEnergy, BatteryPacket) = toldEnergy
         /\ BatteryPacket.thenEnergy = toldEnergy
<1> USE DEF SyncInv
<1>1. BatteryPacket \in SyncPacket
  <2>1. CASE pending
    BY <2>1, ZeroCharge DEF SyncTypeOK, BatteryPacket, SyncPacket
  <2>2. CASE ~pending
    BY <2>2, ZeroCharge DEF SyncTypeOK, BatteryPacket, SyncPacket
  <2>3. QED
    BY <2>1, <2>2
<1>2. Applied(told, BatteryPacket) = around
  <2>1. CASE pending
    BY <2>1 DEF BatteryPacket, Applied
  <2>2. CASE ~pending
    BY <2>2 DEF BatteryPacket, Applied, Believed
  <2>3. QED
    BY <2>1, <2>2
<1>3. /\ BatteryPacket.then = around /\ BatteryPacket.thenEnergy = toldEnergy
      /\ AppliedEnergy(toldEnergy, BatteryPacket) = toldEnergy
  BY DEF BatteryPacket, AppliedEnergy
<1>4. QED
  BY <1>1, <1>2, <1>3

LEMMA TellBatteriesStep ==
  ASSUME SyncAssumption, SyncInv, TellBatteries
  PROVE  SyncInv'
<1> USE DEF SyncInv
<1>1. /\ Len(outbox) < QueueCap /\ outbox' = Append(outbox, BatteryPacket)
      /\ told' = around /\ toldEnergy' = toldEnergy /\ UNCHANGED learntVars
  BY BatteryPacketWorks DEF TellBatteries, Believes, HasRoom
<1>2. Chained' /\ outbox' \in Seq(SyncPacket) /\ Len(outbox') <= QueueCap
  BY <1>1, BatteryPacketWorks, Appended, QueueLength
<1>3. SyncTypeOK'
  BY <1>1, <1>2 DEF TellBatteries, SyncTypeOK, learntVars
<1>4. Believed'
  BY <1>1 DEF TellBatteries, Believed
<1>5. QED
  BY <1>2, <1>3, <1>4

LEMMA TellOtherStep ==
  ASSUME SyncAssumption, SyncInv, TellOther
  PROVE  SyncInv'
<1> USE DEF SyncInv
<1> DEFINE p == [kind |-> "other", value |-> 0, add |-> {}, remove |-> {},
                 then |-> told, thenEnergy |-> toldEnergy]
<1>1. p \in SyncPacket
  BY ZeroCharge DEF SyncTypeOK, SyncPacket
<1>2. /\ Applied(told, p) = told /\ p.then = told
      /\ AppliedEnergy(toldEnergy, p) = toldEnergy /\ p.thenEnergy = toldEnergy
  BY DEF Applied, AppliedEnergy
<1>3. /\ Len(outbox) < QueueCap /\ outbox' = Append(outbox, p)
      /\ told' = told /\ toldEnergy' = toldEnergy /\ UNCHANGED learntVars
  BY DEF TellOther, HasRoom
<1> HIDE DEF p
<1>4. Chained' /\ outbox' \in Seq(SyncPacket) /\ Len(outbox') <= QueueCap
  BY <1>1, <1>2, <1>3, Appended, QueueLength
<1>5. SyncTypeOK'
  BY <1>3, <1>4 DEF TellOther, SyncTypeOK, learntVars
<1>6. Believed'
  BY <1>3 DEF TellOther, Believed
<1>7. QED
  BY <1>4, <1>5, <1>6

LEMMA LearnStep ==
  ASSUME SyncAssumption, SyncInv, Learn
  PROVE  SyncInv'
<1>1. SyncTypeOK'
  BY Learnt, QueueLength DEF SyncInv, SyncTypeOK, Learn
<1>2. Believed'
  BY DEF SyncInv, Learn, Believed
<1>3. QED
  BY <1>1, <1>2, Learnt, QueueLength DEF SyncInv

LEMMA ReconnectStep ==
  ASSUME SyncAssumption, SyncInv, Reconnect
  PROVE  SyncInv'
<1>1. outbox' = << >> /\ outbox' \in Seq(SyncPacket) /\ Len(outbox') = 0
  BY EmptySeq DEF Reconnect
<1>2. Chained'
  BY <1>1 DEF Reconnect, Chained, Before, BeforeEnergy
<1>3. SyncTypeOK'
  BY <1>1 DEF SyncInv, Reconnect, SyncTypeOK, SyncAssumption, Charges
<1>4. Believed'
  BY DEF Reconnect, Believed
<1>5. QED
  BY <1>2, <1>3, <1>4 DEF SyncInv

\* The world, a death and a return do not touch the queue; the last two forget
\* what was believed of the energy.
LEMMA WorldStep ==
  ASSUME SyncInv, Spend \/ Wander \/ Perish \/ Revive
  PROVE  SyncInv'
<1>1. Chained'
  BY ChainKept DEF SyncInv, Spend, Wander, Perish, Revive, tellVars
<1>2. CASE Spend
  BY <1>1, <1>2 DEF SyncInv, Spend, SyncTypeOK, Believed, tellVars, learntVars
<1>3. CASE Wander
  BY <1>1, <1>3 DEF SyncInv, Wander, SyncTypeOK, Believed, tellVars, learntVars
<1>4. CASE Perish
  BY <1>1, <1>4, ZeroCharge DEF SyncInv, Perish, SyncTypeOK, Believed, learntVars
<1>5. CASE Revive
  BY <1>1, <1>5 DEF SyncInv, Revive, SyncTypeOK, Believed, learntVars
<1>6. QED
  BY <1>2, <1>3, <1>4, <1>5

LEMMA SyncInductive ==
  ASSUME SyncAssumption, SyncInv, [SyncNext]_syncVars
  PROVE  SyncInv'
<1>1. CASE SyncNext
  BY <1>1, TellEnergyStep, TellBatteriesStep, TellOtherStep, LearnStep, ReconnectStep,
     WorldStep DEF SyncNext
<1>2. CASE UNCHANGED syncVars
  <2>1. Chained'
    BY <1>2, ChainKept DEF SyncInv, syncVars, tellVars, learntVars
  <2>2. QED
    BY <1>2, <2>1 DEF SyncInv, SyncTypeOK, Believed, syncVars, tellVars, learntVars
<1>3. QED
  BY <1>1, <1>2

\* The inductive invariant holds.
THEOREM SyncInvariance == SyncSpec => []SyncInv
<1>1. SyncInit => SyncInv
  BY SyncStart, SyncAssumption
<1>2. SyncInv /\ [SyncNext]_syncVars => SyncInv'
  BY SyncInductive, SyncAssumption
<1>3. QED
  BY <1>1, <1>2, PTL DEF SyncSpec

\* Every variable keeps its type, and the queue its limit.
THEOREM SyncTypes == SyncSpec => []SyncTypeOK
<1>1. SyncInv => SyncTypeOK
  BY DEF SyncInv
<1>2. QED
  BY <1>1, SyncInvariance, PTL

\* With nothing under way, what is told is what is shown.
LEMMA SyncFollows == SyncInv => ClientFollows
<1> SUFFICES ASSUME SyncInv PROVE ClientFollows
  OBVIOUS
<1>1. outbox = << >> => told = displayed /\ toldEnergy = shownEnergy
  BY EmptySeq DEF SyncInv, Chained, Before, BeforeEnergy
<1> QED
  BY <1>1 DEF SyncInv, Believed, ClientFollows

\* What the server believes the client to show, the client shows once the
\* packets under way have arrived: full queues, deaths, returns and new
\* connections leave no difference behind.
THEOREM ClientsFollow == SyncSpec => []ClientFollows
  BY SyncFollows, SyncInvariance, PTL

-----------------------------------------------------------------------------
\* Who has a handle has one of a match that was made.
HeldIsMade ==
  /\ \A s \in Sessions : place[s] \in {Holding, Joined, Rejected} => held[s] \in Loops
  /\ \A s \in Sessions : reader[s] = On => held[s] \in Loops

RegistryInv == RegistryTypeOK /\ RunningIsFound /\ HeldIsMade

Event == [kind : {"connect", "packet", "disconnect"}, of : Sessions]

\* The stages of a match, of a session and of a task are different.
StagesDiffer ==
  /\ Unmade = 0 /\ Running = 1 /\ Fallen = 2 /\ Removed = 3 /\ Finished = 4
  /\ Arriving = 0 /\ Missing = 1 /\ Holding = 2 /\ Joined = 3 /\ Rejected = 4
  /\ Off = 0 /\ On = 1 /\ Over = 2

LEMMA Stages == StagesDiffer
BY DEF StagesDiffer, Unmade, Running, Fallen, Removed, Finished, Arriving, Missing,
   Holding, Joined, Rejected, Off, On, Over

-----------------------------------------------------------------------------

\* An event that is posted leaves the channels as they should be.
LEMMA Posted ==
  ASSUME RegistryTypeOK, NEW n \in Loops, NEW s \in Sessions,
         NEW kind \in {"connect", "packet", "disconnect"},
         Post(n, kind, s), UNCHANGED <<loop, members>>
  PROVE  /\ events' \in [Loops -> Seq(Event)]
         /\ \A k \in Loops : IsClosed(k)' => members'[k] = {} /\ events'[k] = << >>
<1>1. events \in [Loops -> Seq(Event)]
  BY DEF RegistryTypeOK, Event
<1>2. \A k \in Loops : IsClosed(k)' = IsClosed(k)
  BY DEF IsClosed
<1>3. CASE IsClosed(n)
  BY <1>1, <1>2, <1>3 DEF Post, RegistryTypeOK
<1>4. CASE ~IsClosed(n)
  <2> DEFINE e == [kind |-> kind, of |-> s]
  <2>1. e \in Event
    BY DEF Event
  <2> HIDE DEF e
  <2>2. events' = [events EXCEPT ![n] = Append(@, e)]
    BY <1>4 DEF Post, e
  <2>3. events[n] \in Seq(Event)
    BY <1>1
  <2>4. Append(events[n], e) \in Seq(Event)
    BY <2>1, <2>3, AppendProperties
  <2>5. events' \in [Loops -> Seq(Event)]
    BY <1>1, <2>2, <2>4
  <2>6. ASSUME NEW k \in Loops, IsClosed(k)'
        PROVE  members'[k] = {} /\ events'[k] = << >>
    <3>1. IsClosed(k) /\ k # n
      BY <1>2, <1>4, <2>6
    <3>2. members[k] = {} /\ events[k] = << >>
      BY <3>1 DEF RegistryTypeOK
    <3>3. events'[k] = events[k]
      BY <1>1, <2>2, <3>1
    <3>4. QED
      BY <3>2, <3>3
  <2>7. QED
    BY <2>5, <2>6
<1>5. QED
  BY <1>3, <1>4

\* Where the map and the tasks of matches stay, what runs is still found.
LEMMA FoundKept ==
  ASSUME RunningIsFound, UNCHANGED <<entry, loop>>
  PROVE  RunningIsFound'
BY DEF RunningIsFound

\* Where the map has nothing that runs, nothing runs.
LEMMA NothingRuns ==
  ASSUME RegistryInv, ~Alive
  PROVE  \A n \in Loops : loop[n] # Running
<1> SUFFICES ASSUME NEW n \in Loops, loop[n] = Running PROVE FALSE
  OBVIOUS
<1>1. entry = n /\ n # 0
  BY RegistryAssumption DEF RegistryInv, RunningIsFound, Loops, RegistryAssumption
<1>2. QED
  BY <1>1 DEF Alive, IsClosed

\* What is queued for anybody is or is not there.
LEMMA QueueForType ==
  ASSUME NEW S, QueueFor(S), unsent \in [Sessions -> BOOLEAN]
  PROVE  unsent' \in [Sessions -> BOOLEAN]
BY DEF QueueFor

-----------------------------------------------------------------------------

LEMMA RegistryStart ==
  ASSUME RegistryAssumption, RegistryInit
  PROVE  RegistryInv
<1> USE Stages DEF StagesDiffer
<1>1. RegistryTypeOK
  <2>1. << >> \in Seq(Event)
    BY EmptySeq
  <2>2. events \in [Loops -> Seq(Event)]
    BY <2>1 DEF RegistryInit
  <2>3. /\ entry \in 0 .. MaxLoops /\ stats \in 0 .. MaxLoops
        /\ loop \in [Loops -> Unmade .. Finished]
        /\ place \in [Sessions -> Arriving .. Rejected]
        /\ held \in [Sessions -> 0 .. MaxLoops]
        /\ reader \in [Sessions -> Off .. Over] /\ writer \in [Sessions -> Off .. Over]
    BY DEF RegistryInit, RegistryAssumption
  <2>4. /\ members \in [Loops -> SUBSET Sessions]
        /\ \A n \in Loops : members[n] = {} /\ events[n] = << >>
        /\ client \in [Sessions -> BOOLEAN] /\ unsent \in [Sessions -> BOOLEAN]
    BY DEF RegistryInit
  <2>5. QED
    BY <2>2, <2>3, <2>4 DEF RegistryTypeOK, Event
<1>2. RunningIsFound
  BY DEF RegistryInit, RunningIsFound
<1>3. HeldIsMade
  BY DEF RegistryInit, HeldIsMade
<1>4. QED
  BY <1>1, <1>2, <1>3 DEF RegistryInv

LEMMA LookStep ==
  ASSUME RegistryAssumption, RegistryInv, NEW s \in Sessions, Look(s)
  PROVE  RegistryInv'
<1> USE Stages DEF StagesDiffer, RegistryInv
<1>1. UNCHANGED <<entry, loop, events, members, stats, client, reader, writer, unsent>>
  BY DEF Look
<1>2. RunningIsFound'
  BY <1>1, FoundKept
<1>3. place \in [Sessions -> Arriving .. Rejected] /\ held \in [Sessions -> 0 .. MaxLoops]
      /\ entry \in 0 .. MaxLoops
  BY DEF RegistryTypeOK
<1>4. CASE Alive
  <2>1. /\ place' = [place EXCEPT ![s] = Holding] /\ held' = [held EXCEPT ![s] = entry]
    BY <1>4 DEF Look
  <2>2. entry \in Loops
    BY <1>3, <1>4, RegistryAssumption DEF Alive, Loops, RegistryAssumption
  <2>3. RegistryTypeOK'
    BY <1>1, <1>3, <2>1 DEF RegistryTypeOK, IsClosed
  <2>4. HeldIsMade'
    BY <1>1, <1>3, <2>1, <2>2 DEF HeldIsMade
  <2>5. QED
    BY <1>2, <2>3, <2>4
<1>5. CASE ~Alive
  <2>1. place' = [place EXCEPT ![s] = Missing] /\ held' = held
    BY <1>5 DEF Look
  <2>2. RegistryTypeOK'
    BY <1>1, <1>3, <2>1 DEF RegistryTypeOK, IsClosed
  <2>3. HeldIsMade'
    BY <1>1, <1>3, <2>1 DEF HeldIsMade
  <2>4. QED
    BY <1>2, <2>2, <2>3
<1>6. QED
  BY <1>4, <1>5

LEMMA CreateStep ==
  ASSUME RegistryAssumption, RegistryInv, NEW s \in Sessions, Create(s)
  PROVE  RegistryInv'
<1> USE Stages DEF StagesDiffer, RegistryInv
<1>1. /\ UNCHANGED <<events, members, stats, client, reader, writer, unsent>>
      /\ place' = [place EXCEPT ![s] = Holding]
  BY DEF Create
<1>2. /\ place \in [Sessions -> Arriving .. Rejected] /\ held \in [Sessions -> 0 .. MaxLoops]
      /\ entry \in 0 .. MaxLoops /\ loop \in [Loops -> Unmade .. Finished]
  BY DEF RegistryTypeOK
<1>3. place' \in [Sessions -> Arriving .. Rejected]
  BY <1>1, <1>2
<1>4. ASSUME NEW n \in Loops, held' = [held EXCEPT ![s] = n]
      PROVE  HeldIsMade' /\ held' \in [Sessions -> 0 .. MaxLoops]
  BY <1>1, <1>2, <1>4, RegistryAssumption DEF HeldIsMade, Loops, RegistryAssumption
<1>5. CASE Found /\ held' = [held EXCEPT ![s] = entry] /\ UNCHANGED <<entry, loop>>
  <2>1. entry \in Loops
    BY <1>2, <1>5, RegistryAssumption DEF Found, Alive, Loops, RegistryAssumption
  <2>2. HeldIsMade' /\ held' \in [Sessions -> 0 .. MaxLoops]
    BY <1>4, <1>5, <2>1
  <2>3. RegistryTypeOK'
    BY <1>1, <1>3, <1>5, <2>2 DEF RegistryTypeOK, IsClosed
  <2>4. QED
    BY <1>5, <2>2, <2>3, FoundKept
<1>6. ASSUME ~Found, NEW n \in Loops, loop[n] = Unmade, entry' = n,
             loop' = [loop EXCEPT ![n] = Running], held' = [held EXCEPT ![s] = n]
      PROVE  RegistryInv'
  <2>1. HeldIsMade' /\ held' \in [Sessions -> 0 .. MaxLoops]
    BY <1>4, <1>6
  <2>2. entry' \in 0 .. MaxLoops /\ loop' \in [Loops -> Unmade .. Finished]
    BY <1>2, <1>6, RegistryAssumption DEF Loops, RegistryAssumption
  <2>3. \A k \in Loops : loop'[k] # Running => members[k] = {} /\ events[k] = << >>
    BY <1>2, <1>6 DEF RegistryTypeOK, IsClosed
  <2>4. RegistryTypeOK'
    BY <1>1, <1>3, <2>1, <2>2, <2>3 DEF RegistryTypeOK, IsClosed
  <2>5. RunningIsFound'
    <3>1. \A k \in Loops : loop[k] # Running
      BY <1>6, NothingRuns DEF Found
    <3>2. QED
      BY <1>2, <1>6, <3>1 DEF RunningIsFound
  <2>6. QED
    BY <2>1, <2>4, <2>5
<1>7. QED
  BY <1>5, <1>6 DEF Create

LEMMA EnlistStep ==
  ASSUME RegistryAssumption, RegistryInv, NEW s \in Sessions, Enlist(s)
  PROVE  RegistryInv'
<1> USE Stages DEF StagesDiffer, RegistryInv
<1>1. /\ UNCHANGED <<entry, loop, members, stats, held, client, unsent>>
      /\ place[s] = Holding
  BY DEF Enlist
<1>2. held[s] \in Loops
  BY <1>1 DEF HeldIsMade
<1>3. /\ place \in [Sessions -> Arriving .. Rejected]
      /\ reader \in [Sessions -> Off .. Over] /\ writer \in [Sessions -> Off .. Over]
  BY DEF RegistryTypeOK
<1>4. CASE IsClosed(held[s])
  <2>1. place' = [place EXCEPT ![s] = Rejected] /\ UNCHANGED <<events, reader, writer>>
    BY <1>4 DEF Enlist
  <2>2. RegistryTypeOK'
    BY <1>1, <1>3, <2>1 DEF RegistryTypeOK, IsClosed
  <2>3. HeldIsMade'
    BY <1>1, <1>2, <1>3, <2>1 DEF HeldIsMade
  <2>4. QED
    BY <1>1, <2>2, <2>3, FoundKept
<1>5. CASE ~IsClosed(held[s])
  <2>1. /\ place' = [place EXCEPT ![s] = Joined] /\ Post(held[s], "connect", s)
        /\ reader' = [reader EXCEPT ![s] = IF reader[s] = Off THEN On ELSE reader[s]]
        /\ writer' = [writer EXCEPT ![s] = On]
    BY <1>5 DEF Enlist
  <2>2. /\ events' \in [Loops -> Seq(Event)]
        /\ \A k \in Loops : IsClosed(k)' => members'[k] = {} /\ events'[k] = << >>
    BY <1>1, <1>2, <2>1, Posted
  <2>3. /\ place' \in [Sessions -> Arriving .. Rejected]
        /\ reader' \in [Sessions -> Off .. Over] /\ writer' \in [Sessions -> Off .. Over]
    BY <1>3, <2>1
  <2>4. RegistryTypeOK'
    BY <1>1, <2>2, <2>3 DEF RegistryTypeOK, Event
  <2>5. HeldIsMade'
    BY <1>1, <1>2, <1>3, <2>1 DEF HeldIsMade
  <2>6. QED
    BY <1>1, <2>4, <2>5, FoundKept
<1>6. QED
  BY <1>4, <1>5

\* What the reader does
LEMMA ReaderStep ==
  ASSUME RegistryAssumption, RegistryInv, NEW s \in Sessions,
         Quit(s) \/ Speak(s) \/ Hangup(s)
  PROVE  RegistryInv'
<1> USE Stages DEF StagesDiffer, RegistryInv
<1>1. UNCHANGED <<entry, loop, members, stats, place, held, writer, unsent>>
  BY DEF Quit, Speak, Hangup
<1>2. RunningIsFound'
  BY <1>1, FoundKept
<1>3. client \in [Sessions -> BOOLEAN] /\ reader \in [Sessions -> Off .. Over]
  BY DEF RegistryTypeOK
<1>4. \A t \in Sessions : reader'[t] = On => reader[t] = On
  BY <1>3 DEF Quit, Speak, Hangup
<1>5. HeldIsMade'
  BY <1>1, <1>4 DEF HeldIsMade
<1>6. ASSUME reader[s] = On, client' = client, reader' \in [Sessions -> Off .. Over],
             NEW kind \in {"connect", "packet", "disconnect"}, Post(held[s], kind, s)
      PROVE  RegistryTypeOK'
  <2>1. held[s] \in Loops
    BY <1>6 DEF HeldIsMade
  <2>2. /\ events' \in [Loops -> Seq(Event)]
        /\ \A k \in Loops : IsClosed(k)' => members'[k] = {} /\ events'[k] = << >>
    BY <1>1, <1>6, <2>1, Posted
  <2>3. QED
    BY <1>1, <1>6, <2>2 DEF RegistryTypeOK, Event
<1>7. CASE Quit(s)
  <2>1. client' \in [Sessions -> BOOLEAN] /\ UNCHANGED <<events, reader>>
    BY <1>3, <1>7 DEF Quit
  <2>2. QED
    BY <1>1, <1>2, <1>5, <2>1 DEF RegistryTypeOK, IsClosed
<1>8. CASE Speak(s)
  <2>1. CASE Post(held[s], "packet", s) /\ reader' = reader
    BY <1>2, <1>3, <1>5, <1>6, <1>8, <2>1 DEF Speak
  <2>2. CASE reader' = [reader EXCEPT ![s] = Over] /\ events' = events
    <3>1. reader' \in [Sessions -> Off .. Over] /\ client' = client
      BY <1>3, <1>8, <2>2 DEF Speak
    <3>2. QED
      BY <1>1, <1>2, <1>5, <2>2, <3>1 DEF RegistryTypeOK, IsClosed
  <2>3. QED
    BY <1>8, <2>1, <2>2 DEF Speak
<1>9. CASE Hangup(s)
  <2>1. /\ reader[s] = On /\ reader' \in [Sessions -> Off .. Over] /\ client' = client
        /\ Post(held[s], "disconnect", s)
    BY <1>3, <1>9 DEF Hangup, Hears
  <2>2. RegistryTypeOK'
    BY <1>6, <2>1
  <2>3. QED
    BY <1>2, <1>5, <2>2
<1>10. QED
  BY <1>7, <1>8, <1>9

\* What the writer does
LEMMA WriterStep ==
  ASSUME RegistryInv, NEW s \in Sessions, Write(s) \/ CloseWriter(s)
  PROVE  RegistryInv'
<1> USE Stages DEF StagesDiffer, RegistryInv
<1>1. UNCHANGED <<entry, loop, events, members, stats, place, held, client, reader>>
  BY DEF Write, CloseWriter
<1>2. unsent \in [Sessions -> BOOLEAN] /\ writer \in [Sessions -> Off .. Over]
  BY DEF RegistryTypeOK
<1>3. unsent' \in [Sessions -> BOOLEAN]
  BY <1>2 DEF Write, CloseWriter
<1>4. writer' \in [Sessions -> Off .. Over]
  BY <1>2 DEF Write, CloseWriter
<1>5. RegistryTypeOK'
  BY <1>1, <1>3, <1>4 DEF RegistryTypeOK, IsClosed
<1>6. HeldIsMade'
  BY <1>1 DEF HeldIsMade
<1>7. QED
  BY <1>1, <1>5, <1>6, FoundKept

LEMMA HandleEventStep ==
  ASSUME RegistryInv, NEW n \in Loops, HandleEvent(n)
  PROVE  RegistryInv'
<1> USE Stages DEF StagesDiffer, RegistryInv
<1>1. /\ UNCHANGED <<entry, loop, stats, place, held, client, reader, writer>>
      /\ loop[n] = Running /\ events[n] # << >>
      /\ events' = [events EXCEPT ![n] = Tail(@)]
  BY DEF HandleEvent
<1>2. /\ events \in [Loops -> Seq(Event)] /\ members \in [Loops -> SUBSET Sessions]
      /\ unsent \in [Sessions -> BOOLEAN]
  BY DEF RegistryTypeOK, Event
<1>3. events' \in [Loops -> Seq(Event)]
  <2>1. events[n] \in Seq(Event)
    BY <1>2
  <2>2. Tail(events[n]) \in Seq(Event)
    BY <1>1, <2>1, HeadTailProperties
  <2>3. QED
    BY <1>1, <1>2, <2>2
<1>4. Head(events[n]).of \in Sessions
  <2>1. events[n] \in Seq(Event)
    BY <1>2
  <2>2. Head(events[n]) \in Event
    BY <1>1, <2>1, HeadTailProperties
  <2>3. QED
    BY <2>2 DEF Event
<1>5. /\ members' \in [Loops -> SUBSET Sessions]
      /\ \A k \in Loops \ {n} : members'[k] = members[k]
  BY <1>2, <1>4 DEF HandleEvent
<1>6. unsent' \in [Sessions -> BOOLEAN]
  BY <1>2, QueueForType DEF HandleEvent
<1>7. \A k \in Loops : IsClosed(k)' => members'[k] = {} /\ events'[k] = << >>
  BY <1>1, <1>2, <1>5 DEF RegistryTypeOK, IsClosed
<1>8. RegistryTypeOK'
  BY <1>1, <1>3, <1>5, <1>6, <1>7 DEF RegistryTypeOK, Event
<1>9. HeldIsMade'
  BY <1>1 DEF HeldIsMade
<1>10. QED
  BY <1>1, <1>8, <1>9, FoundKept

LEMMA SimulateStep ==
  ASSUME RegistryAssumption, RegistryInv, NEW n \in Loops, Simulate(n)
  PROVE  RegistryInv'
<1> USE DEF RegistryInv
<1>1. /\ UNCHANGED <<entry, loop, events, members, place, held, client, reader, writer>>
      /\ QueueFor(members[n]) /\ stats' = n
  BY DEF Simulate
<1>2. unsent' \in [Sessions -> BOOLEAN]
  BY <1>1, QueueForType DEF RegistryTypeOK
<1>3. stats' \in 0 .. MaxLoops
  BY <1>1, RegistryAssumption DEF Loops, RegistryAssumption
<1>4. RegistryTypeOK'
  BY <1>1, <1>2, <1>3 DEF RegistryTypeOK, IsClosed
<1>5. HeldIsMade'
  BY <1>1 DEF HeldIsMade
<1>6. QED
  BY <1>1, <1>4, <1>5, FoundKept

LEMMA PanicStep ==
  ASSUME RegistryInv, NEW n \in Loops, Panic(n)
  PROVE  RegistryInv'
<1> USE Stages DEF StagesDiffer, RegistryInv
<1>1. /\ loop' = [loop EXCEPT ![n] = Fallen] /\ events' = [events EXCEPT ![n] = << >>]
      /\ members' = [members EXCEPT ![n] = {}] /\ UNCHANGED <<entry, stats, sessionVars>>
  BY DEF Panic
<1>2. /\ loop \in [Loops -> Unmade .. Finished] /\ events \in [Loops -> Seq(Event)]
      /\ members \in [Loops -> SUBSET Sessions]
  BY DEF RegistryTypeOK, Event
<1>3. loop' \in [Loops -> Unmade .. Finished] /\ members' \in [Loops -> SUBSET Sessions]
  BY <1>1, <1>2
<1>4. events' \in [Loops -> Seq(Event)]
  BY <1>1, <1>2, EmptySeq
<1>5. \A k \in Loops : IsClosed(k)' => members'[k] = {} /\ events'[k] = << >>
  BY <1>1, <1>2 DEF RegistryTypeOK, IsClosed
<1>6. RegistryTypeOK'
  BY <1>1, <1>3, <1>4, <1>5 DEF RegistryTypeOK, Event, sessionVars
<1>7. RunningIsFound' /\ HeldIsMade'
  BY <1>1, <1>2 DEF RunningIsFound, HeldIsMade, sessionVars
<1>8. QED
  BY <1>6, <1>7

\* The clean-up of a match that is over takes none that runs out of the map.
LEMMA CleanUpStep ==
  ASSUME RegistryAssumption, RegistryInv, NEW n \in Loops, Remove(n) \/ Unregister(n)
  PROVE  RegistryInv'
<1> USE Stages DEF StagesDiffer, RegistryInv
<1>1. /\ UNCHANGED <<events, members, sessionVars>>
      /\ loop[n] \in {Fallen, Removed}
      /\ \E l \in {Removed, Finished} : loop' = [loop EXCEPT ![n] = l]
      /\ entry' = entry \/ (entry = n /\ entry' = 0)
      /\ stats' \in {stats, 0}
  BY DEF Remove, Unregister, Same
<1>2. loop \in [Loops -> Unmade .. Finished] /\ MaxLoops \in Nat
  BY RegistryAssumption DEF RegistryTypeOK, RegistryAssumption
<1>3. /\ loop' \in [Loops -> Unmade .. Finished]
      /\ entry' \in 0 .. MaxLoops /\ stats' \in 0 .. MaxLoops
      /\ \A k \in Loops : loop'[k] = Running => k # n /\ loop[k] = Running
      /\ \A k \in Loops : IsClosed(k)' => IsClosed(k)
  BY <1>1, <1>2 DEF RegistryTypeOK, IsClosed
<1>4. RegistryTypeOK'
  BY <1>1, <1>3 DEF RegistryTypeOK, sessionVars
<1>5. RunningIsFound'
  BY <1>1, <1>3 DEF RunningIsFound
<1>6. HeldIsMade'
  BY <1>1 DEF HeldIsMade, sessionVars
<1>7. QED
  BY <1>4, <1>5, <1>6

LEMMA RegistryInductive ==
  ASSUME RegistryAssumption, RegistryInv, [RegistryNext]_registryVars
  PROVE  RegistryInv'
<1>1. CASE RegistryNext
  BY <1>1, LookStep, CreateStep, EnlistStep, ReaderStep, WriterStep, HandleEventStep,
     SimulateStep, PanicStep, CleanUpStep DEF RegistryNext
<1>2. CASE UNCHANGED registryVars
  BY <1>2 DEF RegistryInv, RegistryTypeOK, RunningIsFound, HeldIsMade, IsClosed,
     registryVars, sessionVars
<1>3. QED
  BY <1>1, <1>2

\* The inductive invariant holds.
THEOREM RegistryInvariance == RegistrySpec => []RegistryInv
<1>1. RegistryInit => RegistryInv
  BY RegistryStart, RegistryAssumption
<1>2. RegistryInv /\ [RegistryNext]_registryVars => RegistryInv'
  BY RegistryInductive, RegistryAssumption
<1>3. QED
  BY <1>1, <1>2, PTL DEF RegistrySpec

\* Every variable keeps its type, and a match that is over has no members.
THEOREM RegistryTypes == RegistrySpec => []RegistryTypeOK
<1>1. RegistryInv => RegistryTypeOK
  BY DEF RegistryInv
<1>2. QED
  BY <1>1, RegistryInvariance, PTL

\* A match that runs is the one in the map, however sessions that look, miss
\* and create interleave with panics and with clean-ups that come late.
THEOREM RunningMatchIsFound == RegistrySpec => []RunningIsFound
<1>1. RegistryInv => RunningIsFound
  BY DEF RegistryInv
<1>2. QED
  BY <1>1, RegistryInvariance, PTL

-----------------------------------------------------------------------------
\* A server: the three parts beside each other

toldVars == <<which, vars, syncVars, registryVars>>

ToldInv == Inv /\ SyncInv /\ RegistryInv

\* One part moves and the others stay.
LEMMA ToldInductive ==
  ASSUME ToldInv, [ToldNext]_toldVars  PROVE ToldInv'
<1>1. [Next]_vars /\ [SyncNext]_syncVars /\ [RegistryNext]_registryVars
  <2>1. CASE HandlesStep
    BY <2>1 DEF HandlesStep
  <2>2. CASE SyncStep
    BY <2>2 DEF SyncStep
  <2>3. CASE RegistryStep
    BY <2>3 DEF RegistryStep
  <2>4. CASE AllOver
    BY <2>4 DEF AllOver
  <2>5. CASE UNCHANGED toldVars
    BY <2>5 DEF toldVars
  <2> QED
    BY <2>1, <2>2, <2>3, <2>4, <2>5 DEF ToldNext
<1>2. Inv'
  BY <1>1, HandlesInductive DEF ToldInv
<1>3. SyncInv' /\ RegistryInv'
  BY <1>1, SyncInductive, SyncAssumption, RegistryInductive, RegistryAssumption DEF ToldInv
<1> QED
  BY <1>2, <1>3 DEF ToldInv

LEMMA ToldInvariance == ToldSpec => []ToldInv
<1>1. ToldInit => ToldInv
  BY InvInit, SyncStart, SyncAssumption, RegistryStart, RegistryAssumption
  DEF ToldInit, ToldInv
<1> QED
  BY <1>1, ToldInductive, PTL DEF ToldSpec, toldVars

\* On a server the three parts keep their types, whichever moves.
THEOREM ToldTypesHold == ToldSpec => []ToldTypes
<1>1. ToldInv => TypeOK
  BY DEF ToldInv, Inv, PeopleOK, PoolInv, PoolOK, PoolTypes, TellTypes, ShownOK, TypeOK, Entry
<1>2. ToldInv => SyncTypeOK /\ RegistryTypeOK
  BY DEF ToldInv, SyncInv, RegistryInv
<1> QED
  BY <1>1, <1>2, ToldInvariance, PTL DEF ToldTypes

\* Whichever part moves: handles are neither lost nor shared, names are true,
\* clients will show what they were told, and a match that runs is found.
THEOREM ServerIsSafe ==
  ToldSpec => [](PoolWhole /\ TrueNames /\ ClientFollows /\ RunningIsFound)
<1>1. ToldInv => PoolWhole
  BY HandlesWhole DEF ToldInv
<1>2. ToldInv => TrueNames /\ RunningIsFound
  BY DEF ToldInv, Inv, ShownOK, RegistryInv
<1>3. ToldInv => ClientFollows
  BY SyncFollows DEF ToldInv
<1> QED
  BY <1>1, <1>2, <1>3, ToldInvariance, PTL
=============================================================================
