---------------------------- MODULE MatchProofs ----------------------------
(***************************************************************************)
(* Proofs about a match: the lives of players (MatchLife), what snapshots  *)
(* show (Interest), and both beside the blocks of the world (MCMatch): for *)
(* every number of players, things and snapshots and every delay.          *)
(***************************************************************************)
EXTENDS MCMatch, VoxelSyncProofs, FunctionTheorems, FiniteSetTheorems

\* The tick under way has not come to p yet.
Pending(p) == stage = Moves /\ p \in todo

\* Who is not in the match has no body and no deadline.
Absent(p) ==
  /\ ~dead[p] /\ ~guard[p] /\ ~driving[p] /\ hp[p] = 0 /\ energy[p] = 0
  /\ respawn[p] = NoTime /\ shield[p] = 0

Body(p) == IF p \in present THEN Whole(p) ELSE Absent(p)

\* The records a shot may see are not of an earlier life, and those since the
\* death are of a dead body.
Fresh(p) == \A i \in 1 .. Len(record[p]) :
  /\ i <= MaxRewind + (IF Pending(p) THEN 0 ELSE 1) => record[p][i] # Earlier
  /\ dead[p] /\ i + respawn[p] <= RespawnTicks - (IF Pending(p) THEN 1 ELSE 0)
       => record[p][i] = Dead

LifeInv ==
  /\ LifeTypeOK /\ HitsThisLife
  /\ \A p \in Fighters : Body(p) /\ Fresh(p)
  /\ \A p \in Fighters \ present : record[p] = << >>
  /\ stage \in {Idle, Attacks} => todo = {}

-----------------------------------------------------------------------------
\* The steps that change a body

\* What happens to one body: it is left alone, loses some hit points or dies.
Fate(p, en) ==
  /\ energy' \in [Fighters -> Nat] /\ hp' \in [Fighters -> 0 .. MaxHp]
  /\ dead' \in [Fighters -> BOOLEAN] /\ guard' \in [Fighters -> BOOLEAN]
  /\ driving' \in [Fighters -> BOOLEAN] /\ shield' \in [Fighters -> 0 .. ShieldTicks]
  /\ respawn' \in [Fighters -> (0 .. RespawnTicks) \cup {NoTime}]
  /\ UNCHANGED <<batteries, nextBattery>>
  /\ \A q \in Fighters \ {p} :
       /\ hp'[q] = hp[q] /\ dead'[q] = dead[q] /\ guard'[q] = guard[q]
       /\ driving'[q] = driving[q] /\ respawn'[q] = respawn[q]
       /\ shield'[q] = shield[q] /\ energy'[q] = en[q]
  /\ \/ /\ ~dead[p] /\ hp'[p] = 0 /\ dead'[p] /\ ~guard'[p] /\ ~driving'[p] /\ energy'[p] = 0
        /\ respawn'[p] = RespawnTicks /\ shield'[p] = 0
     \/ /\ hp'[p] = hp[p] \/ (hp[p] # 0 /\ hp'[p] # 0)
        /\ dead'[p] = dead[p] /\ guard'[p] = guard[p] /\ driving'[p] = driving[p]
        /\ respawn'[p] = respawn[p] /\ shield'[p] = shield[p]
        /\ energy'[p] = en[p]

\* A death that drops no battery is a fate.
LEMMA KillFate ==
  ASSUME LifeAssumption, LifeTypeOK, NEW p \in Fighters, NEW en \in [Fighters -> Nat],
         NEW marked, NEW causes, ~Drops(p, marked, causes),
         ~dead[p], Kill(p, en, marked, causes)
  PROVE  Fate(p, en)
<1>1. UNCHANGED <<batteries, nextBattery>>
  BY DEF Kill
<1>2. /\ hp' = [hp EXCEPT ![p] = 0] /\ energy' = [en EXCEPT ![p] = 0]
      /\ respawn' = [respawn EXCEPT ![p] = RespawnTicks]
      /\ shield' = [shield EXCEPT ![p] = 0]
  BY DEF Kill
<1>3. /\ dead' = [dead EXCEPT ![p] = TRUE] /\ guard' = [guard EXCEPT ![p] = FALSE]
      /\ driving' = [driving EXCEPT ![p] = FALSE]
  BY DEF Kill
<1>4. /\ hp \in [Fighters -> 0 .. MaxHp] /\ shield \in [Fighters -> 0 .. ShieldTicks]
      /\ respawn \in [Fighters -> (0 .. RespawnTicks) \cup {NoTime}]
      /\ dead \in [Fighters -> BOOLEAN] /\ guard \in [Fighters -> BOOLEAN]
      /\ driving \in [Fighters -> BOOLEAN]
  BY DEF LifeTypeOK
<1>5. /\ hp' \in [Fighters -> 0 .. MaxHp] /\ shield' \in [Fighters -> 0 .. ShieldTicks]
      /\ respawn' \in [Fighters -> (0 .. RespawnTicks) \cup {NoTime}]
      /\ energy' \in [Fighters -> Nat]
  BY <1>2, <1>4 DEF LifeAssumption
<1>6. /\ dead' \in [Fighters -> BOOLEAN] /\ guard' \in [Fighters -> BOOLEAN]
      /\ driving' \in [Fighters -> BOOLEAN]
  BY <1>3, <1>4
<1>7. /\ hp'[p] = 0 /\ dead'[p] /\ ~guard'[p] /\ ~driving'[p] /\ energy'[p] = 0
      /\ respawn'[p] = RespawnTicks /\ shield'[p] = 0
  BY <1>2, <1>3, <1>4
<1>8. \A q \in Fighters \ {p} :
        /\ hp'[q] = hp[q] /\ dead'[q] = dead[q] /\ guard'[q] = guard[q]
        /\ driving'[q] = driving[q] /\ respawn'[q] = respawn[q]
        /\ shield'[q] = shield[q] /\ energy'[q] = en[q]
  BY <1>2, <1>3, <1>4
<1> QED
  BY <1>1, <1>5, <1>6, <1>7, <1>8 DEF Fate

\* So is to be spared.
LEMMA SpareFate ==
  ASSUME LifeTypeOK, NEW p \in Fighters, NEW en \in [Fighters -> Nat], Spare(en)
  PROVE  Fate(p, en)
BY DEF Spare, Fate, LifeTypeOK

\* And so is damage.
LEMMA DamageFate ==
  ASSUME LifeAssumption, LifeTypeOK, NEW p \in Fighters, NEW en \in [Fighters -> Nat],
         NEW d \in Nat, Damage(p, d, en)
  PROVE  Fate(p, en)
<1>1. CASE Spare(en)
  BY <1>1, SpareFate
<1>2. CASE /\ ~dead[p] /\ ~guard[p] /\ hp[p] > d
           /\ hp' = [hp EXCEPT ![p] = hp[p] - d] /\ energy' = en
           /\ UNCHANGED <<dead, guard, driving, respawn, shield, batteries,
                          nextBattery>>
  <2>1. hp[p] \in 0 .. MaxHp /\ hp \in [Fighters -> 0 .. MaxHp] /\ MaxHp \in Nat
    BY DEF LifeTypeOK, LifeAssumption
  <2>2. hp[p] - d \in 0 .. MaxHp /\ hp[p] # 0 /\ hp[p] - d # 0
    BY <1>2, <2>1
  <2>3. /\ hp' \in [Fighters -> 0 .. MaxHp] /\ hp'[p] # 0
        /\ \A q \in Fighters \ {p} : hp'[q] = hp[q]
    BY <1>2, <2>1, <2>2
  <2> QED
    BY <1>2, <2>2, <2>3 DEF Fate, LifeTypeOK
<1>3. CASE ~dead[p] /\ hp[p] \in 1 .. d /\ Kill(p, en, TRUE, TRUE)
  BY <1>3, KillFate DEF Drops
<1> QED
  BY <1>1, <1>2, <1>3 DEF Damage

\* A fate leaves every body whole, if nobody pays with the last energy.
LEMMA FateBody ==
  ASSUME LifeAssumption, LifeTypeOK, \A q \in Fighters : Body(q),
         NEW p \in present, NEW en \in [Fighters -> Nat], Fate(p, en), present' = present,
         \A q \in Fighters : en[q] = energy[q] \/ (q \in present /\ ~dead[q] /\ en[q] > 0)
  PROVE  \A q \in Fighters : Body(q)'
<1> SUFFICES ASSUME NEW q \in Fighters
             PROVE  Body(q)'
  OBVIOUS
<1>1. Body(q) /\ p \in Fighters /\ (q = p \/ q \in Fighters \ {p})
  BY DEF LifeTypeOK
<1>2. CASE q = p /\ dead'[p] /\ ~dead[p]
  <2>1. /\ hp'[p] = 0 /\ dead'[p] /\ ~guard'[p] /\ ~driving'[p] /\ energy'[p] = 0
        /\ respawn'[p] = RespawnTicks /\ shield'[p] = 0
    BY <1>1, <1>2 DEF Fate
  <2>2. RespawnTicks # NoTime
    BY DEF LifeAssumption, NoTime
  <2>3. Whole(p)'
    BY <2>1, <2>2 DEF Whole
  <2> QED
    BY <1>2, <2>3 DEF Body
<1>3. CASE ~(q = p /\ dead'[p] /\ ~dead[p])
  <2>1. /\ dead'[q] = dead[q] /\ guard'[q] = guard[q] /\ driving'[q] = driving[q]
        /\ respawn'[q] = respawn[q] /\ shield'[q] = shield[q]
        /\ energy'[q] = en[q] /\ (hp'[q] = 0 <=> hp[q] = 0)
    BY <1>1, <1>3 DEF Fate
  <2>2. energy[q] \in Nat /\ en[q] \in Nat
    BY DEF LifeTypeOK
  <2>3. CASE q \in present
    <3>1. Whole(q)
      BY <1>1, <2>3 DEF Body
    <3>2. energy'[q] = 0 <=> energy[q] = 0
      BY <2>1, <2>2, <2>3, <3>1 DEF Whole
    <3> QED
      BY <2>1, <2>3, <3>1, <3>2 DEF Body, Whole
  <2>4. CASE q \notin present
    <3>1. Absent(q) /\ en[q] = energy[q]
      BY <1>1, <2>4 DEF Body
    <3>2. q # p /\ q \in Fighters \ {p} /\ hp'[q] = hp[q]
      BY <2>4 DEF Fate
    <3> QED
      BY <2>1, <2>4, <3>1, <3>2 DEF Body, Absent
  <2> QED
    BY <2>3, <2>4
<1> QED
  BY <1>2, <1>3

\* What a step that records nothing leaves of the records.
LEMMA StillFresh ==
  ASSUME LifeAssumption, LifeTypeOK, NEW q \in Fighters, Fresh(q),
         record'[q] = record[q], Pending(q)' <=> Pending(q),
         \/ dead'[q] = dead[q] /\ respawn'[q] = respawn[q]
         \/ respawn'[q] = RespawnTicks
  PROVE  Fresh(q)'
<1> SUFFICES ASSUME NEW i \in 1 .. Len(record[q])
             PROVE  /\ i <= MaxRewind + (IF Pending(q)' THEN 0 ELSE 1)
                         => record[q][i] # Earlier
                    /\ dead'[q] /\ i + respawn'[q] <=
                         RespawnTicks - (IF Pending(q)' THEN 1 ELSE 0)
                         => record[q][i] = Dead
  BY DEF Fresh, Earlier, Dead
<1>1. i \in Nat \ {0} /\ RespawnTicks \in Nat /\ respawn[q] \in Int
  <2>1. Len(record[q]) \in Nat
    BY LenProperties DEF LifeTypeOK
  <2>2. RespawnTicks \in Nat
    BY DEF LifeAssumption
  <2>3. respawn[q] \in (0 .. RespawnTicks) \cup {NoTime}
    BY DEF LifeTypeOK
  <2> QED
    BY <2>1, <2>2, <2>3 DEF NoTime
<1>2. CASE respawn'[q] = RespawnTicks
  BY <1>1, <1>2 DEF Fresh
<1>3. CASE dead'[q] = dead[q] /\ respawn'[q] = respawn[q]
  BY <1>3 DEF Fresh
<1> QED
  BY <1>2, <1>3

-----------------------------------------------------------------------------
\* The steps of a tick that may hurt somebody

\* Only the living pay, and they keep something.
Affordable(en) ==
  \A q \in Fighters : en[q] = energy[q] \/ (q \in present /\ ~dead[q] /\ en[q] > 0)

Change ==
  \/ UNCHANGED mortalVars
  \/ \E p \in present : \E en \in [Fighters -> Nat] : Affordable(en) /\ Fate(p, en)

BodyTypes ==
  /\ hp \in [Fighters -> 0 .. MaxHp] /\ dead \in [Fighters -> BOOLEAN]
  /\ guard \in [Fighters -> BOOLEAN] /\ energy \in [Fighters -> Nat]
  /\ driving \in [Fighters -> BOOLEAN]
  /\ respawn \in [Fighters -> (0 .. RespawnTicks) \cup {NoTime}]
  /\ shield \in [Fighters -> 0 .. ShieldTicks]

\* Who lives on, who dies, and who stays dead until the same tick.
Standing(q) ==
  \/ dead'[q] = dead[q] /\ respawn'[q] = respawn[q]
  \/ ~dead[q] /\ dead'[q] /\ respawn'[q] = RespawnTicks

LEMMA ChangeBody ==
  ASSUME LifeAssumption, LifeInv, Change, present' = present
  PROVE  /\ BodyTypes' /\ UNCHANGED <<batteries, nextBattery>>
         /\ \A q \in Fighters : Body(q)' /\ Standing(q)
<1>1. LifeTypeOK /\ \A q \in Fighters : Body(q)
  BY DEF LifeInv
<1>2. CASE UNCHANGED mortalVars
  <2>1. BodyTypes' /\ UNCHANGED <<batteries, nextBattery>>
    BY <1>1, <1>2 DEF BodyTypes, LifeTypeOK, mortalVars, bodyVars
  <2>2. ASSUME NEW q \in Fighters
        PROVE  Body(q)' /\ Standing(q)
    <3>1. Body(q)
      BY <1>1
    <3>2. /\ dead' = dead /\ guard' = guard /\ driving' = driving /\ hp' = hp
          /\ energy' = energy /\ respawn' = respawn /\ shield' = shield
      BY <1>2 DEF mortalVars, bodyVars
    <3> QED
      BY <3>1, <3>2 DEF Body, Whole, Absent, Standing
  <2> QED
    BY <2>1, <2>2
<1>3. ASSUME NEW p \in present, NEW en \in [Fighters -> Nat], Affordable(en), Fate(p, en)
      PROVE  /\ BodyTypes' /\ UNCHANGED <<batteries, nextBattery>>
             /\ \A q \in Fighters : Body(q)' /\ Standing(q)
  <2>1. BodyTypes' /\ UNCHANGED <<batteries, nextBattery>>
    BY <1>3 DEF BodyTypes, Fate
  <2>2. \A q \in Fighters : Body(q)'
    BY <1>1, <1>3, FateBody DEF Affordable
  <2>3. \A q \in Fighters : Standing(q)
    BY <1>3 DEF Fate, Standing
  <2> QED
    BY <2>1, <2>2, <2>3
<1> QED
  BY <1>2, <1>3 DEF Change

\* A change that records nothing and hits no earlier life keeps the invariant.
LEMMA ChangeInv ==
  ASSUME LifeAssumption, LifeInv, Change, UNCHANGED <<arrived, present, record, stage>>,
         stage # Moves, todo' \subseteq todo,
         nextFire' \in [Fighters -> Nat], nextMelee' \in [Fighters -> Nat],
         shots' \in Seq(Fighters), swings' \in Seq(Fighters),
         struck' \in {Dead, Alive}
  PROVE  LifeInv'
<1>1. LifeTypeOK /\ \A q \in Fighters : Fresh(q)
  BY DEF LifeInv
<1>2. /\ BodyTypes' /\ UNCHANGED <<batteries, nextBattery>>
      /\ \A q \in Fighters : Body(q)' /\ Standing(q)
  BY ChangeBody
<1>3. LifeTypeOK'
  BY <1>1, <1>2 DEF LifeTypeOK, BodyTypes, Dead, Alive, Earlier
<1>4. ASSUME NEW q \in Fighters
      PROVE  Fresh(q)'
  BY <1>1, <1>2, StillFresh DEF Standing, Pending
<1>5. \A q \in Fighters \ present' : record'[q] = << >>
  BY DEF LifeInv
<1>6. HitsThisLife'
  BY DEF HitsThisLife, Dead, Alive, Earlier
<1>7. stage' \in {Idle, Attacks} => todo' = {}
  BY DEF LifeInv
<1> QED
  BY <1>2, <1>3, <1>4, <1>5, <1>6, <1>7 DEF LifeInv

\* Nobody in particular is spared.
LEMMA SpareChange ==
  ASSUME LifeTypeOK, NEW p \in present, NEW en \in [Fighters -> Nat], Affordable(en),
         Spare(en)
  PROVE  Change
BY SpareFate DEF Change, LifeTypeOK

\* A death of a living player of the match, without a battery.
LEMMA KillChange ==
  ASSUME LifeAssumption, LifeTypeOK, NEW p \in present, ~dead[p], NEW marked,
         Kill(p, energy, marked, FALSE)
  PROVE  Change
<1>1. p \in Fighters /\ energy \in [Fighters -> Nat] /\ Affordable(energy)
  BY DEF LifeTypeOK, Affordable
<1>2. Fate(p, energy)
  BY <1>1, KillFate DEF Drops
<1> QED
  BY <1>1, <1>2 DEF Change

LEMMA DamageChange ==
  ASSUME LifeAssumption, LifeTypeOK, NEW p \in present, NEW en \in [Fighters -> Nat],
         Affordable(en), NEW d \in Nat, Damage(p, d, en)
  PROVE  Change
BY DamageFate DEF Change, LifeTypeOK

LEMMA AttackTypes ==
  ASSUME LifeInv
  PROVE  /\ nextFire \in [Fighters -> Nat] /\ nextMelee \in [Fighters -> Nat]
         /\ shots \in Seq(Fighters) /\ swings \in Seq(Fighters)
         /\ struck \in {Dead, Alive}
BY DEF LifeInv, LifeTypeOK, HitsThisLife, Dead, Alive, Earlier

LEMMA RunOverInv ==
  ASSUME LifeAssumption, LifeInv, NEW p \in Fighters, RunOver(p)
  PROVE  LifeInv' /\ Change
<1>1. Change
  <2>1. CASE UNCHANGED mortalVars
    BY <2>1 DEF Change
  <2>2. ASSUME NEW d \in 1 .. MaxHp, Damage(p, d, energy)
        PROVE  Change
    <3>1. p \in present /\ d \in Nat /\ energy \in [Fighters -> Nat] /\ Affordable(energy)
      BY DEF RunOver, LifeInv, LifeTypeOK, Affordable
    <3> QED
      BY <2>2, <3>1, DamageChange DEF LifeInv
  <2> QED
    BY <2>1, <2>2 DEF RunOver
<1>2. /\ UNCHANGED <<arrived, present, record, stage, attackVars, struck>> /\ stage # Moves
      /\ todo' \subseteq todo
  BY DEF RunOver, Roads, Moves
<1>3. /\ nextFire' = nextFire /\ nextMelee' = nextMelee /\ shots' = shots
      /\ swings' = swings /\ struck' = struck
  BY <1>2 DEF attackVars
<1> QED
  BY <1>1, <1>2, <1>3, ChangeInv, AttackTypes

LEMMA DrainInv ==
  ASSUME LifeAssumption, LifeInv, NEW p \in Fighters, Drain(p)
  PROVE  LifeInv' /\ Change
<1>1. Change
  <2>1. CASE UNCHANGED mortalVars
    BY <2>1 DEF Change
  <2>2. CASE ~dead[p] /\ energy[p] > 1 /\ Spare([energy EXCEPT ![p] = energy[p] - 1])
    <3> DEFINE en == [energy EXCEPT ![p] = energy[p] - 1]
    <3>1. energy \in [Fighters -> Nat] /\ p \in present
      BY DEF Drain, LifeInv, LifeTypeOK
    <3>2. en \in [Fighters -> Nat] /\ Affordable(en)
      BY <2>2, <3>1 DEF Affordable
    <3> QED
      BY <2>2, <3>1, <3>2, SpareChange DEF LifeInv
  <2>3. CASE ~dead[p] /\ Kill(p, energy, FALSE, FALSE)
    <3>1. p \in present
      BY DEF Drain, LifeInv, LifeTypeOK
    <3> QED
      BY <2>3, <3>1, KillChange DEF LifeInv
  <2> QED
    BY <2>1, <2>2, <2>3 DEF Drain
<1>2. /\ UNCHANGED <<arrived, present, record, stage, attackVars, struck>> /\ stage # Moves
      /\ todo' \subseteq todo
  BY DEF Drain, Drains, Moves
<1>3. /\ nextFire' = nextFire /\ nextMelee' = nextMelee /\ shots' = shots
      /\ swings' = swings /\ struck' = struck
  BY <1>2 DEF attackVars
<1> QED
  BY <1>1, <1>2, <1>3, ChangeInv, AttackTypes

\* What an attack costs leaves the attacker alive.
LEMMA PaidAffordable ==
  ASSUME LifeAssumption, LifeTypeOK, NEW p \in present, ~dead[p], energy[p] > AttackCost
  PROVE  Paid(p) \in [Fighters -> Nat] /\ Affordable(Paid(p))
BY DEF Paid, Affordable, LifeTypeOK, LifeAssumption

LEMMA StaggeredType ==
  ASSUME LifeAssumption, NEW next \in [Fighters -> Nat], NEW v \in Fighters
  PROVE  Staggered(next, v) \in [Fighters -> Nat]
BY DEF Staggered, LifeAssumption

\* A shot sees nobody who is not in the match, and no earlier life.
LEMMA SeenFresh ==
  ASSUME LifeAssumption, LifeInv, stage # Moves, NEW v \in Fighters,
         NEW i \in 0 .. MaxRewind, Seen(v, i) # Dead
  PROVE  v \in present /\ Seen(v, i) = Alive
<1>1. record[v] # << >> /\ record[v] \in Seq({Dead, Alive, Earlier})
  <2>1. record[v] # << >>
    BY DEF Seen
  <2>2. record \in [Fighters -> Seq({Dead, Alive, Earlier})]
    BY DEF LifeInv, LifeTypeOK
  <2> QED
    BY <2>1, <2>2
<1>2. Len(record[v]) \in Nat /\ Len(record[v]) # 0 /\ MaxRewind \in Nat
  BY <1>1, LenProperties, EmptySeq DEF LifeAssumption
<1>3. v \in present
  BY <1>1 DEF LifeInv
<1>4. PICK j \in 1 .. Len(record[v]) : j <= MaxRewind + 1 /\ Seen(v, i) = record[v][j]
  <2>1. CASE i < Len(record[v])
    <3>1. i + 1 \in 1 .. Len(record[v]) /\ i + 1 <= MaxRewind + 1
      BY <1>2, <2>1
    <3>2. Seen(v, i) = record[v][i + 1]
      BY <1>1, <2>1 DEF Seen
    <3> QED
      BY <3>1, <3>2
  <2>2. CASE ~(i < Len(record[v]))
    <3>1. Len(record[v]) \in 1 .. Len(record[v]) /\ Len(record[v]) <= MaxRewind + 1
      BY <1>2, <2>2
    <3>2. Seen(v, i) = record[v][Len(record[v])]
      BY <1>1, <2>2 DEF Seen
    <3> QED
      BY <3>1, <3>2
  <2> QED
    BY <2>1, <2>2
<1>5. Fresh(v) /\ ~Pending(v)
  BY DEF LifeInv, Pending
<1>6. record[v][j] # Earlier
  BY <1>4, <1>5 DEF Fresh
<1>7. record[v][j] \in {Dead, Alive, Earlier}
  BY <1>1, <1>4, ElementOfSeq
<1> QED
  BY <1>3, <1>4, <1>6, <1>7

LEMMA ShootInv ==
  ASSUME LifeAssumption, LifeInv, Shoot
  PROVE  LifeInv' /\ Change
<1> DEFINE p == Head(shots)
<1>1. /\ LifeTypeOK /\ stage # Moves /\ stage = Attacks
      /\ UNCHANGED <<arrived, present, swings, record, stage, todo>>
  BY DEF Shoot, LifeInv, Attacks, Moves
<1>2. p \in Fighters /\ shots' \in Seq(Fighters)
  BY <1>1, HeadTailProperties DEF Shoot, LifeTypeOK
<1>3. /\ nextFire \in [Fighters -> Nat] /\ nextMelee \in [Fighters -> Nat]
      /\ swings \in Seq(Fighters) /\ struck \in {Dead, Alive}
  BY AttackTypes
<1> DEFINE Result == /\ Change /\ nextFire' \in [Fighters -> Nat]
                     /\ nextMelee' \in [Fighters -> Nat] /\ struck' \in {Dead, Alive}
<1>4. ASSUME UNCHANGED <<mortalVars, nextFire, nextMelee, struck>>
      PROVE  Result
  BY <1>3, <1>4 DEF Change
<1>5. ASSUME p \in present, nextFire' = [nextFire EXCEPT ![p] = FireGap]
      PROVE  nextFire' \in [Fighters -> Nat]
  BY <1>3, <1>5 DEF LifeAssumption
<1>6. ASSUME p \in present, nextFire' = [nextFire EXCEPT ![p] = FireGap],
             UNCHANGED <<mortalVars, nextMelee, struck>>
      PROVE  Result
  BY <1>3, <1>5, <1>6 DEF Change
<1>7. ASSUME p \in present, nextFire' = [nextFire EXCEPT ![p] = FireGap], ~dead[p],
             Kill(p, energy, FALSE, FALSE), UNCHANGED <<nextMelee, struck>>
      PROVE  Result
  BY <1>1, <1>3, <1>5, <1>7, KillChange
<1>8. ASSUME p \in present, nextFire' = [nextFire EXCEPT ![p] = FireGap], ~dead[p],
             energy[p] > AttackCost, Spare(Paid(p)), UNCHANGED <<nextMelee, struck>>
      PROVE  Result
  BY <1>1, <1>3, <1>5, <1>8, PaidAffordable, SpareChange
<1>9. ASSUME p \in present, nextFire' = [nextFire EXCEPT ![p] = FireGap], ~dead[p],
             energy[p] > AttackCost,
             NEW v \in Fighters \ {p}, NEW i \in 0 .. MaxRewind, NEW d \in Damages,
             Seen(v, i) # Dead, Damage(v, d, Paid(p)),
             nextMelee' = Staggered(nextMelee, v), struck' = Seen(v, i)
      PROVE  Result
  <2>1. v \in present /\ Seen(v, i) = Alive
    BY <1>1, <1>9, SeenFresh
  <2>2. Change
    BY <1>1, <1>9, <2>1, PaidAffordable, DamageChange DEF LifeAssumption
  <2>3. nextMelee' \in [Fighters -> Nat]
    BY <1>3, <1>9, StaggeredType
  <2> QED
    BY <1>5, <1>9, <2>1, <2>2, <2>3
<1>10. Result
  <2> HIDE DEF p, Result
  <2>1. \/ UNCHANGED <<mortalVars, nextFire, nextMelee, struck>>
        \/ /\ p \in present /\ nextFire' = [nextFire EXCEPT ![p] = FireGap]
           /\ \/ UNCHANGED <<mortalVars, nextMelee, struck>>
              \/ /\ ~dead[p] /\ Kill(p, energy, FALSE, FALSE)
                 /\ UNCHANGED <<nextMelee, struck>>
              \/ /\ ~dead[p] /\ energy[p] > AttackCost /\ Spare(Paid(p))
                 /\ UNCHANGED <<nextMelee, struck>>
              \/ /\ ~dead[p] /\ energy[p] > AttackCost
                 /\ \E v \in Fighters \ {p}, i \in 0 .. MaxRewind, d \in Damages :
                      /\ Seen(v, i) # Dead /\ Damage(v, d, Paid(p))
                      /\ nextMelee' = Staggered(nextMelee, v)
                      /\ struck' = Seen(v, i)
    BY DEF Shoot, p
  <2> QED
    BY <2>1, <1>4, <1>6, <1>7, <1>8, <1>9
<1> QED
  BY <1>1, <1>2, <1>3, <1>10, ChangeInv DEF Dead, Alive

LEMMA SwingInv ==
  ASSUME LifeAssumption, LifeInv, Swing
  PROVE  LifeInv' /\ Change
<1> DEFINE p == Head(swings)
           Swung == [nextMelee EXCEPT ![p] = SwingGap]
<1>1. /\ LifeTypeOK /\ stage # Moves
      /\ UNCHANGED <<arrived, present, nextFire, shots, record, stage, todo, struck>>
  BY DEF Swing, LifeInv, Attacks, Moves
<1>2. p \in Fighters /\ swings' \in Seq(Fighters)
  BY <1>1, HeadTailProperties DEF Swing, LifeTypeOK
<1>3. /\ nextFire \in [Fighters -> Nat] /\ nextMelee \in [Fighters -> Nat]
      /\ shots \in Seq(Fighters) /\ struck \in {Dead, Alive}
  BY AttackTypes
<1> DEFINE Result == Change /\ nextMelee' \in [Fighters -> Nat]
<1>4. Swung \in [Fighters -> Nat]
  BY <1>2, <1>3 DEF LifeAssumption
<1> HIDE DEF Swung
<1>5. ASSUME UNCHANGED <<mortalVars, nextMelee>>
      PROVE  Result
  BY <1>3, <1>5 DEF Change
<1>6. ASSUME UNCHANGED mortalVars, nextMelee' = Swung
      PROVE  Result
  BY <1>4, <1>6 DEF Change
<1>7. ASSUME p \in present, ~dead[p], Kill(p, energy, FALSE, FALSE), nextMelee' = Swung
      PROVE  Result
  BY <1>1, <1>4, <1>7, KillChange
<1>8. ASSUME p \in present, ~dead[p], energy[p] > AttackCost, Spare(Paid(p)),
             nextMelee' = Swung
      PROVE  Result
  BY <1>1, <1>4, <1>8, PaidAffordable, SpareChange
<1>9. ASSUME p \in present, ~dead[p], energy[p] > AttackCost,
             NEW v \in present \ {p}, NEW d \in Damages,
             Damage(v, d, Paid(p)), nextMelee' = Staggered(Swung, v)
      PROVE  Result
  <2>1. Change
    BY <1>1, <1>9, PaidAffordable, DamageChange DEF LifeAssumption
  <2>2. nextMelee' \in [Fighters -> Nat]
    BY <1>1, <1>4, <1>9, StaggeredType DEF LifeTypeOK
  <2> QED
    BY <2>1, <2>2
<1>10. Result
  <2>1. \/ UNCHANGED <<mortalVars, nextMelee>>
        \/ UNCHANGED mortalVars /\ nextMelee' = Swung
        \/ p \in present /\ ~dead[p] /\ Kill(p, energy, FALSE, FALSE) /\ nextMelee' = Swung
        \/ /\ p \in present /\ ~dead[p] /\ energy[p] > AttackCost /\ Spare(Paid(p))
           /\ nextMelee' = Swung
        \/ /\ p \in present /\ ~dead[p] /\ energy[p] > AttackCost
           /\ \E v \in present \ {p}, d \in Damages :
                Damage(v, d, Paid(p)) /\ nextMelee' = Staggered(Swung, v)
    BY DEF Swing, p, Swung
  <2> HIDE DEF p, Result
  <2> QED
    BY <2>1, <1>5, <1>6, <1>7, <1>8, <1>9
<1> QED
  BY <1>1, <1>2, <1>3, <1>10, ChangeInv DEF Dead, Alive

-----------------------------------------------------------------------------
\* The steps that record and that end a death

\* What there is to be seen of p now.
Look(p) == IF hp[p] > 0 /\ ~dead[p] THEN Alive ELSE Dead

\* A new record comes first, and the others move up.
LEMMA RecordedElements ==
  ASSUME LifeAssumption, LifeTypeOK, NEW p \in Fighters
  PROVE  /\ Recorded(p) \in Seq({Dead, Alive, Earlier})
         /\ \A i \in 1 .. Len(Recorded(p)) :
              \/ i = 1 /\ Recorded(p)[i] = Look(p)
              \/ /\ i - 1 \in 1 .. Len(record[p])
                 /\ Recorded(p)[i] = record[p][i - 1]
<1> DEFINE S == {Dead, Alive, Earlier}
           r == <<Look(p)>> \o record[p]
<1>1. record[p] \in Seq(S) /\ <<Look(p)>> \in Seq(S) /\ Len(<<Look(p)>>) = 1
      /\ <<Look(p)>>[1] = Look(p)
  <2>1. record \in [Fighters -> Seq(S)]
    BY DEF LifeTypeOK
  <2>2. Look(p) \in S
    BY DEF Look
  <2> QED
    BY <2>1, <2>2
<1> HIDE DEF S
<1>2. /\ r \in Seq(S) /\ Len(r) = 1 + Len(record[p]) /\ r[1] = Look(p)
      /\ \A i \in 2 .. Len(r) : i - 1 \in 1 .. Len(record[p]) /\ r[i] = record[p][i - 1]
  BY <1>1, ConcatProperties, LenProperties
<1>3. Recorded(p) = IF Len(r) > Window THEN SubSeq(r, 1, Window) ELSE r
  BY DEF Recorded, Look
<1> HIDE DEF r
<1>4. CASE Len(r) > Window
  <2>1. /\ SubSeq(r, 1, Window) \in Seq(S) /\ Len(SubSeq(r, 1, Window)) = Window
        /\ \A i \in 1 .. Window : SubSeq(r, 1, Window)[i] = r[i]
    BY <1>2, <1>4, SubSeqProperties DEF LifeAssumption
  <2>2. Recorded(p) = SubSeq(r, 1, Window) /\ Window \in Nat
    BY <1>3, <1>4 DEF LifeAssumption
  <2>3. Len(r) \in Nat
    BY <1>2, LenProperties
  <2>4. ASSUME NEW i \in 1 .. Len(Recorded(p))
        PROVE  \/ i = 1 /\ Recorded(p)[i] = Look(p)
               \/ /\ i - 1 \in 1 .. Len(record[p])
                  /\ Recorded(p)[i] = record[p][i - 1]
    <3>1. i \in 1 .. Window /\ Recorded(p)[i] = r[i]
      BY <2>1, <2>2
    <3>2. i = 1 \/ i \in 2 .. Len(r)
      BY <1>4, <2>2, <2>3, <3>1
    <3> QED
      BY <1>2, <3>1, <3>2
  <2> QED
    BY <2>1, <2>2, <2>4 DEF S
<1>5. CASE ~(Len(r) > Window)
  BY <1>2, <1>3, <1>5 DEF S
<1> QED
  BY <1>4, <1>5

LEMMA MoveInv ==
  ASSUME LifeAssumption, LifeInv, NEW p \in Fighters, Move(p)
  PROVE  LifeInv' /\ Change
<1>1. /\ LifeTypeOK /\ stage = Moves /\ p \in todo /\ todo' = todo \ {p} /\ p \in present
      /\ record' = [record EXCEPT ![p] = Recorded(p)]
      /\ UNCHANGED <<arrived, present, attackVars, stage, struck>>
  BY DEF Move, LifeInv, LifeTypeOK
<1>2. Change
  <2>1. CASE Falls(p) /\ Kill(p, energy, dead[p], FALSE)
    <3>1. hp[p] # 0 /\ Whole(p)
      BY <1>1, <2>1 DEF Falls, LifeInv, Body
    <3> QED
      BY <1>1, <2>1, <3>1, KillChange DEF Whole
  <2>2. CASE UNCHANGED mortalVars
    BY <2>2 DEF Change
  <2> QED
    BY <2>1, <2>2 DEF Move
<1>3. /\ BodyTypes' /\ UNCHANGED <<batteries, nextBattery>>
      /\ \A q \in Fighters : Body(q)' /\ Standing(q)
  BY <1>1, <1>2, ChangeBody
<1>4. /\ record \in [Fighters -> Seq({Dead, Alive, Earlier})]
      /\ record' \in [Fighters -> Seq({Dead, Alive, Earlier})]
      /\ record'[p] = Recorded(p) /\ \A q \in Fighters \ {p} : record'[q] = record[q]
  <2>1. record \in [Fighters -> Seq({Dead, Alive, Earlier})]
    BY <1>1 DEF LifeTypeOK
  <2> QED
    BY <1>1, <2>1, RecordedElements
<1>5. LifeTypeOK'
  BY <1>1, <1>3, <1>4 DEF LifeTypeOK, BodyTypes, attackVars
<1>6. ASSUME NEW q \in Fighters \ {p}
      PROVE  Fresh(q)'
  <2>1. Pending(q)' <=> Pending(q)
    BY <1>1 DEF Pending
  <2> QED
    BY <1>1, <1>3, <1>4, <2>1, StillFresh DEF Standing, LifeInv
<1>7. Fresh(p)'
  <2>1. Pending(p) /\ ~Pending(p)' /\ Fresh(p)
    BY <1>1 DEF Pending, LifeInv
  <2>2. /\ MaxRewind \in Nat /\ RespawnTicks \in Nat /\ respawn[p] \in Int
        /\ Len(record[p]) \in Nat
    BY <1>1, <1>4, LenProperties DEF LifeTypeOK, LifeAssumption, NoTime
  <2> SUFFICES ASSUME NEW i \in 1 .. Len(Recorded(p))
               PROVE  /\ i <= MaxRewind + 1 => Recorded(p)[i] # Earlier
                      /\ dead'[p] /\ i + respawn'[p] <= RespawnTicks
                           => Recorded(p)[i] = Dead
    BY <1>4, <2>1 DEF Fresh
  <2>3. Standing(p)
    BY <1>3
  <2>4. i \in Nat \ {0}
    BY <1>1, RecordedElements, LenProperties
  <2>5. CASE i = 1 /\ Recorded(p)[i] = Look(p)
    BY <2>2, <2>3, <2>5 DEF Look, Standing, Dead, Alive, Earlier
  <2>6. CASE i - 1 \in 1 .. Len(record[p]) /\ Recorded(p)[i] = record[p][i - 1]
    <3>1. /\ i - 1 <= MaxRewind => record[p][i - 1] # Earlier
          /\ dead[p] /\ (i - 1) + respawn[p] <= RespawnTicks - 1
               => record[p][i - 1] = Dead
      BY <2>1, <2>6 DEF Fresh
    <3> QED
      BY <2>2, <2>3, <2>4, <2>6, <3>1 DEF Standing
  <2> QED
    BY <1>1, <2>5, <2>6, RecordedElements
<1>8. HitsThisLife'
  BY <1>1 DEF LifeInv, HitsThisLife
<1>9. \A q \in Fighters \ present' : record'[q] = << >>
  <2>1. \A q \in Fighters \ present' : q # p /\ record[q] = << >>
    BY <1>1 DEF LifeInv
  <2> QED
    BY <1>4, <2>1
<1> QED
  BY <1>1, <1>2, <1>3, <1>5, <1>6, <1>7, <1>8, <1>9 DEF LifeInv, Moves, Idle, Attacks

\* The records of the returning are of the dead or of an earlier life.
LEMMA FormerElements ==
  ASSUME LifeTypeOK, NEW p \in Fighters
  PROVE  /\ Former(record[p]) \in Seq({Dead, Alive, Earlier})
         /\ Len(Former(record[p])) = Len(record[p])
         /\ \A i \in 1 .. Len(record[p]) :
              record[p][i] = Dead => Former(record[p])[i] = Dead
         /\ record[p] = << >> => Former(record[p]) = << >>
<1> DEFINE S == {Dead, Alive, Earlier}
           r == record[p]
<1>1. r \in Seq(S)
  BY DEF LifeTypeOK
<1>2. Len(r) \in Nat /\ \A i \in 1 .. Len(r) : r[i] \in S
  BY <1>1, LenProperties, ElementOfSeq
<1>3. Former(r) = [i \in 1 .. Len(r) |-> IF r[i] = Alive THEN Earlier ELSE r[i]]
  BY DEF Former
<1>4. Former(r) \in [1 .. Len(r) -> S]
  BY <1>2, <1>3
<1>5. Former(r) \in Seq(S) /\ Len(Former(r)) = Len(r)
  BY <1>2, <1>4, SeqDef, LenProperties
<1>6. \A i \in 1 .. Len(r) : r[i] = Dead => Former(r)[i] = Dead
  BY <1>3 DEF Dead, Alive
<1>7. r = << >> => Former(r) = << >>
  BY <1>5, EmptySeq
<1> QED
  BY <1>5, <1>6, <1>7

\* What may become of somebody dead: the action DeathsStand requires.
Stands(p) ==
  dead[p] => \/ dead'[p] /\ respawn'[p] \in {respawn[p], respawn[p] - 1}
             \/ /\ ~dead'[p] /\ respawn[p] \in {0, 1} /\ guard'[p]
                /\ hp'[p] = MaxHp /\ energy'[p] = StartEnergy

LEMMA BeginInv ==
  ASSUME LifeAssumption, LifeInv, Begin
  PROVE  LifeInv' /\ \A p \in present : Stands(p)
<1>1. /\ LifeTypeOK /\ stage = Idle /\ stage' = Moves /\ todo' = present /\ struck' = Dead
      /\ UNCHANGED <<arrived, present, driving, batteries, nextBattery, shots, swings>>
  BY DEF Begin, LifeInv
<1>2. /\ respawn \in [Fighters -> (0 .. RespawnTicks) \cup {NoTime}]
      /\ hp \in [Fighters -> 0 .. MaxHp] /\ energy \in [Fighters -> Nat]
      /\ shield \in [Fighters -> 0 .. ShieldTicks]
      /\ nextFire \in [Fighters -> Nat] /\ nextMelee \in [Fighters -> Nat]
      /\ dead \in [Fighters -> BOOLEAN] /\ guard \in [Fighters -> BOOLEAN]
      /\ MaxHp \in Nat \ {0} /\ StartEnergy \in Nat \ {0} /\ ShieldTicks \in Nat \ {0}
      /\ RespawnTicks \in Nat /\ MaxRewind \in Nat /\ MaxRewind < RespawnTicks
  BY <1>1 DEF LifeTypeOK, LifeAssumption
<1>3. \A p \in Fighters :
        /\ respawn'[p] = IF Returns(p) THEN NoTime ELSE Less(respawn[p])
        /\ hp'[p] = IF Returns(p) THEN MaxHp ELSE hp[p]
        /\ energy'[p] = IF Returns(p) THEN StartEnergy ELSE energy[p]
        /\ shield'[p] = IF Returns(p) THEN ShieldTicks ELSE Less(shield[p])
        /\ record'[p] = IF Returns(p) THEN Former(record[p]) ELSE record[p]
  BY DEF Begin
<1>4. \A p \in Fighters :
        /\ dead'[p] <=> dead[p] /\ ~Returns(p)
        /\ guard'[p] <=> Returns(p) \/ (guard[p] /\ ~Expires(p))
  BY DEF Begin
<1>5. LifeTypeOK'
  <2>1. /\ respawn' \in [Fighters -> (0 .. RespawnTicks) \cup {NoTime}]
        /\ hp' \in [Fighters -> 0 .. MaxHp] /\ energy' \in [Fighters -> Nat]
        /\ shield' \in [Fighters -> 0 .. ShieldTicks]
        /\ nextFire' \in [Fighters -> Nat] /\ nextMelee' \in [Fighters -> Nat]
    <3>1. \A p \in Fighters :
            /\ (IF Returns(p) THEN NoTime ELSE Less(respawn[p])) \in
                 (0 .. RespawnTicks) \cup {NoTime}
            /\ (IF Returns(p) THEN MaxHp ELSE hp[p]) \in 0 .. MaxHp
            /\ (IF Returns(p) THEN StartEnergy ELSE energy[p]) \in Nat
            /\ (IF Returns(p) THEN ShieldTicks ELSE Less(shield[p])) \in 0 .. ShieldTicks
            /\ Less(nextFire[p]) \in Nat /\ Less(nextMelee[p]) \in Nat
      BY <1>2 DEF Less, NoTime
    <3> QED
      BY <3>1 DEF Begin
  <2>2. dead' \in [Fighters -> BOOLEAN] /\ guard' \in [Fighters -> BOOLEAN]
    BY DEF Begin
  <2>3. record' \in [Fighters -> Seq({Dead, Alive, Earlier})]
    <3>1. record \in [Fighters -> Seq({Dead, Alive, Earlier})]
      BY <1>1 DEF LifeTypeOK
    <3>2. \A p \in Fighters : Former(record[p]) \in Seq({Dead, Alive, Earlier})
      BY <1>1, FormerElements
    <3> QED
      BY <3>1, <3>2 DEF Begin
  <2>4. stage' \in Idle .. Attacks /\ struck' \in {Dead, Alive, Earlier}
    BY <1>1 DEF Moves, Idle, Attacks
  <2> QED
    BY <1>1, <2>1, <2>2, <2>3, <2>4 DEF LifeTypeOK
<1>6. ASSUME NEW p \in Fighters
      PROVE  Body(p)' /\ Fresh(p)' /\ Stands(p) /\ (p \notin present => record'[p] = << >>)
  <2>1. Body(p) /\ Fresh(p) /\ ~Pending(p)
    BY <1>1 DEF LifeInv, Pending, Idle, Moves
  <2>2. /\ respawn[p] \in (0 .. RespawnTicks) \cup {NoTime} /\ hp[p] \in 0 .. MaxHp
        /\ energy[p] \in Nat /\ shield[p] \in 0 .. ShieldTicks
    BY <1>2
  <2>3. Len(record[p]) \in Nat
    BY <1>1, LenProperties DEF LifeTypeOK
  <2>4. CASE Returns(p)
    <3>1. p \in present /\ dead[p] /\ ~driving[p] /\ respawn[p] \in {0, 1}
      BY <2>1, <2>4 DEF Body, Absent, Whole, Returns, NoTime
    <3>2. /\ respawn'[p] = NoTime /\ hp'[p] = MaxHp /\ energy'[p] = StartEnergy
          /\ shield'[p] = ShieldTicks /\ record'[p] = Former(record[p])
          /\ ~dead'[p] /\ guard'[p]
      BY <1>3, <1>4, <2>4
    <3>3. Body(p)'
      BY <1>1, <1>2, <3>1, <3>2 DEF Body, Whole
    <3>4. Fresh(p)'
      <4>1. Pending(p)'
        BY <1>1, <3>1 DEF Pending
      <4>2. ASSUME NEW i \in 1 .. Len(record[p]), i <= MaxRewind
            PROVE  Former(record[p])[i] # Earlier
        <5>1. record[p][i] = Dead
          BY <1>2, <2>1, <2>3, <3>1, <4>2 DEF Fresh
        <5> QED
          BY <1>1, <5>1, FormerElements DEF Dead, Earlier
      <4> QED
        BY <1>1, <1>2, <3>2, <4>1, <4>2, FormerElements DEF Fresh
    <3> QED
      BY <3>1, <3>2, <3>3, <3>4 DEF Stands
  <2>5. CASE ~Returns(p)
    <3>1. /\ respawn'[p] = Less(respawn[p]) /\ hp'[p] = hp[p] /\ energy'[p] = energy[p]
          /\ shield'[p] = Less(shield[p]) /\ record'[p] = record[p]
      BY <1>3, <2>5
    <3>2. /\ dead'[p] <=> dead[p]
          /\ guard'[p] <=> guard[p] /\ shield[p] # 1
      BY <1>4, <2>5 DEF Expires
    <3>3. /\ respawn'[p] = NoTime <=> respawn[p] = NoTime
          /\ respawn[p] # NoTime => respawn'[p] = respawn[p] - 1
          /\ shield'[p] # 0 <=> shield[p] # 0 /\ shield[p] # 1
      BY <2>2, <2>5, <3>1 DEF Less, Returns, NoTime
    <3>4. Body(p)'
      <4>1. CASE p \in present
        BY <1>1, <2>1, <3>1, <3>2, <3>3, <4>1 DEF Body, Whole
      <4>2. CASE p \notin present
        BY <1>1, <2>1, <3>1, <3>2, <3>3, <4>2 DEF Body, Absent
      <4> QED
        BY <4>1, <4>2
    <3>5. dead[p] => respawn[p] # NoTime
      BY <2>1 DEF Body, Whole, Absent
    <3>6. p \notin present => record'[p] = << >>
      BY <3>1 DEF LifeInv
    <3>7. Fresh(p)'
      <4> SUFFICES ASSUME NEW i \in 1 .. Len(record[p])
                   PROVE  /\ i <= MaxRewind + (IF Pending(p)' THEN 0 ELSE 1)
                               => record[p][i] # Earlier
                          /\ dead'[p] /\ i + respawn'[p] <=
                               RespawnTicks - (IF Pending(p)' THEN 1 ELSE 0)
                               => record[p][i] = Dead
        BY <3>1 DEF Fresh
      <4>1. p \in present /\ Pending(p)'
        <5>1. record[p] # << >>
          BY <2>3, EmptySeq
        <5> QED
          BY <1>1, <3>1, <3>6, <5>1 DEF Pending
      <4>2. i <= MaxRewind => record[p][i] # Earlier
        BY <1>2, <2>1, <2>3 DEF Fresh
      <4>3. ASSUME dead[p], i + respawn'[p] <= RespawnTicks - 1
            PROVE  record[p][i] = Dead
        <5>1. respawn'[p] = respawn[p] - 1 /\ respawn[p] \in Int
          BY <2>2, <3>3, <3>5, <4>3 DEF NoTime
        <5>2. i + respawn[p] <= RespawnTicks
          BY <1>2, <2>3, <4>3, <5>1
        <5> QED
          BY <2>1, <4>3, <5>2 DEF Fresh
      <4> QED
        BY <3>2, <4>1, <4>2, <4>3
    <3> QED
      BY <3>2, <3>3, <3>4, <3>5, <3>6, <3>7 DEF Stands
  <2> QED
    BY <2>4, <2>5
<1>7. HitsThisLife'
  BY <1>1 DEF HitsThisLife, Dead, Earlier
<1>8. stage' \notin {Idle, Attacks}
  BY <1>1 DEF Moves, Idle, Attacks
<1> QED
  BY <1>1, <1>5, <1>6, <1>7, <1>8 DEF LifeInv, LifeTypeOK

-----------------------------------------------------------------------------
\* The steps that come and go

\* A step that leaves the records of p, its death and the tick as they are.
LEMMA SameFresh ==
  ASSUME LifeAssumption, LifeInv, NEW p \in Fighters, record'[p] = record[p],
         dead'[p] = dead[p], respawn'[p] = respawn[p], Pending(p)' <=> Pending(p)
  PROVE  Fresh(p)'
BY StillFresh DEF LifeInv

LEMMA AppearInv ==
  ASSUME LifeAssumption, LifeInv, NEW p \in Fighters, Appear(p)
  PROVE  LifeInv' /\ \A q \in present : Stands(q)
<1>1. LifeTypeOK /\ p \notin present /\ present' = present \cup {p} /\ Absent(p)
  BY DEF Appear, LifeInv, LifeTypeOK, Body
<1>2. /\ hp' = [hp EXCEPT ![p] = MaxHp] /\ energy' = [energy EXCEPT ![p] = StartEnergy]
      /\ guard' = [guard EXCEPT ![p] = TRUE] /\ shield' = [shield EXCEPT ![p] = ShieldTicks]
      /\ UNCHANGED <<dead, driving, respawn, batteries, nextBattery, nextFire, nextMelee,
                     shots, swings, record, stage, todo, struck>>
      /\ arrived' = arrived \cup {p}
  BY DEF Appear, attackVars
<1>3. LifeTypeOK'
  <2>1. /\ hp' \in [Fighters -> 0 .. MaxHp] /\ energy' \in [Fighters -> Nat]
        /\ shield' \in [Fighters -> 0 .. ShieldTicks]
    BY <1>1, <1>2 DEF LifeTypeOK, LifeAssumption
  <2>2. guard' \in [Fighters -> BOOLEAN]
    BY <1>1, <1>2 DEF LifeTypeOK
  <2> QED
    BY <1>1, <1>2, <2>1, <2>2 DEF LifeTypeOK
<1>4. ASSUME NEW q \in Fighters
      PROVE  Body(q)' /\ Fresh(q)' /\ (q \notin present' => record'[q] = << >>)
             /\ (q \in present => Stands(q))
  <2>1. Body(q) /\ (q \notin present => record[q] = << >>)
    BY DEF LifeInv
  <2>2. CASE q = p
    <3>1. hp'[p] = MaxHp /\ energy'[p] = StartEnergy /\ shield'[p] = ShieldTicks
      BY <1>1, <1>2 DEF LifeTypeOK
    <3>2. guard'[p]
      BY <1>1, <1>2 DEF LifeTypeOK
    <3> QED
      BY <1>1, <1>2, <2>2, <3>1, <3>2, SameFresh
         DEF Body, Whole, Absent, LifeAssumption, Pending
  <2>3. CASE q # p
    <3>1. /\ hp'[q] = hp[q] /\ energy'[q] = energy[q] /\ shield'[q] = shield[q]
          /\ guard'[q] = guard[q]
      BY <1>1, <1>2, <2>3 DEF LifeTypeOK
    <3>2. Fresh(q)'
      BY <1>2, SameFresh DEF Pending
    <3> QED
      BY <1>1, <1>2, <2>1, <2>3, <3>1, <3>2 DEF Body, Whole, Absent, Stands
  <2> QED
    BY <2>2, <2>3
<1> QED
  BY <1>1, <1>2, <1>3, <1>4 DEF LifeInv, HitsThisLife, LifeTypeOK

LEMMA VanishInv ==
  ASSUME LifeAssumption, LifeInv, NEW p \in Fighters, Vanish(p)
  PROVE  LifeInv' /\ \A q \in present \cap present' : Stands(q)
<1>1. LifeTypeOK /\ present' = present \ {p} /\ stage = Idle /\ todo \subseteq present
  BY DEF Vanish, LifeInv, LifeTypeOK
<1>2. /\ hp' = [hp EXCEPT ![p] = 0] /\ energy' = [energy EXCEPT ![p] = 0]
      /\ respawn' = [respawn EXCEPT ![p] = NoTime] /\ shield' = [shield EXCEPT ![p] = 0]
      /\ nextFire' = [nextFire EXCEPT ![p] = 0] /\ nextMelee' = [nextMelee EXCEPT ![p] = 0]
      /\ record' = [record EXCEPT ![p] = << >>]
      /\ UNCHANGED <<arrived, shots, swings, batteries, nextBattery, stage, todo, struck>>
  BY DEF Vanish
<1>3. /\ dead' = [dead EXCEPT ![p] = FALSE] /\ guard' = [guard EXCEPT ![p] = FALSE]
      /\ driving' = [driving EXCEPT ![p] = FALSE]
  BY DEF Vanish
<1>4. todo = {}
  BY <1>1 DEF LifeInv
<1>5. LifeTypeOK'
  <2>1. /\ hp' \in [Fighters -> 0 .. MaxHp] /\ energy' \in [Fighters -> Nat]
        /\ shield' \in [Fighters -> 0 .. ShieldTicks]
        /\ respawn' \in [Fighters -> (0 .. RespawnTicks) \cup {NoTime}]
        /\ nextFire' \in [Fighters -> Nat] /\ nextMelee' \in [Fighters -> Nat]
    BY <1>1, <1>2 DEF LifeTypeOK, LifeAssumption
  <2>2. /\ dead' \in [Fighters -> BOOLEAN] /\ guard' \in [Fighters -> BOOLEAN]
        /\ driving' \in [Fighters -> BOOLEAN]
    BY <1>1, <1>3 DEF LifeTypeOK
  <2>3. record' \in [Fighters -> Seq({Dead, Alive, Earlier})]
    <3>1. record \in [Fighters -> Seq({Dead, Alive, Earlier})]
      BY <1>1 DEF LifeTypeOK
    <3> QED
      BY <1>2, <3>1
  <2> QED
    BY <1>1, <1>2, <1>4, <2>1, <2>2, <2>3 DEF LifeTypeOK
<1>6. ASSUME NEW q \in Fighters
      PROVE  Body(q)' /\ Fresh(q)' /\ (q \notin present' => record'[q] = << >>)
             /\ (q \in present' => Stands(q))
  <2>1. Body(q) /\ (q \notin present => record[q] = << >>)
    BY DEF LifeInv
  <2>2. CASE q = p
    <3>1. /\ hp'[p] = 0 /\ energy'[p] = 0 /\ shield'[p] = 0 /\ respawn'[p] = NoTime
          /\ record'[p] = << >>
      BY <1>1, <1>2 DEF LifeTypeOK
    <3>2. ~dead'[p] /\ ~guard'[p] /\ ~driving'[p]
      BY <1>1, <1>3 DEF LifeTypeOK
    <3>3. Fresh(p)'
      BY <3>1 DEF Fresh
    <3> QED
      BY <1>1, <2>2, <3>1, <3>2, <3>3 DEF Body, Absent
  <2>3. CASE q # p
    <3>1. /\ hp'[q] = hp[q] /\ energy'[q] = energy[q] /\ shield'[q] = shield[q]
          /\ respawn'[q] = respawn[q] /\ record'[q] = record[q]
      BY <1>1, <1>2, <2>3 DEF LifeTypeOK
    <3>2. dead'[q] = dead[q] /\ guard'[q] = guard[q] /\ driving'[q] = driving[q]
      BY <1>1, <1>3, <2>3 DEF LifeTypeOK
    <3>3. Fresh(q)'
      BY <1>2, <3>1, <3>2, SameFresh DEF Pending
    <3> QED
      BY <1>1, <2>1, <2>3, <3>1, <3>2, <3>3 DEF Body, Whole, Absent, Stands
  <2> QED
    BY <2>2, <2>3
<1>7. present \subseteq Fighters /\ HitsThisLife' /\ todo' = {}
  BY <1>1, <1>2, <1>4 DEF LifeInv, LifeTypeOK, HitsThisLife
<1> QED
  BY <1>5, <1>6, <1>7 DEF LifeInv

\* A step that leaves every body in a state as whole as it was.
LEMMA PlainInv ==
  ASSUME LifeAssumption, LifeInv, LifeTypeOK',
         UNCHANGED <<present, record, hp, dead, respawn, struck>>,
         stage' \in {Idle, Attacks} => todo' = {},
         \A q \in Fighters : Pending(q)' <=> Pending(q),
         \A q \in Fighters : energy'[q] = energy[q] \/ (~dead[q] /\ energy'[q] > 0 /\ q \in present),
         \A q \in Fighters : driving'[q] = driving[q] \/ (~dead[q] /\ q \in present),
         \A q \in Fighters : (guard'[q] = guard[q] /\ shield'[q] = shield[q])
                              \/ (~guard'[q] /\ shield'[q] = 0)
  PROVE  LifeInv' /\ \A q \in present : Stands(q)
<1>1. ASSUME NEW q \in Fighters
      PROVE  Body(q)' /\ Fresh(q)' /\ Stands(q) /\ (q \notin present' => record'[q] = << >>)
  <2>1. Body(q) /\ (q \notin present => record[q] = << >>) /\ energy[q] \in Nat
    BY DEF LifeInv, LifeTypeOK
  <2>2. Fresh(q)' /\ Stands(q)
    BY SameFresh DEF Stands
  <2>3. Body(q)'
    <3>1. CASE q \in present
      <4>1. Whole(q)
        BY <2>1, <3>1 DEF Body
      <4>2. energy'[q] = 0 <=> energy[q] = 0
        BY <2>1, <4>1 DEF Whole
      <4>3. dead[q] => ~driving'[q]
        BY <4>1 DEF Whole
      <4>4. guard'[q] <=> shield'[q] # 0
        BY <4>1 DEF Whole
      <4> QED
        BY <3>1, <4>1, <4>2, <4>3, <4>4 DEF Body, Whole
    <3>2. CASE q \notin present
      BY <2>1, <3>2 DEF Body, Absent
    <3> QED
      BY <3>1, <3>2
  <2> QED
    BY <2>1, <2>2, <2>3
<1> QED
  BY <1>1 DEF LifeInv, HitsThisLife, LifeTypeOK

LEMMA DriveInv ==
  ASSUME LifeAssumption, LifeInv, NEW p \in Fighters, NEW in \in BOOLEAN, Drive(p, in)
  PROVE  LifeInv' /\ \A q \in present : Stands(q)
<1>1. /\ driving \in [Fighters -> BOOLEAN] /\ driving' = [driving EXCEPT ![p] = in]
      /\ p \in present /\ ~dead[p]
      /\ UNCHANGED <<arrived, present, hp, dead, guard, energy, respawn, shield, batteries,
                     nextBattery, nextFire, nextMelee, shots, swings, record, stage,
                     todo, struck>>
  BY DEF Drive, LifeInv, LifeTypeOK, attackVars
<1>2. driving' \in [Fighters -> BOOLEAN]
      /\ \A q \in Fighters : driving'[q] = driving[q] \/ (~dead[q] /\ q \in present)
  BY <1>1
<1>3. LifeTypeOK'
  BY <1>1, <1>2 DEF LifeInv, LifeTypeOK
<1>4. \A q \in Fighters : Pending(q)' <=> Pending(q)
  BY <1>1 DEF Pending
<1>5. stage' \in {Idle, Attacks} => todo' = {}
  BY <1>1 DEF LifeInv
<1> QED
  BY <1>1, <1>2, <1>3, <1>4, <1>5, PlainInv

LEMMA AttackInv ==
  ASSUME LifeAssumption, LifeInv, NEW p \in Fighters, Attack(p)
  PROVE  LifeInv' /\ \A q \in present : Stands(q)
<1>1. /\ guard' = [guard EXCEPT ![p] = FALSE] /\ shield' = [shield EXCEPT ![p] = 0]
      /\ UNCHANGED <<arrived, present, hp, dead, energy, driving, respawn, nextFire, nextMelee,
                     batteries, nextBattery, record, stage, todo, struck>>
      /\ guard \in [Fighters -> BOOLEAN] /\ shield \in [Fighters -> 0 .. ShieldTicks]
  BY DEF Attack, LifeInv, LifeTypeOK
<1>2. guard' \in [Fighters -> BOOLEAN] /\ shield' \in [Fighters -> 0 .. ShieldTicks]
  BY <1>1 DEF LifeAssumption
<1>3. \A q \in Fighters : (guard'[q] = guard[q] /\ shield'[q] = shield[q])
                              \/ (~guard'[q] /\ shield'[q] = 0)
  BY <1>1
<1>4. shots' \in Seq(Fighters) /\ swings' \in Seq(Fighters)
  <2>1. shots \in Seq(Fighters) /\ swings \in Seq(Fighters)
    BY AttackTypes
  <2>2. Append(shots, p) \in Seq(Fighters) /\ Append(swings, p) \in Seq(Fighters)
    BY <2>1, AppendProperties
  <2> QED
    BY <2>1, <2>2 DEF Attack
<1>5. LifeTypeOK'
  BY <1>1, <1>2, <1>4 DEF LifeInv, LifeTypeOK
<1>6. \A q \in Fighters : Pending(q)' <=> Pending(q)
  BY <1>1 DEF Pending
<1>7. stage' \in {Idle, Attacks} => todo' = {}
  BY <1>1 DEF LifeInv
<1> QED
  BY <1>1, <1>3, <1>5, <1>6, <1>7, PlainInv

LEMMA PickUpInv ==
  ASSUME LifeAssumption, LifeInv, NEW p \in Fighters, NEW b \in batteries, PickUp(p, b)
  PROVE  LifeInv' /\ \A q \in present : Stands(q)
<1>1. /\ energy' = [energy EXCEPT ![p] = energy[p] + b.energy] /\ p \in present /\ ~dead[p]
      /\ UNCHANGED <<arrived, present, hp, dead, guard, driving, respawn, shield, nextBattery,
                     nextFire, nextMelee, shots, swings, record, stage, todo, struck>>
      /\ batteries' = batteries \ {b} /\ LifeTypeOK
      /\ energy \in [Fighters -> Nat] /\ b.energy \in Nat
  BY DEF PickUp, LifeInv, LifeTypeOK, attackVars
<1>2. energy[p] # 0
  BY <1>1 DEF LifeInv, Body, Whole
<1>3. /\ energy' \in [Fighters -> Nat]
      /\ \A q \in Fighters :
           energy'[q] = energy[q] \/ (~dead[q] /\ energy'[q] > 0 /\ q \in present)
  BY <1>1, <1>2
<1>4. LifeTypeOK'
  BY <1>1, <1>3 DEF LifeTypeOK
<1>5. \A q \in Fighters : Pending(q)' <=> Pending(q)
  BY <1>1 DEF Pending
<1>6. stage' \in {Idle, Attacks} => todo' = {}
  BY <1>1 DEF LifeInv
<1> QED
  BY <1>1, <1>3, <1>4, <1>5, <1>6, PlainInv

LEMMA ProceedInv ==
  ASSUME LifeAssumption, LifeInv, Proceed
  PROVE  LifeInv' /\ \A q \in present : Stands(q)
<1>1. /\ stage \in Moves .. Drains /\ stage' = stage + 1
      /\ todo' = IF stage = Drains THEN {} ELSE present
      /\ todo = {} \/ stage = Pickups
      /\ UNCHANGED <<arrived, present, hp, dead, guard, energy, driving, respawn, shield,
                     batteries, nextBattery, nextFire, nextMelee, shots, swings, record,
                     struck>>
  BY DEF Proceed, mortalVars, bodyVars, attackVars
<1>2. stage' \in Idle .. Attacks /\ todo' \subseteq present
      /\ (stage' \in {Idle, Attacks} => todo' = {}) /\ stage' # Moves
      /\ (stage = Moves => todo = {})
  BY <1>1 DEF Idle, Moves, Roads, Pickups, Drains, Attacks
<1>3. LifeTypeOK'
  BY <1>1, <1>2 DEF LifeInv, LifeTypeOK
<1>4. \A q \in Fighters : Pending(q)' <=> Pending(q)
  BY <1>2 DEF Pending
<1> QED
  BY <1>1, <1>2, <1>3, <1>4, PlainInv

LEMMA EndInv ==
  ASSUME LifeAssumption, LifeInv, End
  PROVE  LifeInv' /\ \A q \in present : Stands(q)
<1>1. /\ stage = Attacks /\ stage' = Idle
      /\ UNCHANGED <<arrived, present, hp, dead, guard, energy, driving, respawn, shield,
                     batteries, nextBattery, nextFire, nextMelee, shots, swings, record,
                     todo, struck>>
  BY DEF End, mortalVars, bodyVars, attackVars
<1>2. stage' \in Idle .. Attacks /\ todo' = {} /\ stage # Moves /\ stage' # Moves
  BY <1>1 DEF LifeInv, Idle, Moves, Attacks
<1>3. LifeTypeOK'
  BY <1>1, <1>2 DEF LifeInv, LifeTypeOK
<1>4. \A q \in Fighters : Pending(q)' <=> Pending(q)
  BY <1>2 DEF Pending
<1> QED
  BY <1>1, <1>2, <1>3, <1>4, PlainInv

-----------------------------------------------------------------------------
\* The theorems

LEMMA LifeInitInv == ASSUME LifeAssumption, LifeInit PROVE LifeInv
<1>1. /\ batteries \subseteq [id : Nat, energy : Nat] /\ nextBattery \in Nat
      /\ present = {} /\ todo = {}
  BY DEF LifeInit, LifeAssumption
<1>2. /\ hp = [p \in Fighters |-> 0] /\ energy = [p \in Fighters |-> 0]
      /\ respawn = [p \in Fighters |-> NoTime] /\ shield = [p \in Fighters |-> 0]
      /\ nextFire = [p \in Fighters |-> 0] /\ nextMelee = [p \in Fighters |-> 0]
      /\ record = [p \in Fighters |-> << >>]
  BY DEF LifeInit
<1>3. /\ dead = [p \in Fighters |-> FALSE] /\ guard = [p \in Fighters |-> FALSE]
      /\ driving = [p \in Fighters |-> FALSE]
  BY DEF LifeInit
<1>4. /\ arrived = {} /\ shots = << >> /\ swings = << >> /\ stage = Idle /\ struck = Dead
  BY DEF LifeInit
<1>5. LifeTypeOK
  <2>1. /\ hp \in [Fighters -> 0 .. MaxHp] /\ energy \in [Fighters -> Nat]
        /\ respawn \in [Fighters -> (0 .. RespawnTicks) \cup {NoTime}]
        /\ shield \in [Fighters -> 0 .. ShieldTicks]
        /\ nextFire \in [Fighters -> Nat] /\ nextMelee \in [Fighters -> Nat]
    BY <1>2 DEF LifeAssumption
  <2>2. record \in [Fighters -> Seq({Dead, Alive, Earlier})]
    BY <1>2
  <2>3. /\ dead \in [Fighters -> BOOLEAN] /\ guard \in [Fighters -> BOOLEAN]
        /\ driving \in [Fighters -> BOOLEAN]
    BY <1>3
  <2>4. stage \in Idle .. Attacks /\ struck \in {Dead, Alive, Earlier}
    BY <1>4 DEF Idle, Attacks
  <2> QED
    BY <1>1, <1>4, <2>1, <2>2, <2>3, <2>4 DEF LifeTypeOK
<1>6. ASSUME NEW p \in Fighters
      PROVE  Body(p) /\ Fresh(p) /\ record[p] = << >>
  BY <1>1, <1>2, <1>3 DEF Body, Absent, Fresh
<1> QED
  BY <1>1, <1>4, <1>5, <1>6 DEF LifeInv, HitsThisLife, Dead, Earlier

\* Every step keeps the invariant, lets deaths stand and adds no battery.
LEMMA LifeNextInv ==
  ASSUME LifeAssumption, LifeInv, [LifeNext]_lifeVars
  PROVE  /\ LifeInv' /\ batteries' \subseteq batteries
         /\ \A q \in present \cap present' : Stands(q)
<1> DEFINE Goal == /\ LifeInv' /\ batteries' \subseteq batteries
                   /\ \A q \in present \cap present' : Stands(q)
<1>1. ASSUME LifeInv', Change, present' = present
      PROVE  Goal
  <2>1. batteries' = batteries /\ \A q \in Fighters : Standing(q)
    BY <1>1, ChangeBody
  <2>2. present \subseteq Fighters
    BY DEF LifeInv, LifeTypeOK
  <2> QED
    BY <1>1, <2>1, <2>2 DEF Standing, Stands
<1>2. CASE Begin
  BY <1>2, BeginInv DEF Begin
<1>3. CASE Proceed
  BY <1>3, ProceedInv DEF Proceed, mortalVars
<1>4. CASE Shoot
  BY <1>1, <1>4, ShootInv DEF Shoot
<1>5. CASE Swing
  BY <1>1, <1>5, SwingInv DEF Swing
<1>6. CASE End
  BY <1>6, EndInv DEF End, mortalVars
<1>7. ASSUME NEW p \in Fighters, Move(p) \/ RunOver(p) \/ Drain(p)
      PROVE  Goal
  BY <1>1, <1>7, MoveInv, RunOverInv, DrainInv DEF Move, RunOver, Drain
<1>8. ASSUME NEW p \in Fighters, NEW b \in batteries, PickUp(p, b)
      PROVE  Goal
  BY <1>8, PickUpInv DEF PickUp
<1>9. ASSUME NEW p \in Fighters, Appear(p)
      PROVE  Goal
  BY <1>9, AppearInv DEF Appear
<1>10. ASSUME NEW p \in Fighters, Vanish(p)
       PROVE  Goal
  BY <1>10, VanishInv DEF Vanish
<1>11. ASSUME NEW p \in Fighters, Attack(p)
       PROVE  Goal
  BY <1>11, AttackInv DEF Attack
<1>12. ASSUME NEW p \in Fighters, NEW in \in BOOLEAN, Drive(p, in)
       PROVE  Goal
  BY <1>12, DriveInv DEF Drive
<1>13. CASE UNCHANGED lifeVars
  <2>1. /\ UNCHANGED <<arrived, present, hp, dead, guard, energy, driving, respawn, shield,
                       batteries, nextBattery, nextFire, nextMelee, shots, swings, record,
                       stage, todo, struck>>
    BY <1>13 DEF lifeVars, mortalVars, bodyVars, attackVars
  <2>2. LifeTypeOK' /\ (stage' \in {Idle, Attacks} => todo' = {})
    BY <2>1 DEF LifeInv, LifeTypeOK
  <2>3. \A q \in Fighters : Pending(q)' <=> Pending(q)
    BY <2>1 DEF Pending
  <2> QED
    BY <2>1, <2>2, <2>3, PlainInv
<1> QED
  BY <1>2, <1>3, <1>4, <1>5, <1>6, <1>7, <1>8, <1>9, <1>10, <1>11, <1>12, <1>13
     DEF LifeNext, TickStep

\* The invariant holds of every match.
LEMMA LifeInvariance == LifeSpec => []LifeInv
<1>1. LifeInit => LifeInv
  BY LifeInitInv, LifeAssumption
<1>2. LifeInv /\ [LifeNext]_lifeVars => LifeInv'
  BY LifeNextInv, LifeAssumption
<1> QED
  BY <1>1, <1>2, PTL DEF LifeSpec

\* The variables keep their types.
THEOREM LifeTypes == LifeSpec => []LifeTypeOK
BY LifeInvariance, PTL DEF LifeInv

\* The parts of a death agree, whatever killed and whenever in the tick.
THEOREM DeathsAreWhole == LifeSpec => []DeathIsWhole
<1>1. LifeInv => DeathIsWhole
  BY DEF LifeInv, LifeTypeOK, DeathIsWhole, Body
<1> QED
  BY <1>1, LifeInvariance, PTL

\* No shot hits an earlier life, as long as a death outlasts the rewind.
THEOREM ShotsHitThisLife == LifeSpec => []HitsThisLife
BY LifeInvariance, PTL DEF LifeInv

\* A death ends once, when it was set to, in a fresh body.
THEOREM DeathsDoStand == LifeSpec => DeathsStand
<1>1. LifeInv /\ [LifeNext]_lifeVars => \A p \in present \cap present' : Stands(p)
  BY LifeNextInv, LifeAssumption
<1> QED
  BY <1>1, LifeInvariance, PTL DEF LifeSpec, DeathsStand, Stands

\* No step puts a battery on the ground.
THEOREM NobodyDropsBatteries == LifeSpec => BatteriesOnlyShrink
<1>1. LifeInv /\ [LifeNext]_lifeVars => batteries' \subseteq batteries
  BY LifeNextInv, LifeAssumption
<1> QED
  BY <1>1, LifeInvariance, PTL DEF LifeSpec, BatteriesOnlyShrink

-----------------------------------------------------------------------------
\* The total size of a set of things.  The sum is a fold, which no prover
\* unfolds by induction: it is the number of bytes of all the records.

Bytes(S) == UNION {{t} \X (1 .. Size[t]) : t \in S}

LEMMA BytesOfOne ==
  ASSUME NEW t \in Things
  PROVE  /\ IsFiniteSet({t} \X (1 .. Size[t]))
         /\ Cardinality({t} \X (1 .. Size[t])) = Size[t]
<1>1. Size[t] \in Nat /\ Size[t] > 0
  BY InterestAssumption
<1>2. \A n \in Nat : n > 0 => IsFiniteSet(1 .. n) /\ Cardinality(1 .. n) = n
  BY FS_Interval
<1>3. IsFiniteSet({t}) /\ Cardinality({t}) = 1
  BY FS_Singleton
<1>4. \A n \in Nat : n > 0 =>
        IsFiniteSet({t} \X (1 .. n)) /\ Cardinality({t} \X (1 .. n)) = n
  <2> SUFFICES ASSUME NEW n \in Nat, n > 0, NEW J, J = 1 .. n
               PROVE  IsFiniteSet({t} \X J) /\ Cardinality({t} \X J) = n
    OBVIOUS
  <2>1. IsFiniteSet(J) /\ Cardinality(J) = n
    BY <1>2
  <2>2. /\ IsFiniteSet({t} \X J)
        /\ Cardinality({t} \X J) = Cardinality({t}) * Cardinality(J)
    BY <1>3, <2>1, FS_Product
  <2> QED
    BY <1>3, <2>1, <2>2
<1> QED
  BY <1>1, <1>4

LEMMA BytesFinite ==
  ASSUME NEW S \in SUBSET Things
  PROVE  IsFiniteSet(S) /\ IsFiniteSet(Bytes(S))
<1> DEFINE f == [t \in S |-> {t} \X (1 .. Size[t])]
           R == {{t} \X (1 .. Size[t]) : t \in S}
<1>1. IsFiniteSet(S)
  BY InterestAssumption, FS_Subset
<1>2. f \in Surjection(S, R)
  BY DEF Surjection
<1>3. IsFiniteSet(R)
  BY <1>1, <1>2, FS_Surjection
<1>4. \A Q \in R : IsFiniteSet(Q)
  BY BytesOfOne
<1>5. IsFiniteSet(UNION R)
  BY <1>3, <1>4, FS_UNION
<1> QED
  BY <1>1, <1>5 DEF Bytes

LEMMA BytesSplit ==
  ASSUME NEW S \in SUBSET Things, NEW T \in SUBSET Things, S \cap T = {}
  PROVE  Cardinality(Bytes(S \cup T)) = Cardinality(Bytes(S)) + Cardinality(Bytes(T))
<1>1. Bytes(S \cup T) = Bytes(S) \cup Bytes(T)
  BY DEF Bytes
<1>2. Bytes(S) \cap Bytes(T) = {}
  BY DEF Bytes
<1>3. IsFiniteSet(Bytes(S)) /\ IsFiniteSet(Bytes(T))
  BY BytesFinite
<1>4. Cardinality(Bytes(S)) \in Nat /\ Cardinality(Bytes(T)) \in Nat
  BY <1>3, FS_CardinalityType
<1>5. /\ Cardinality(Bytes(S) \cup Bytes(T)) =
           Cardinality(Bytes(S)) + Cardinality(Bytes(T)) - Cardinality({})
      /\ Cardinality({}) = 0
  BY <1>2, <1>3, FS_Union, FS_EmptySet
<1>6. \A a, b, c \in Nat : a + b - 0 = a + b
  OBVIOUS
<1> QED
  BY <1>1, <1>4, <1>5, <1>6

\* What the fold computes: the number of bytes.
LEMMA TotalIsBytes ==
  ASSUME NEW S \in SUBSET Things
  PROVE  TotalSize(S) = Cardinality(Bytes(S)) /\ TotalSize(S) \in Nat
<1> DEFINE pick(s) == CHOOSE x \in s : TRUE
           Step(g) == [s \in SUBSET S |-> IF s = {} THEN 0
                                          ELSE Size[pick(s)] + g[s \ {pick(s)}]]
           count == [s \in SUBSET S |-> Cardinality(Bytes(s))]
<1>1. TotalSize(S) = (CHOOSE g : g = Step(g))[S]
  BY DEF TotalSize, MapThenSumSet, MapThenFoldSet
<1>2. \A s \in SUBSET S : s # {} =>
        /\ pick(s) \in s /\ s \ {pick(s)} \in SUBSET S
        /\ Cardinality(Bytes(s)) = Size[pick(s)] + Cardinality(Bytes(s \ {pick(s)}))
  <2> SUFFICES ASSUME NEW s \in SUBSET S, s # {}
               PROVE  /\ pick(s) \in s /\ s \ {pick(s)} \in SUBSET S
                      /\ Cardinality(Bytes(s)) =
                           Size[pick(s)] + Cardinality(Bytes(s \ {pick(s)}))
    OBVIOUS
  <2>1. \E x \in s : x = pick(s)
    OBVIOUS
  <2>2. PICK x \in s : x = pick(s)
    BY <2>1
  <2>3. /\ {x} \in SUBSET Things /\ s \ {x} \in SUBSET Things /\ x \in Things
        /\ {x} \cap (s \ {x}) = {} /\ {x} \cup (s \ {x}) = s
    OBVIOUS
  <2>4. Cardinality(Bytes(s)) = Cardinality(Bytes({x})) + Cardinality(Bytes(s \ {x}))
    BY <2>3, BytesSplit
  <2>5. Bytes({x}) = {x} \X (1 .. Size[x])
    BY DEF Bytes
  <2>6. Cardinality(Bytes({x})) = Size[x]
    BY <2>3, <2>5, BytesOfOne
  <2> QED
    BY <2>2, <2>4, <2>6
<1>3. Cardinality(Bytes({})) = 0
  <2>1. Bytes({}) = {}
    BY DEF Bytes
  <2> QED
    BY <2>1, FS_EmptySet
<1>4. count = Step(count)
  <2>1. ASSUME NEW s \in SUBSET S
        PROVE  Cardinality(Bytes(s)) =
                 IF s = {} THEN 0 ELSE Size[pick(s)] + count[s \ {pick(s)}]
    <3>1. CASE s = {}
      BY <1>3, <3>1
    <3>2. CASE s # {}
      <4>1. s \ {pick(s)} \in SUBSET S
        BY <1>2, <3>2
      <4>2. count[s \ {pick(s)}] = Cardinality(Bytes(s \ {pick(s)}))
        BY <4>1
      <4> QED
        BY <1>2, <3>2, <4>2
    <3> QED
      BY <3>1, <3>2
  <2> QED
    BY <2>1
<1>5. PICK f : TotalSize(S) = f[S] /\ f = Step(f)
  <2>1. \E g : g = Step(g)
    BY <1>4
  <2>2. (CHOOSE g : g = Step(g)) = Step(CHOOSE g : g = Step(g))
    BY <2>1
  <2> QED
    BY <1>1, <2>2
<1>6. \A s \in SUBSET S : f[s] = Cardinality(Bytes(s))
  <2> DEFINE Bad == {s \in SUBSET S : f[s] # Cardinality(Bytes(s))}
             Counts == {n \in Nat : \E s \in Bad : Cardinality(s) = n}
  <2>1. \A s \in SUBSET S : IsFiniteSet(s) /\ Cardinality(s) \in Nat
    BY BytesFinite, FS_CardinalityType
  <2> SUFFICES ASSUME Bad # {} PROVE FALSE
    OBVIOUS
  <2>2. Counts # {}
    BY <2>1
  <2>3. PICK n \in Counts : \A j \in Counts : n <= j
    BY <2>2, Least
  <2>4. PICK s \in Bad : Cardinality(s) = n
    BY <2>3
  <2>5. s # {}
    BY <1>3, <1>5, <2>4
  <2>6. PICK x : x = pick(s)
    OBVIOUS
  <2>7. /\ x \in s /\ s \ {x} \in SUBSET S
        /\ Cardinality(Bytes(s)) = Size[x] + Cardinality(Bytes(s \ {x}))
    BY <1>2, <2>4, <2>5, <2>6
  <2>8. f[s] = Size[x] + f[s \ {x}]
    BY <1>5, <2>4, <2>5, <2>6
  <2>9. s \ {x} \in Bad
    BY <2>4, <2>7, <2>8
  <2>10. Cardinality(s \ {x}) = Cardinality(s) - 1 /\ Cardinality(s \ {x}) \in Nat
    BY <2>1, <2>4, <2>7, FS_RemoveElement
  <2>11. Cardinality(s \ {x}) \in Counts
    BY <2>9, <2>10
  <2>12. n <= n - 1 /\ n \in Nat
    BY <2>3, <2>4, <2>10, <2>11
  <2> QED
    BY <2>12
<1>7. TotalSize(S) = Cardinality(Bytes(S))
  BY <1>5, <1>6
<1> QED
  BY <1>7, BytesFinite, FS_CardinalityType

\* Counts add up.
LEMMA TotalAdds ==
  ASSUME NEW S \in SUBSET Things, NEW T \in SUBSET Things, S \cap T = {}
  PROVE  TotalSize(S \cup T) = TotalSize(S) + TotalSize(T)
  BY TotalIsBytes, BytesSplit

LEMMA TotalOfOne ==
  ASSUME NEW t \in Things  PROVE TotalSize({t}) = Size[t]
<1>1. Bytes({t}) = {t} \X (1 .. Size[t])
  BY DEF Bytes
<1> QED
  BY <1>1, TotalIsBytes, BytesOfOne

LEMMA TotalOfNone == TotalSize({}) = 0
<1>1. Bytes({}) = {}
  BY DEF Bytes
<1> QED
  BY <1>1, TotalIsBytes, FS_EmptySet

-----------------------------------------------------------------------------
\* What a strict snapshot takes

\* Dividing the room by the size of a player never gives more than the room.
LEMMA Quotient ==
  ASSUME NEW a \in Nat, NEW b \in Nat \ {0}
  PROVE  a \div b \in Nat /\ (a \div b) * b <= a /\ (a \div b) * b \in Nat
  OBVIOUS

\* The vehicle of the player fits, and leaves something to the others.
LEMMA OwnFits ==
  ASSUME NEW w \in Worlds
  PROVE  /\ w.own \in SUBSET Vehicles /\ w.own \in SUBSET Things
         /\ Left(w) \in Nat /\ Left(w) + TotalSize(w.own) = Room
<1>1. w.own \in {{}} \cup {{v} : v \in Vehicles}
  BY InterestAssumption DEF World
<1>2. w.own \in SUBSET Vehicles /\ w.own \in SUBSET Things
  BY <1>1 DEF Things
<1>3. TotalSize(w.own) \in Nat /\ Room \in Nat
  BY <1>2, TotalIsBytes, InterestAssumption
<1>4. TotalSize(w.own) <= Room
  <2>1. CASE w.own = {}
    BY <2>1, TotalOfNone, InterestAssumption
  <2>2. CASE w.own # {}
    <3>1. PICK v \in Vehicles : w.own = {v}
      BY <1>1, <2>2
    <3>2. v \in Things /\ Size[v] <= Room
      BY InterestAssumption DEF Things
    <3> QED
      BY <3>1, <3>2, TotalOfOne
  <2> QED
    BY <2>1, <2>2
<1>5. Left(w) = Room - TotalSize(w.own)
  BY DEF Left
<1> QED
  BY <1>2, <1>3, <1>4, <1>5

\* The players that are told of, the own vehicle, the vehicles and the bodies
\* taken have room together.
LEMMA TakenFits ==
  ASSUME NEW w \in Worlds, NEW near \in 0 .. MaxNear, NEW fit, NEW room,
         fit = (IF near * PlayerSize <= Left(w) THEN near ELSE Left(w) \div PlayerSize),
         room = Left(w) - fit * PlayerSize,
         NEW V \in SUBSET Vehicles, NEW B \in SUBSET Bodies,
         ChosenVehicles(w, V, room), ChosenBodies(w, B, room - TotalSize(V))
  PROVE  /\ w.own \cup V \cup B \in SUBSET Things
         /\ fit * PlayerSize + TotalSize(w.own \cup V \cup B) \in Nat
         /\ fit * PlayerSize + TotalSize(w.own \cup V \cup B) <= Room
<1>1. PlayerSize \in Nat \ {0} /\ near \in Nat /\ Room \in Nat
  BY InterestAssumption
<1>2. /\ w.own \in SUBSET Vehicles /\ w.own \in SUBSET Things
      /\ Left(w) \in Nat /\ Left(w) + TotalSize(w.own) = Room
  BY OwnFits
<1>3. fit \in Nat /\ fit * PlayerSize <= Left(w) /\ fit * PlayerSize \in Nat
  <2>1. near * PlayerSize \in Nat
    BY <1>1
  <2>2. /\ Left(w) \div PlayerSize \in Nat
        /\ (Left(w) \div PlayerSize) * PlayerSize <= Left(w)
        /\ (Left(w) \div PlayerSize) * PlayerSize \in Nat
    BY <1>1, <1>2, Quotient
  <2>3. CASE near * PlayerSize <= Left(w)
    BY <1>1, <2>1, <2>3
  <2>4. CASE ~(near * PlayerSize <= Left(w))
    BY <2>2, <2>4
  <2> QED
    BY <2>3, <2>4
<1>4. /\ V \in SUBSET Things /\ B \in SUBSET Things
      /\ w.own \cup V \in SUBSET Things /\ w.own \cup V \cup B \in SUBSET Things
  BY <1>2 DEF Things
<1>5. w.own \cap V = {} /\ (w.own \cup V) \cap B = {}
  BY <1>2, InterestAssumption DEF ChosenVehicles
<1>6. TotalSize(w.own \cup V \cup B) = TotalSize(w.own) + TotalSize(V) + TotalSize(B)
  <2>1. TotalSize(w.own \cup V \cup B) = TotalSize(w.own \cup V) + TotalSize(B)
    BY <1>4, <1>5, TotalAdds
  <2>2. TotalSize(w.own \cup V) = TotalSize(w.own) + TotalSize(V)
    BY <1>2, <1>4, <1>5, TotalAdds
  <2> QED
    BY <2>1, <2>2
<1>7. TotalSize(w.own) \in Nat /\ TotalSize(V) \in Nat /\ TotalSize(B) \in Nat
  BY <1>2, <1>4, TotalIsBytes
<1>8. TotalSize(V) <= room /\ TotalSize(B) <= room - TotalSize(V)
  BY DEF ChosenVehicles, ChosenBodies
<1>9. \A p, l, o, v, b \in Nat :
        /\ l + o = Room /\ p <= l /\ v <= l - p /\ b <= l - p - v
        => p + (o + v + b) \in Nat /\ p + (o + v + b) <= Room
  BY <1>1
<1> QED
  BY <1>2, <1>3, <1>4, <1>6, <1>7, <1>8, <1>9

-----------------------------------------------------------------------------
\* Where a thing is in what the client was told.  Since: the tick since which
\* the client should have heard of it.  Refreshed: from there on, and from when
\* it was last left out, no Refresh snapshots go by without it.

Since(seen, last) == IF seen = 0 THEN last ELSE seen

Refreshed(n, since, out, had) ==
  \A j \in 0 .. n : j >= since /\ j >= out /\ j + Refresh <= n =>
    \E k \in had : j < k /\ k <= j + Refresh

\* What the server takes for sent was sent in a snapshot that had it.
SentIsCarried(sent, since, had) == sent > since => sent \in had

Told(t) ==
  /\ Refreshed(tick, Since(lastSeen[t], latest), excused[t], carried[t])
  /\ SentIsCarried(lastSent[t], Since(lastSeen[t], latest), carried[t])

InterestInv == InterestTypeOK /\ Fits /\ \A t \in Things : Told(t)

\* One more snapshot: it has the thing, or leaves it out for cause, or the thing
\* was sent less than Refresh snapshots ago.
LEMMA OneMore ==
  ASSUME NEW n \in Nat, NEW since \in 0 .. n, NEW out \in 0 .. n, NEW sent \in 0 .. n,
         NEW had \in SUBSET (1 .. n), NEW had2, had \subseteq had2,
         NEW out2 \in {out, n + 1},
         Refreshed(n, since, out, had), SentIsCarried(sent, since, had),
         out2 = n + 1 \/ n + 1 \in had2 \/ (sent # 0 /\ ~(n + 1 - sent >= Refresh))
  PROVE  Refreshed(n + 1, since, out2, had2)
<1> Refresh \in Nat \ {0}
  BY InterestAssumption
<1> SUFFICES ASSUME NEW j \in 0 .. n + 1,
                    j >= since, j >= out2, j + Refresh <= n + 1
             PROVE  \E k \in had2 : j < k /\ k <= j + Refresh
  BY DEF Refreshed
<1>1. j \in 0 .. n /\ j >= out
  OBVIOUS
<1>2. CASE j + Refresh <= n
  BY <1>1, <1>2 DEF Refreshed
<1>3. CASE j + Refresh = n + 1
  <2>1. out2 # n + 1
    BY <1>3
  <2>2. CASE n + 1 \in had2
    BY <1>1, <1>3, <2>2
  <2>3. CASE ~(n + 1 - sent >= Refresh)
    <3>1. sent > j /\ sent <= n
      BY <1>1, <1>3, <2>3
    <3>2. sent \in had
      BY <1>1, <3>1 DEF SentIsCarried
    <3> QED
      BY <1>3, <3>1, <3>2
  <2> QED
    BY <2>1, <2>2, <2>3
<1> QED
  BY <1>1, <1>2, <1>3

\* A snapshot arrives: what is older than what the client shows is history.
LEMMA Arrives ==
  ASSUME NEW n \in Nat, NEW since \in 0 .. n, NEW since2 \in 0 .. n, since <= since2,
         NEW seen2 \in 0 .. n, seen2 <= since2, NEW out \in 0 .. n, NEW sent \in 0 .. n,
         NEW had \in SUBSET (1 .. n),
         Refreshed(n, since, out, had), SentIsCarried(sent, since, had)
  PROVE  /\ Refreshed(n, since2, IF out > seen2 THEN out ELSE 0, {k \in had : k > seen2})
         /\ SentIsCarried(sent, since2, {k \in had : k > seen2})
<1> Refresh \in Nat \ {0}
  BY InterestAssumption
<1>1. Refreshed(n, since2, IF out > seen2 THEN out ELSE 0, {k \in had : k > seen2})
  <2> SUFFICES ASSUME NEW j \in 0 .. n, j >= since2, j + Refresh <= n,
                      j >= (IF out > seen2 THEN out ELSE 0)
               PROVE  \E k \in {i \in had : i > seen2} : j < k /\ k <= j + Refresh
    BY DEF Refreshed
  <2>1. j >= since /\ j >= out
    OBVIOUS
  <2>2. PICK k \in had : j < k /\ k <= j + Refresh
    BY <2>1 DEF Refreshed
  <2> QED
    BY <2>2
<1>2. SentIsCarried(sent, since2, {k \in had : k > seen2})
  BY DEF SentIsCarried
<1> QED
  BY <1>1, <1>2

-----------------------------------------------------------------------------
\* InterestInv is inductive.

\* What is known of one thing.
LEMMA OfOne ==
  ASSUME InterestTypeOK, NEW t \in Things
  PROVE  /\ tick \in Nat /\ latest \in 0 .. tick
         /\ lastSent[t] \in 0 .. tick /\ lastSeen[t] \in 0 .. latest
         /\ lastSeen[t] \in 0 .. tick /\ excused[t] \in 0 .. tick
         /\ carried[t] \in SUBSET (1 .. tick) /\ carried[t] \subseteq Nat
         /\ \A k \in carried[t] : k > lastSeen[t]
         /\ Since(lastSeen[t], latest) \in 0 .. tick
         /\ lastSeen[t] <= Since(lastSeen[t], latest)
         /\ Since(lastSeen[t], latest) <= latest
<1>1. /\ tick \in Nat /\ latest \in 0 .. tick
      /\ lastSent[t] \in 0 .. tick /\ lastSeen[t] \in 0 .. latest
      /\ excused[t] \in 0 .. tick /\ carried[t] \in SUBSET (1 .. tick)
      /\ \A k \in carried[t] : k > lastSeen[t]
  BY InterestAssumption DEF InterestTypeOK
<1> QED
  BY <1>1 DEF Since

LEMMA InterestStarts == InterestInit => InterestInv
<1> SUFFICES ASSUME InterestInit PROVE InterestInv
  OBVIOUS
<1> USE DEF InterestInit
<1>1. InterestTypeOK
  BY InterestAssumption DEF InterestTypeOK
<1>2. Fits
  BY DEF Fits
<1>3. ASSUME NEW t \in Things PROVE Told(t)
  <2>1. /\ tick = 0 /\ lastSent[t] = 0 /\ Since(lastSeen[t], latest) = 0
        /\ Refresh \in Nat \ {0}
    BY InterestAssumption DEF Since
  <2>2. Refreshed(tick, Since(lastSeen[t], latest), excused[t], carried[t])
    BY <2>1 DEF Refreshed
  <2>3. SentIsCarried(lastSent[t], Since(lastSeen[t], latest), carried[t])
    BY <2>1 DEF SentIsCarried
  <2> QED
    BY <2>2, <2>3 DEF Told
<1> QED
  BY <1>1, <1>2, <1>3 DEF InterestInv

\* What both kinds of snapshot do.
LEMMA EmitKeeps ==
  ASSUME InterestTypeOK, Fits,
         NEW C \in SUBSET Things, NEW size \in Nat, size <= Room, Emit(C, size)
  PROVE  /\ tick' = tick + 1 /\ tick' \in 0 .. MaxTick
         /\ strict' \in BOOLEAN /\ latest' = latest /\ lastSeen' = lastSeen
         /\ latest' \in 0 .. tick' /\ lastSeen' \in [Things -> 0 .. latest']
         /\ flight' \subseteq [tick : 1 .. tick', has : SUBSET Things, size : Nat]
         /\ carried' \in [Things -> SUBSET (1 .. tick')]
         /\ \A t \in Things : \A k \in carried'[t] : k > lastSeen'[t]
         /\ \A t \in Things : /\ carried[t] \subseteq carried'[t]
                              /\ t \in C => tick + 1 \in carried'[t]
         /\ Fits'
<1>1. /\ tick \in Nat /\ latest \in 0 .. tick /\ tick <= MaxTick /\ MaxTick \in Nat
      /\ flight \subseteq [tick : 1 .. tick, has : SUBSET Things, size : Nat]
      /\ lastSeen \in [Things -> 0 .. latest] /\ carried \in [Things -> SUBSET (1 .. tick)]
  BY InterestAssumption DEF InterestTypeOK
<1>2. /\ tick' = tick + 1 /\ tick < MaxTick
      /\ strict' = strict /\ latest' = latest /\ lastSeen' = lastSeen
  BY DEF Emit
<1>3. tick' \in 0 .. MaxTick /\ latest' \in 0 .. tick' /\ lastSeen' \in [Things -> 0 .. latest']
  BY <1>1, <1>2
<1>4. strict' \in BOOLEAN
  BY <1>2 DEF InterestTypeOK
<1>5. /\ flight' \subseteq [tick : 1 .. tick', has : SUBSET Things, size : Nat]
      /\ Fits'
  <2> DEFINE m == [tick |-> tick + 1, has |-> C, size |-> size]
  <2>1. flight' \subseteq flight \cup {m}
    BY DEF Emit
  <2>2. m \in [tick : 1 .. tick', has : SUBSET Things, size : Nat] /\ m.size <= Room
    BY <1>1, <1>2
  <2>3. \A i \in flight : i \in [tick : 1 .. tick', has : SUBSET Things, size : Nat]
    <3> SUFFICES ASSUME NEW i \in flight
                 PROVE  i \in [tick : 1 .. tick', has : SUBSET Things, size : Nat]
      OBVIOUS
    <3>1. i \in [tick : 1 .. tick, has : SUBSET Things, size : Nat]
      BY <1>1
    <3>2. i.tick \in 1 .. tick /\ i.tick \in 1 .. tick'
      BY <1>1, <1>2, <3>1
    <3> QED
      BY <3>1, <3>2
  <2> HIDE DEF m
  <2> QED
    BY <2>1, <2>2, <2>3 DEF Fits
<1>6. carried' = [t \in Things |-> IF t \in C THEN carried[t] \cup {tick + 1} ELSE carried[t]]
  BY DEF Emit
<1>7. \A t \in Things :
        /\ carried'[t] \in SUBSET (1 .. tick') /\ carried[t] \subseteq carried'[t]
        /\ t \in C => tick + 1 \in carried'[t]
        /\ \A k \in carried'[t] : k > lastSeen'[t]
  <2> SUFFICES ASSUME NEW t \in Things
      PROVE  /\ carried'[t] \in SUBSET (1 .. tick') /\ carried[t] \subseteq carried'[t]
             /\ t \in C => tick + 1 \in carried'[t]
             /\ \A k \in carried'[t] : k > lastSeen'[t]
    OBVIOUS
  <2>1. /\ lastSeen[t] \in 0 .. tick /\ carried[t] \in SUBSET (1 .. tick)
        /\ \A k \in carried[t] : k > lastSeen[t]
    BY OfOne
  <2>2. carried'[t] = IF t \in C THEN carried[t] \cup {tick + 1} ELSE carried[t]
    BY <1>6
  <2>3. 1 .. tick \subseteq 1 .. tick' /\ tick + 1 \in 1 .. tick'
    BY <1>1, <1>2
  <2>4. carried'[t] \in SUBSET (1 .. tick') /\ carried[t] \subseteq carried'[t]
    BY <2>1, <2>2, <2>3
  <2>5. \A k \in carried'[t] : k > lastSeen'[t]
    BY <1>1, <1>2, <2>1, <2>2
  <2> QED
    BY <2>2, <2>4, <2>5
<1>8. carried' \in [Things -> SUBSET (1 .. tick')]
  BY <1>6, <1>7
<1> QED
  BY <1>2, <1>3, <1>4, <1>5, <1>7, <1>8

LEMMA StrictKeeps ==
  ASSUME InterestInv, StrictSnapshot  PROVE InterestInv'
<1>1. PICK w \in Worlds, near \in 0 .. MaxNear :
        LET fit == IF near * PlayerSize <= Left(w) THEN near
                   ELSE Left(w) \div PlayerSize
            room == Left(w) - fit * PlayerSize
        IN  \E V \in SUBSET Vehicles, B \in SUBSET Bodies :
              /\ ChosenVehicles(w, V, room)
              /\ ChosenBodies(w, B, room - TotalSize(V))
              /\ LET C == w.own \cup V \cup B IN
                 /\ Emit(C, fit * PlayerSize + TotalSize(C))
                 /\ lastSent' = Marked(w, C)
                 /\ excused' = [t \in Things |->
                      IF t \notin InRange(w) \/ (NeedsRefresh(t) /\ t \notin C) THEN tick + 1
                      ELSE excused[t]]
  BY DEF StrictSnapshot
<1>2. PICK fit, room :
        /\ fit = (IF near * PlayerSize <= Left(w) THEN near ELSE Left(w) \div PlayerSize)
        /\ room = Left(w) - fit * PlayerSize
  OBVIOUS
<1>3. PICK V \in SUBSET Vehicles, B \in SUBSET Bodies :
        /\ ChosenVehicles(w, V, room)
        /\ ChosenBodies(w, B, room - TotalSize(V))
        /\ Emit(w.own \cup V \cup B, fit * PlayerSize + TotalSize(w.own \cup V \cup B))
        /\ lastSent' = Marked(w, w.own \cup V \cup B)
        /\ excused' = [t \in Things |->
             IF t \notin InRange(w) \/ (NeedsRefresh(t) /\ t \notin w.own \cup V \cup B)
             THEN tick + 1 ELSE excused[t]]
  BY <1>1, <1>2
<1>4. /\ w.own \cup V \cup B \in SUBSET Things
      /\ fit * PlayerSize + TotalSize(w.own \cup V \cup B) \in Nat
      /\ fit * PlayerSize + TotalSize(w.own \cup V \cup B) <= Room
  BY <1>2, <1>3, TakenFits
<1>5. PICK C, size : C = w.own \cup V \cup B /\ size = fit * PlayerSize + TotalSize(C)
  OBVIOUS
<1>6. /\ C \in SUBSET Things /\ size \in Nat /\ size <= Room /\ Emit(C, size)
      /\ lastSent' = [t \in Things |-> IF t \in C THEN tick + 1 ELSE lastSent[t]]
      /\ excused' = [t \in Things |->
           IF t \notin InRange(w) \/ (NeedsRefresh(t) /\ t \notin C) THEN tick + 1
           ELSE excused[t]]
  BY <1>3, <1>4, <1>5 DEF Marked
<1>7. /\ tick' = tick + 1 /\ tick' \in 0 .. MaxTick
      /\ strict' \in BOOLEAN /\ latest' = latest /\ lastSeen' = lastSeen
      /\ latest' \in 0 .. tick' /\ lastSeen' \in [Things -> 0 .. latest']
      /\ flight' \subseteq [tick : 1 .. tick', has : SUBSET Things, size : Nat]
      /\ carried' \in [Things -> SUBSET (1 .. tick')]
      /\ \A t \in Things : \A k \in carried'[t] : k > lastSeen'[t]
      /\ \A t \in Things : /\ carried[t] \subseteq carried'[t]
                           /\ t \in C => tick + 1 \in carried'[t]
      /\ Fits'
  BY <1>6, EmitKeeps DEF InterestInv
<1>8. ASSUME NEW t \in Things
      PROVE  lastSent'[t] \in 0 .. tick' /\ excused'[t] \in 0 .. tick' /\ Told(t)'
  <2>1. /\ tick \in Nat /\ Since(lastSeen[t], latest) \in 0 .. tick
        /\ lastSent[t] \in 0 .. tick /\ excused[t] \in 0 .. tick
        /\ carried[t] \in SUBSET (1 .. tick)
    BY OfOne DEF InterestInv
  <2>2. /\ Refreshed(tick, Since(lastSeen[t], latest), excused[t], carried[t])
        /\ SentIsCarried(lastSent[t], Since(lastSeen[t], latest), carried[t])
    BY DEF InterestInv, Told
  <2>3. lastSent'[t] = IF t \in C THEN tick + 1 ELSE lastSent[t]
    BY <1>6
  <2>4. excused'[t] = IF t \notin InRange(w) \/ (NeedsRefresh(t) /\ t \notin C)
                      THEN tick + 1 ELSE excused[t]
    BY <1>6
  <2>5. \/ excused'[t] = tick + 1 \/ tick + 1 \in carried'[t]
        \/ lastSent[t] # 0 /\ ~(tick + 1 - lastSent[t] >= Refresh)
    BY <1>7, <2>4 DEF NeedsRefresh
  <2>6. excused'[t] \in {excused[t], tick + 1} /\ carried[t] \subseteq carried'[t]
    BY <1>7, <2>4
  <2>7. Refreshed(tick + 1, Since(lastSeen[t], latest), excused'[t], carried'[t])
    BY <2>1, <2>2, <2>5, <2>6, OneMore
  <2>8. SentIsCarried(lastSent'[t], Since(lastSeen[t], latest), carried'[t])
    BY <1>7, <2>2, <2>3, <2>6 DEF SentIsCarried
  <2>9. Told(t)'
    BY <1>7, <2>7, <2>8 DEF Told
  <2>10. lastSent'[t] \in 0 .. tick' /\ excused'[t] \in 0 .. tick'
    BY <1>7, <2>1, <2>3, <2>6
  <2> QED
    BY <2>9, <2>10
<1>9. lastSent' \in [Things -> 0 .. tick'] /\ excused' \in [Things -> 0 .. tick']
  BY <1>6, <1>8
<1>10. InterestTypeOK'
  BY <1>7, <1>9 DEF InterestTypeOK
<1> QED
  BY <1>7, <1>8, <1>10 DEF InterestInv

LEMMA WholeKeeps ==
  ASSUME InterestInv, WholeSnapshot  PROVE InterestInv'
<1>1. PICK S \in SUBSET Things :
        /\ Emit(S, 0)
        /\ excused' = [t \in Things |-> IF t \in S THEN excused[t] ELSE tick + 1]
  BY DEF WholeSnapshot
<1>2. lastSent' = lastSent
  BY DEF WholeSnapshot
<1>3. 0 \in Nat /\ 0 <= Room
  BY InterestAssumption
<1>4. /\ tick' = tick + 1 /\ tick' \in 0 .. MaxTick
      /\ strict' \in BOOLEAN /\ latest' = latest /\ lastSeen' = lastSeen
      /\ latest' \in 0 .. tick' /\ lastSeen' \in [Things -> 0 .. latest']
      /\ flight' \subseteq [tick : 1 .. tick', has : SUBSET Things, size : Nat]
      /\ carried' \in [Things -> SUBSET (1 .. tick')]
      /\ \A t \in Things : \A k \in carried'[t] : k > lastSeen'[t]
      /\ \A t \in Things : /\ carried[t] \subseteq carried'[t]
                           /\ t \in S => tick + 1 \in carried'[t]
      /\ Fits'
  BY <1>1, <1>3, EmitKeeps DEF InterestInv
<1>5. ASSUME NEW t \in Things
      PROVE  lastSent'[t] \in 0 .. tick' /\ excused'[t] \in 0 .. tick' /\ Told(t)'
  <2>1. /\ tick \in Nat /\ Since(lastSeen[t], latest) \in 0 .. tick
        /\ lastSent[t] \in 0 .. tick /\ excused[t] \in 0 .. tick
        /\ carried[t] \in SUBSET (1 .. tick)
    BY OfOne DEF InterestInv
  <2>2. /\ Refreshed(tick, Since(lastSeen[t], latest), excused[t], carried[t])
        /\ SentIsCarried(lastSent[t], Since(lastSeen[t], latest), carried[t])
    BY DEF InterestInv, Told
  <2>3. excused'[t] = IF t \in S THEN excused[t] ELSE tick + 1
    BY <1>1
  <2>4. excused'[t] = tick + 1 \/ tick + 1 \in carried'[t]
    BY <1>4, <2>3
  <2>5. excused'[t] \in {excused[t], tick + 1} /\ carried[t] \subseteq carried'[t]
    BY <1>4, <2>3
  <2>6. Refreshed(tick + 1, Since(lastSeen[t], latest), excused'[t], carried'[t])
    BY <2>1, <2>2, <2>4, <2>5, OneMore
  <2>7. SentIsCarried(lastSent'[t], Since(lastSeen[t], latest), carried'[t])
    BY <1>2, <2>2, <2>5 DEF SentIsCarried
  <2>8. Told(t)'
    BY <1>4, <2>6, <2>7 DEF Told
  <2>9. lastSent'[t] \in 0 .. tick' /\ excused'[t] \in 0 .. tick'
    BY <1>2, <1>4, <2>1, <2>5
  <2> QED
    BY <2>8, <2>9
<1>6. lastSent' \in [Things -> 0 .. tick'] /\ excused' \in [Things -> 0 .. tick']
  <2>1. lastSent \in [Things -> 0 .. tick]
    BY DEF InterestInv, InterestTypeOK
  <2> QED
    BY <1>1, <1>2, <1>5, <2>1
<1>7. InterestTypeOK'
  BY <1>4, <1>6 DEF InterestTypeOK
<1> QED
  BY <1>4, <1>5, <1>7 DEF InterestInv

\* What arrives is never older than what is shown.
LEMMA AcceptMoves ==
  ASSUME InterestTypeOK, NEW m \in flight, Accept(m), NEW t \in Things
  PROVE  /\ latest' \in 0 .. tick /\ latest <= latest'
         /\ lastSeen'[t] \in 0 .. latest' /\ lastSeen'[t] \in 0 .. tick
         /\ Since(lastSeen'[t], latest') \in 0 .. tick
         /\ Since(lastSeen[t], latest) <= Since(lastSeen'[t], latest')
         /\ lastSeen'[t] <= Since(lastSeen'[t], latest')
<1>1. /\ tick \in Nat /\ latest \in 0 .. tick /\ lastSeen[t] \in 0 .. latest
      /\ m.tick \in 1 .. tick /\ Stale \in Nat
  BY OfOne, InterestAssumption DEF InterestTypeOK
<1>2. CASE ~Newer(m)
  <2>1. latest' = latest /\ lastSeen' = lastSeen
    BY <1>2 DEF Accept
  <2> QED
    BY <1>1, <2>1 DEF Since
<1>3. CASE Newer(m)
  <2> DEFINE seen == [i \in Things |-> IF i \in m.has THEN m.tick ELSE lastSeen[i]]
  <2>1. /\ latest' = m.tick /\ m.tick > latest
        /\ lastSeen' = [i \in Things |-> IF i \in Forgotten(m, seen) THEN 0 ELSE seen[i]]
    BY <1>3 DEF Accept, Newer
  <2>2. lastSeen'[t] = 0 \/ lastSeen'[t] = m.tick \/ lastSeen'[t] = lastSeen[t]
    BY <2>1
  <2> QED
    BY <1>1, <2>1, <2>2 DEF Since
<1> QED
  BY <1>2, <1>3

LEMMA AcceptKeeps ==
  ASSUME InterestInv, NEW m \in flight, Accept(m)  PROVE InterestInv'
<1> InterestTypeOK
  BY DEF InterestInv
<1>1. strict' = strict /\ tick' = tick /\ lastSent' = lastSent /\ flight' \subseteq flight
  BY DEF Accept
<1>2. /\ carried' = [t \in Things |-> {k \in carried[t] : k > lastSeen'[t]}]
      /\ excused' = [t \in Things |-> IF excused[t] > lastSeen'[t] THEN excused[t] ELSE 0]
  BY DEF Accept
<1>3. lastSeen' \in [Things -> 0 .. latest']
  <2>1. lastSeen' = [t \in Things |-> lastSeen'[t]]
    BY DEF Accept, InterestTypeOK
  <2> QED
    BY <2>1, AcceptMoves
<1>4. latest' \in 0 .. tick
  <2>1. CASE ~Newer(m)
    BY <2>1 DEF Accept, InterestTypeOK
  <2>2. CASE Newer(m)
    BY <2>2 DEF Accept, InterestTypeOK
  <2> QED
    BY <2>1, <2>2
<1>5. ASSUME NEW t \in Things
      PROVE  /\ carried'[t] \in SUBSET (1 .. tick) /\ excused'[t] \in 0 .. tick
             /\ \A k \in carried'[t] : k > lastSeen'[t]
             /\ Told(t)'
  <2>1. /\ tick \in Nat /\ Since(lastSeen[t], latest) \in 0 .. tick
        /\ lastSent[t] \in 0 .. tick /\ excused[t] \in 0 .. tick
        /\ carried[t] \in SUBSET (1 .. tick)
    BY OfOne
  <2>2. /\ Refreshed(tick, Since(lastSeen[t], latest), excused[t], carried[t])
        /\ SentIsCarried(lastSent[t], Since(lastSeen[t], latest), carried[t])
    BY DEF InterestInv, Told
  <2>3. /\ lastSeen'[t] \in 0 .. tick /\ Since(lastSeen'[t], latest') \in 0 .. tick
        /\ Since(lastSeen[t], latest) <= Since(lastSeen'[t], latest')
        /\ lastSeen'[t] <= Since(lastSeen'[t], latest')
    BY AcceptMoves
  <2>4. /\ carried'[t] = {k \in carried[t] : k > lastSeen'[t]}
        /\ excused'[t] = IF excused[t] > lastSeen'[t] THEN excused[t] ELSE 0
    BY <1>2
  <2>5. /\ Refreshed(tick, Since(lastSeen'[t], latest'), excused'[t], carried'[t])
        /\ SentIsCarried(lastSent[t], Since(lastSeen'[t], latest'), carried'[t])
    <3>1. PICK seen, since : seen = lastSeen'[t] /\ since = Since(lastSeen'[t], latest')
      OBVIOUS
    <3>2. /\ seen \in 0 .. tick /\ since \in 0 .. tick /\ seen <= since
          /\ Since(lastSeen[t], latest) <= since
      BY <2>3, <3>1
    <3>3. /\ Refreshed(tick, since, IF excused[t] > seen THEN excused[t] ELSE 0,
                       {k \in carried[t] : k > seen})
          /\ SentIsCarried(lastSent[t], since, {k \in carried[t] : k > seen})
      BY <2>1, <2>2, <3>2, Arrives
    <3> QED
      BY <2>4, <3>1, <3>3
  <2>6. Told(t)'
    BY <1>1, <2>5 DEF Told
  <2>7. /\ carried'[t] \in SUBSET (1 .. tick) /\ excused'[t] \in 0 .. tick
        /\ \A k \in carried'[t] : k > lastSeen'[t]
    BY <2>1, <2>4
  <2> QED
    BY <2>6, <2>7
<1>6. /\ carried' \in [Things -> SUBSET (1 .. tick')] /\ excused' \in [Things -> 0 .. tick']
  BY <1>1, <1>2, <1>5
<1>7. /\ strict' \in BOOLEAN /\ tick' \in 0 .. MaxTick
      /\ lastSent' \in [Things -> 0 .. tick']
      /\ flight' \subseteq [tick : 1 .. tick', has : SUBSET Things, size : Nat]
  BY <1>1 DEF InterestTypeOK
<1>8. InterestTypeOK'
  BY <1>1, <1>3, <1>4, <1>5, <1>6, <1>7 DEF InterestTypeOK
<1>9. Fits'
  BY <1>1 DEF InterestInv, Fits
<1> QED
  BY <1>5, <1>8, <1>9 DEF InterestInv

LEMMA LoseKeeps ==
  ASSUME InterestInv, NEW m \in flight, LoseDatagram(m)  PROVE InterestInv'
<1>1. /\ flight' \subseteq flight
      /\ UNCHANGED <<strict, tick, lastSent, latest, lastSeen, carried, excused>>
  BY DEF LoseDatagram
<1>2. InterestTypeOK'
  BY <1>1 DEF InterestInv, InterestTypeOK
<1>3. Fits'
  BY <1>1 DEF InterestInv, Fits
<1>4. \A t \in Things : Told(t)'
  BY <1>1 DEF InterestInv, Told
<1> QED
  BY <1>2, <1>3, <1>4 DEF InterestInv

LEMMA InterestStays ==
  ASSUME InterestInv, UNCHANGED interestVars  PROVE InterestInv'
<1>1. UNCHANGED <<strict, tick, lastSent, flight, latest, lastSeen, carried, excused>>
  BY DEF interestVars
<1>2. InterestTypeOK'
  BY <1>1 DEF InterestInv, InterestTypeOK
<1>3. Fits'
  BY <1>1 DEF InterestInv, Fits
<1>4. \A t \in Things : Told(t)'
  BY <1>1 DEF InterestInv, Told
<1> QED
  BY <1>2, <1>3, <1>4 DEF InterestInv

LEMMA InterestInductive ==
  ASSUME InterestInv, [InterestNext]_interestVars  PROVE InterestInv'
<1>1. CASE StrictSnapshot
  BY <1>1, StrictKeeps
<1>2. CASE WholeSnapshot
  BY <1>2, WholeKeeps
<1>3. CASE \E m \in flight : Accept(m) \/ LoseDatagram(m)
  BY <1>3, AcceptKeeps, LoseKeeps
<1>4. CASE UNCHANGED interestVars
  BY <1>4, InterestStays
<1> QED
  BY <1>1, <1>2, <1>3, <1>4 DEF InterestNext

\* The types, the sizes and the history of what the client was told.
THEOREM InterestInvariance == InterestSpec => []InterestInv
<1> QED
  BY InterestStarts, InterestInductive, PTL DEF InterestSpec

\* Every strict snapshot fits its datagram, whatever the sizes, the room and
\* the worlds, as long as a vehicle fits a datagram at all.
THEOREM SnapshotsFit == InterestSpec => []Fits
<1>1. InterestInv => Fits
  BY DEF InterestInv
<1> QED
  BY <1>1, InterestInvariance, PTL

-----------------------------------------------------------------------------
\* What vanishes

LEMMA Multiples ==
  ASSUME NEW r \in Nat \ {0}, NEW i \in Nat, NEW k \in Nat, i < k
  PROVE  i * r + r <= k * r /\ i * r \in Nat /\ k * r \in Nat
<1>1. PICK d \in Nat : k = i + 1 + d
  <2>1. k - i - 1 \in Nat /\ k = i + 1 + (k - i - 1)
    OBVIOUS
  <2> QED
    BY <2>1
<1>2. k * r = i * r + r + d * r /\ d * r \in Nat /\ i * r \in Nat /\ k * r \in Nat
  BY <1>1
<1> QED
  BY <1>2

\* What was in range and never left out was in a snapshot of every stretch of
\* Refresh snapshots: as many as there are whole stretches.
LEMMA Stretches ==
  ASSUME NEW n \in Nat, NEW since \in 0 .. n, NEW q \in Nat, since + q * Refresh <= n,
         NEW had \in SUBSET (1 .. n), Refreshed(n, since, 0, had)
  PROVE  Cardinality(had) >= q
<1> Refresh \in Nat \ {0}
  BY InterestAssumption
<1> DEFINE During(i) == {k \in had : /\ since + (i - 1) * Refresh < k
                                   /\ k <= since + (i - 1) * Refresh + Refresh}
<1>1. ASSUME NEW i \in 1 .. q PROVE During(i) # {}
  <2>1. PICK e \in Nat : e = i - 1
    OBVIOUS
  <2>2. e < q
    BY <2>1
  <2>3. e * Refresh + Refresh <= q * Refresh /\ e * Refresh \in Nat /\ q * Refresh \in Nat
    BY <2>2, Multiples
  <2>4. PICK j : j = since + e * Refresh
    OBVIOUS
  <2>5. j \in 0 .. n /\ j >= since /\ j >= 0 /\ j + Refresh <= n
    BY <2>3, <2>4
  <2>6. PICK k \in had : j < k /\ k <= j + Refresh
    BY <2>5 DEF Refreshed
  <2> QED
    BY <2>1, <2>4, <2>6
<1> DEFINE f == [i \in 1 .. q |-> CHOOSE k \in During(i) : TRUE]
<1>2. ASSUME NEW i \in 1 .. q
      PROVE  /\ f[i] \in had /\ f[i] \in Nat /\ since + (i - 1) * Refresh < f[i]
             /\ f[i] <= since + (i - 1) * Refresh + Refresh
  <2>1. f[i] \in During(i)
    BY <1>1
  <2>2. had \subseteq Nat
    OBVIOUS
  <2> HIDE DEF f
  <2> QED
    BY <2>1, <2>2
<1>3. ASSUME NEW i \in 1 .. q, NEW k \in 1 .. q, i < k  PROVE f[i] < f[k]
  <2>1. PICK d \in Nat, e \in Nat : d = i - 1 /\ e = k - 1
    OBVIOUS
  <2>2. d < e
    BY <1>3, <2>1
  <2>3. d * Refresh + Refresh <= e * Refresh /\ d * Refresh \in Nat /\ e * Refresh \in Nat
    BY <2>2, Multiples
  <2>4. /\ f[i] <= since + d * Refresh + Refresh /\ since + e * Refresh < f[k]
        /\ f[i] \in Nat /\ f[k] \in Nat
    <3> HIDE DEF f
    <3> QED
      BY <1>2, <2>1
  <2> HIDE DEF f
  <2> QED
    BY <2>3, <2>4
<1>4. f \in Injection(1 .. q, had)
  <2>1. f \in [1 .. q -> had]
    BY <1>2
  <2> HIDE DEF f
  <2>2. \A i \in 1 .. q : f[i] \in Nat
    BY <1>2
  <2>3. ASSUME NEW i \in 1 .. q, NEW k \in 1 .. q, f[i] = f[k]  PROVE i = k
    BY <1>3, <2>2, <2>3
  <2> QED
    BY <2>1, <2>3 DEF Injection, IsInjective
<1>5. IsFiniteSet(had)
  <2>1. IsFiniteSet(1 .. n)
    BY FS_Interval
  <2> QED
    BY <2>1, FS_Subset
<1>6. Cardinality(1 .. q) <= Cardinality(had)
  BY <1>4, <1>5, FS_Injection
<1>7. Cardinality(1 .. q) = q
  BY FS_Interval
<1>8. Cardinality(had) \in Nat
  BY <1>5, FS_CardinalityType
<1> QED
  BY <1>6, <1>7, <1>8

\* A thing vanishes when a snapshot arrives that lacks it, more than Stale after
\* the last that had it.
LEMMA Vanishing ==
  ASSUME InterestInv, [InterestNext]_interestVars, NEW t \in Things,
         lastSeen[t] # 0, lastSeen'[t] = 0, excused[t] = 0
  PROVE  Cardinality(carried[t]) >= Stale \div Refresh
<1> InterestTypeOK
  BY DEF InterestInv
<1>1. PICK m \in flight : Accept(m)
  <2>1. lastSeen' # lastSeen
    OBVIOUS
  <2>2. ~StrictSnapshot /\ ~WholeSnapshot /\ ~UNCHANGED interestVars
    <3>1. \A C, size : ~Emit(C, size)
      BY <2>1 DEF Emit
    <3>2. ~StrictSnapshot
      BY <3>1, ZenonT(60) DEF StrictSnapshot
    <3>3. ~WholeSnapshot
      BY <3>1 DEF WholeSnapshot
    <3>4. ~UNCHANGED interestVars
      BY <2>1 DEF interestVars
    <3> QED
      BY <3>2, <3>3, <3>4
  <2>3. ASSUME NEW m \in flight PROVE ~LoseDatagram(m)
    BY <2>1 DEF LoseDatagram
  <2> QED
    BY <2>2, <2>3 DEF InterestNext
<1>2. m.tick \in 1 .. tick
  BY DEF InterestTypeOK
<1>3. m.tick > lastSeen[t] + Stale
  <2> DEFINE seen == [i \in Things |-> IF i \in m.has THEN m.tick ELSE lastSeen[i]]
  <2>1. lastSeen'[t] = IF t \in Forgotten(m, seen) THEN 0 ELSE seen[t]
    BY <1>1 DEF Accept
  <2>2. seen[t] \in Nat /\ seen[t] # 0
    BY <1>2, OfOne
  <2>3. t \in Forgotten(m, seen)
    BY <2>1, <2>2
  <2>4. m.tick > seen[t] + Stale
    BY <2>3 DEF Forgotten
  <2>5. t \notin m.has
    BY <1>2, <2>4, InterestAssumption
  <2> QED
    BY <2>4, <2>5
<1>4. /\ tick \in Nat /\ lastSeen[t] \in 0 .. tick /\ carried[t] \in SUBSET (1 .. tick)
      /\ Since(lastSeen[t], latest) = lastSeen[t]
  BY OfOne DEF Since
<1>5. Refreshed(tick, lastSeen[t], 0, carried[t])
  BY <1>4 DEF InterestInv, Told
<1>6. /\ Stale \div Refresh \in Nat /\ (Stale \div Refresh) * Refresh <= Stale
      /\ (Stale \div Refresh) * Refresh \in Nat
  BY InterestAssumption, Quotient
<1>7. Stale \in Nat
  BY InterestAssumption
<1>8. lastSeen[t] + (Stale \div Refresh) * Refresh <= tick
  BY <1>2, <1>3, <1>4, <1>6, <1>7
<1> QED
  BY <1>4, <1>5, <1>6, <1>8, Stretches

\* What has been in range, and was never left out when it was due, vanishes only
\* when Stale \div Refresh snapshots that had it were lost or overtaken: for any
\* number of things, any loss and any order.
THEOREM VanishingTakesLosses == InterestSpec => VanishesOnlyByLoss
<1>1. InterestInv /\ [InterestNext]_interestVars =>
        (\A t \in Things :
           lastSeen[t] # 0 /\ lastSeen'[t] = 0 /\ excused[t] = 0 =>
             Cardinality(carried[t]) >= Stale \div Refresh)
  BY Vanishing
<1> QED
  BY <1>1, InterestInvariance, PTL DEF InterestSpec, VanishesOnlyByLoss

-----------------------------------------------------------------------------
\* A match: the three parts beside each other

MatchInv == VoxelInv /\ LifeInv /\ InterestInv

\* Where connections are reliable, no queue is full and nobody dies, everything
\* that happens to the blocks may happen anyway.
LEMMA CalmIsPossible == ASSUME Calm!Next PROVE Next
<1>1. PICK c \in Clients :
        \/ Calm!MakeEdit(c) \/ Calm!ReceivePacket(c) \/ Calm!LoseEdit(c)
        \/ Calm!ReceiveEdit(c) \/ Calm!Join(c) \/ Calm!Leave(c)
  BY DEF Calm!Next
<1>2. CASE Calm!ReceiveEdit(c)
  <2>1. PICK i \in Calm!MayArrive(up[c]) :
          /\ \/ Calm!AcceptEdit(up[c][i])
             \/ ~Calm!Current(up[c][i]) /\ Calm!Reject(c)
          /\ up' = [up EXCEPT ![c] = Calm!Without(@, i)]
          /\ UNCHANGED <<here, clientVars, edits>>
    BY <1>2 DEF Calm!ReceiveEdit, Calm!clientVars, clientVars
  <2>2. i \in MayArrive(up[c])
    BY <2>1 DEF Calm!MayArrive, MayArrive
  <2>3. \A C : Calm!WithRoom(C) \subseteq WithRoom(C)
    BY DEF Calm!WithRoom, WithRoom
  <2>4. ASSUME Calm!AcceptEdit(up[c][i]) PROVE AcceptEdit(up[c][i])
    BY <2>3, <2>4 DEF Calm!AcceptEdit, AcceptEdit, Calm!Current, Current,
      Calm!Queued, Queued, Calm!Diff, Diff
  <2>5. ASSUME ~Calm!Current(up[c][i]), Calm!Reject(c)
        PROVE  ~Current(up[c][i]) /\ Reject(c)
    BY <2>3, <2>5 DEF Calm!Reject, Reject, Calm!Current, Current, Calm!Queued, Queued,
      Calm!Full, Full, Calm!serverVars, serverVars
  <2>6. up' = [up EXCEPT ![c] = Without(@, i)]
    BY <2>1 DEF Calm!Without, Without
  <2>7. AcceptEdit(up[c][i]) \/ (~Current(up[c][i]) /\ Reject(c))
    BY <2>1, <2>4, <2>5
  <2>8. ReceiveEdit(c)
    BY <2>1, <2>2, <2>6, <2>7 DEF ReceiveEdit, clientVars, Calm!clientVars
  <2> QED
    BY <2>8 DEF Next
<1>3. CASE Calm!MakeEdit(c)
  <2>1. MakeEdit(c)
    BY <1>3 DEF Calm!MakeEdit, MakeEdit, Calm!Contents, Contents, Calm!serverVars, serverVars
  <2> QED
    BY <2>1 DEF Next
<1>4. CASE Calm!ReceivePacket(c)
  <2>1. \A p, x : Calm!Touching(p, x) = Touching(p, x) /\ Calm!First(p, x) = First(p, x)
    BY DEF Calm!Touching, Touching, Calm!First, First
  <2>2. \A b, p : Calm!Reverted(b, p) = Reverted(b, p)
    BY <2>1 DEF Calm!Reverted, Reverted
  <2>3. \A m : Calm!ApplyFull(c, m) => ApplyFull(c, m)
    BY DEF Calm!ApplyFull, ApplyFull
  <2>4. \A m : Calm!ApplyDiff(c, m) => ApplyDiff(c, m)
    BY <2>2 DEF Calm!ApplyDiff, ApplyDiff, Calm!Gap, Gap, Calm!Confirms, Confirms,
      Calm!clientVars, clientVars
  <2>5. ReceivePacket(c)
    BY <1>4, <2>3, <2>4 DEF Calm!ReceivePacket, ReceivePacket, Calm!serverVars, serverVars
  <2> QED
    BY <2>5 DEF Next
<1>5. ~Calm!LoseEdit(c)
  BY DEF Calm!LoseEdit
<1>6. CASE Calm!Join(c)
  <2>1. Join(c)
    BY <1>6 DEF Calm!Join, Join, Calm!Queued, Queued, Calm!Full, Full,
      Calm!serverVars, serverVars, Calm!clientVars, clientVars
  <2> QED
    BY <2>1 DEF Next
<1>7. CASE Calm!Leave(c)
  <2>1. Leave(c)
    BY <1>7 DEF Calm!Leave, Leave, Calm!NoBlocks, NoBlocks, Calm!serverVars, serverVars
  <2> QED
    BY <2>1 DEF Next
<1> QED
  BY <1>1, <1>2, <1>3, <1>4, <1>5, <1>6, <1>7

LEMMA MatchStarts == ASSUME MatchInit PROVE MatchInv
  BY InitInv, LifeInitInv, LifeAssumption, InterestStarts DEF MatchInit, MatchInv

\* One part moves and the others stay.
LEMMA MatchStep ==
  ASSUME MatchInv, [MatchNext]_matchVars
  PROVE  /\ MatchInv'
         /\ [Next]_vars /\ [LifeNext]_lifeVars /\ [InterestNext]_interestVars
<1>1. [Next]_vars /\ [LifeNext]_lifeVars /\ [InterestNext]_interestVars
  <2>1. CASE BlocksStep
    BY <2>1 DEF BlocksStep
  <2>2. CASE CalmStep
    BY <2>2, CalmIsPossible DEF CalmStep
  <2>3. CASE LifeStep
    BY <2>3 DEF LifeStep
  <2>4. CASE InterestStep
    BY <2>4 DEF InterestStep
  <2>5. CASE UNCHANGED matchVars
    BY <2>5 DEF matchVars
  <2>6. CASE Over
    BY <2>6 DEF Over, matchVars
  <2> QED
    BY <2>1, <2>2, <2>3, <2>4, <2>5, <2>6 DEF MatchNext
<1>2. VoxelInv' /\ LifeInv' /\ InterestInv'
  BY <1>1, StepOK, LifeNextInv, LifeAssumption, InterestInductive DEF MatchInv
<1> QED
  BY <1>1, <1>2 DEF MatchInv

LEMMA MatchInvariance == MatchSpec => []MatchInv
  BY MatchStarts, MatchStep, PTL DEF MatchSpec

\* In a match the three parts keep their types, whichever moves.
THEOREM MatchTypesHold == MatchSpec => []MatchTypes
<1>1. MatchInv => MatchTypes
  BY DEF MatchInv, VoxelInv, LifeInv, InterestInv, MatchTypes
<1> QED
  BY <1>1, MatchInvariance, PTL

\* Whichever part moves: deaths are whole, shots hit the life they were aimed at,
\* snapshots fit their datagrams, and views of the blocks are confirmed.
THEOREM MatchIsSafe ==
  MatchSpec => [](ConfirmedView /\ DeathIsWhole /\ HitsThisLife /\ Fits)
<1>1. MatchInv => HitsThisLife /\ Fits /\ ConfirmedView
  BY DEF MatchInv, VoxelInv, LifeInv, InterestInv
<1>2. MatchInv => DeathIsWhole
  BY DEF MatchInv, LifeInv, LifeTypeOK, DeathIsWhole, Body
<1> QED
  BY <1>1, <1>2, MatchInvariance, PTL

\* Nor does any step take a client back to an older version, cut a death short or
\* draw it out, or let vanish what was sent and arrived.
THEOREM MatchStepsAreSafe ==
  MatchSpec => VersionsRise /\ DeathsStand /\ VanishesOnlyByLoss
<1>1. MatchInv /\ [MatchNext]_matchVars =>
        [\A c \in here \cap here' : cver[c] <= cver'[c]]_vars
  BY MatchStep, StepOK DEF MatchInv
<1>2. MatchInv /\ [MatchNext]_matchVars => \A p \in present \cap present' : Stands(p)
  BY MatchStep, LifeNextInv, LifeAssumption DEF MatchInv
<1>3. MatchInv /\ [MatchNext]_matchVars =>
        (\A t \in Things :
           lastSeen[t] # 0 /\ lastSeen'[t] = 0 /\ excused[t] = 0 =>
             Cardinality(carried[t]) >= Stale \div Refresh)
  BY MatchStep, Vanishing DEF MatchInv
<1> QED
  BY <1>1, <1>2, <1>3, MatchInvariance, PTL
  DEF MatchSpec, VersionsRise, DeathsStand, Stands, VanishesOnlyByLoss
=============================================================================
