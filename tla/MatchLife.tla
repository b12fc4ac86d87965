----------------------------- MODULE MatchLife -----------------------------
(***************************************************************************)
(* The lives of the players of a match: the ways to be hurt and to die,    *)
(* the time a death lasts, the protection of those who have just appeared, *)
(* the energy that everything costs, and the record of the past in which   *)
(* shots are resolved.                                                     *)
(*                                                                         *)
(* The server runs a match in one task, which handles events between ticks. *)
(* A tick is modelled in the order of its stages, one step for a player or *)
(* a queued attack; no event is handled until it ends.  Deadlines are kept *)
(* as the ticks left.  Geometry is a choice: who falls out of the world,   *)
(* who is run over, which battery is in reach, what an attack meets.       *)
(***************************************************************************)
EXTENDS Integers, Sequences

CONSTANTS
  Fighters,
  MaxHp,         \* 100 in the code
  Damages,       \* what a shot or a swing takes: 14, 16 or 35
  StartEnergy,   \* STARTING_ENERGY
  AttackCost,    \* RIFLE_SHOT_ENERGY_COST, MELEE_ENERGY_COST
  RespawnTicks,  \* RESPAWN_DELAY_MS, or as the environment variable says
  ShieldTicks,   \* spawn_protection_ticks()
  FireGap,       \* RIFLE_FIRE_INTERVAL_MS
  SwingGap,      \* MELEE_COOLDOWN_MS
  Stagger,       \* MELEE_HIT_RECOVERY_MS
  MaxRewind,     \* twice MAX_LAG_COMP_MS: how far back a shot looks
  Window,        \* records of each player that LagCompHistory keeps
  FirstBatteries, \* the batteries of the world: [id, energy]
  RangeStart,    \* BATTERY_ID_RANGE_START, above the ids of the world
  MaxQueue       \* bound: attacks queued between two ticks

\* A death lasts longer than a shot may look back.
ASSUME LifeAssumption ==
  /\ MaxHp \in Nat \ {0} /\ StartEnergy \in Nat \ {0} /\ AttackCost \in Nat
  /\ Damages \subseteq Nat \ {0}
  /\ RespawnTicks \in Nat /\ ShieldTicks \in Nat \ {0}
  /\ FireGap \in Nat /\ SwingGap \in Nat /\ Stagger \in Nat
  /\ MaxRewind \in Nat /\ Window \in Nat /\ MaxQueue \in Nat
  /\ MaxRewind < RespawnTicks
  /\ FirstBatteries \subseteq [id : Nat, energy : Nat] /\ RangeStart \in Nat
  /\ \A b \in FirstBatteries : b.id < RangeStart

VARIABLES
  arrived, present,    \* who has connected, who is in the match
  hp, dead,      \* PlayerMotorState: hit points, dead
  guard, energy, \*   spawn_protected, energy
  driving,       \*   in vehicle_of_player
  respawn,       \* PlayerRuntime: ticks until respawn_at_ms, NoTime if none
  shield,        \*   ticks until spawn_protection_ends_at_tick, 0 if none
  nextFire, nextMelee, \*   ticks until the next attack is allowed
  shots, swings, \* queued_shots, queued_melees: who attacked
  record,        \* LagCompHistory: the latest record first
  batteries, nextBattery, \* on the ground; next_battery_id
  stage, todo,   \* where the tick is, and who is still to be seen to
  struck         \* history: what the last shot to hit somebody saw

bodyVars == <<hp, dead, guard, energy, driving>>
mortalVars == <<bodyVars, respawn, shield, batteries, nextBattery>>
attackVars == <<nextFire, nextMelee, shots, swings>>
lifeVars == <<arrived, present, mortalVars, attackVars, record, stage, todo, struck>>

NoTime == -1

\* One tick less, of a time that may have passed.
Less(t) == IF t > 0 THEN t - 1 ELSE t

\* What a record says of the player.  A record of a life that is over counts
\* as Earlier once the player is back; the code does not tell it from Alive.
Dead == 0
Alive == 1
Earlier == 2

\* The stages of a tick.
Idle == 0
Moves == 1
Roads == 2
Pickups == 3
Drains == 4
Attacks == 5

-----------------------------------------------------------------------------
\* Damage and death

\* The condition for a battery in kill_player_with_cause, of a player whom
\* damage may have marked dead already, for the causes that drop one.
Drops(p, marked, causes) == causes /\ ~marked /\ energy[p] > 0

\* kill_player_with_cause.  marked: damage has set the dead flag before.
\* en: the energy of everybody as it was before this death.
Kill(p, en, marked, causes) ==
  /\ hp' = [hp EXCEPT ![p] = 0]
  /\ dead' = [dead EXCEPT ![p] = TRUE]
  /\ guard' = [guard EXCEPT ![p] = FALSE]
  /\ driving' = [driving EXCEPT ![p] = FALSE]
  /\ energy' = [en EXCEPT ![p] = 0]
  /\ respawn' = [respawn EXCEPT ![p] = RespawnTicks]
  /\ shield' = [shield EXCEPT ![p] = 0]
  /\ \/ /\ Drops(p, marked, causes)
        /\ batteries' = batteries \cup {[id |-> nextBattery, energy |-> energy[p]]}
        /\ nextBattery' = nextBattery + 1
     \/ ~Drops(p, marked, causes) /\ UNCHANGED <<batteries, nextBattery>>

\* Nobody dies, energy aside nothing changes.
Spare(en) ==
  /\ energy' = en
  /\ UNCHANGED <<hp, dead, guard, driving, respawn, shield, batteries, nextBattery>>

\* apply_player_damage and the death of those it kills.
Damage(p, d, en) ==
  \/ (dead[p] \/ hp[p] = 0 \/ guard[p]) /\ Spare(en)
  \/ /\ ~dead[p] /\ ~guard[p] /\ hp[p] > d
     /\ hp' = [hp EXCEPT ![p] = hp[p] - d] /\ energy' = en
     /\ UNCHANGED <<dead, guard, driving, respawn, shield, batteries, nextBattery>>
  \/ /\ ~dead[p] /\ ~guard[p] /\ hp[p] \in 1 .. d
     /\ Kill(p, en, TRUE, TRUE)

-----------------------------------------------------------------------------
\* Events between ticks

\* Connect
Appear(p) ==
  /\ stage = Idle /\ p \notin arrived
  /\ arrived' = arrived \cup {p} /\ present' = present \cup {p}
  /\ hp' = [hp EXCEPT ![p] = MaxHp]
  /\ energy' = [energy EXCEPT ![p] = StartEnergy]
  /\ guard' = [guard EXCEPT ![p] = TRUE]
  /\ shield' = [shield EXCEPT ![p] = ShieldTicks]
  /\ UNCHANGED <<dead, driving, respawn, batteries, nextBattery, attackVars,
                 record, stage, todo, struck>>

\* Disconnect.  What the player has queued stays, and finds nobody.
Vanish(p) ==
  /\ stage = Idle /\ p \in present
  /\ present' = present \ {p}
  /\ record' = [record EXCEPT ![p] = << >>]
  /\ hp' = [hp EXCEPT ![p] = 0] /\ energy' = [energy EXCEPT ![p] = 0]
  /\ dead' = [dead EXCEPT ![p] = FALSE] /\ guard' = [guard EXCEPT ![p] = FALSE]
  /\ driving' = [driving EXCEPT ![p] = FALSE]
  /\ respawn' = [respawn EXCEPT ![p] = NoTime]
  /\ shield' = [shield EXCEPT ![p] = 0]
  /\ nextFire' = [nextFire EXCEPT ![p] = 0]
  /\ nextMelee' = [nextMelee EXCEPT ![p] = 0]
  /\ UNCHANGED <<arrived, shots, swings, batteries, nextBattery, stage, todo, struck>>

\* VehicleEnter where a seat is free, VehicleExit
Drive(p, in) ==
  /\ stage = Idle /\ p \in present /\ ~dead[p] /\ driving[p] # in
  /\ driving' = [driving EXCEPT ![p] = in]
  /\ UNCHANGED <<arrived, present, hp, dead, guard, energy, respawn, shield, batteries,
                 nextBattery, attackVars, record, stage, todo, struck>>

\* Fire and Melee.  Both end the protection; the attack waits for the tick.
Attack(p) ==
  /\ stage = Idle /\ p \in present /\ ~dead[p]
  /\ Len(shots) + Len(swings) < MaxQueue
  /\ guard' = [guard EXCEPT ![p] = FALSE]
  /\ shield' = [shield EXCEPT ![p] = 0]
  /\ \/ shots' = Append(shots, p) /\ UNCHANGED swings
     \/ swings' = Append(swings, p) /\ UNCHANGED shots
  /\ UNCHANGED <<arrived, present, hp, dead, energy, driving, respawn, nextFire,
                 nextMelee, batteries, nextBattery, record, stage, todo, struck>>

-----------------------------------------------------------------------------
\* A tick

\* Whose respawn_at_ms has come at the next tick.
Returns(p) == respawn[p] \in {0, 1}

\* The records of a life that is over.
Former(r) == [i \in 1 .. Len(r) |-> IF r[i] = Alive THEN Earlier ELSE r[i]]

ExpiresMutant(p) == FALSE

\* expire_spawn_protection, of those who have not just returned.
Expires(p) == shield[p] = 1

\* process_respawns and expire_spawn_protection, at the next server_tick.
Begin ==
  /\ stage = Idle
  /\ respawn' = [p \in Fighters |-> IF Returns(p) THEN NoTime ELSE Less(respawn[p])]
  /\ hp' = [p \in Fighters |-> IF Returns(p) THEN MaxHp ELSE hp[p]]
  /\ dead' = [p \in Fighters |-> dead[p] /\ ~Returns(p)]
  /\ energy' = [p \in Fighters |-> IF Returns(p) THEN StartEnergy ELSE energy[p]]
  /\ guard' = [p \in Fighters |-> Returns(p) \/ (guard[p] /\ ~Expires(p))]
  /\ shield' = [p \in Fighters |->
                  IF Returns(p) THEN ShieldTicks ELSE Less(shield[p])]
  /\ record' = [p \in Fighters |->
                  IF Returns(p) THEN Former(record[p]) ELSE record[p]]
  /\ nextFire' = [p \in Fighters |-> Less(nextFire[p])]
  /\ nextMelee' = [p \in Fighters |-> Less(nextMelee[p])]
  /\ stage' = Moves /\ todo' = present /\ struck' = Dead
  /\ UNCHANGED <<arrived, present, driving, batteries, nextBattery, shots, swings>>

\* LagCompHistory::record
Recorded(p) ==
  LET now == IF hp[p] > 0 /\ ~dead[p] THEN Alive ELSE Dead
      r == <<now>> \o record[p]
  IN  IF Len(r) > Window THEN SubSeq(r, 1, Window) ELSE r

FallsMutant(p) == TRUE

\* Who may be below OUT_OF_BOUNDS_Y_M for the server: the living.
Falls(p) == hp[p] > 0

\* The simulation of a player, who may fall out of the world.  The record has
\* the flags of before the fall.
Move(p) ==
  /\ stage = Moves /\ p \in todo /\ todo' = todo \ {p}
  /\ record' = [record EXCEPT ![p] = Recorded(p)]
  /\ \/ Falls(p) /\ Kill(p, energy, dead[p], FALSE)
     \/ UNCHANGED mortalVars
  /\ UNCHANGED <<arrived, present, attackVars, stage, struck>>

\* apply_vehicle_player_collisions
RunOver(p) ==
  /\ stage = Roads /\ p \in todo /\ todo' = todo \ {p}
  /\ \/ ~driving[p] /\ ~dead[p] /\ hp[p] # 0
        /\ \E d \in 1 .. MaxHp : Damage(p, d, energy)
     \/ UNCHANGED mortalVars
  /\ UNCHANGED <<arrived, present, attackVars, record, stage, struck>>

\* collect_batteries_for_player, one of those in reach.
PickUp(p, b) ==
  /\ stage = Pickups /\ p \in present /\ ~dead[p]
  /\ batteries' = batteries \ {b}
  /\ energy' = [energy EXCEPT ![p] = energy[p] + b.energy]
  /\ UNCHANGED <<arrived, present, hp, dead, guard, driving, respawn, shield,
                 nextBattery, attackVars, record, stage, todo, struck>>

\* apply_on_foot_energy_drain, apply_vehicle_energy_drain: what moving, jumping
\* and driving cost, which may be less than a unit or the last one.
Drain(p) ==
  /\ stage = Drains /\ p \in todo /\ todo' = todo \ {p}
  /\ \/ ~dead[p] /\ energy[p] > 1
        /\ Spare([energy EXCEPT ![p] = energy[p] - 1])
     \/ ~dead[p] /\ energy[p] <= 1 /\ Kill(p, energy, FALSE, FALSE)
     \/ UNCHANGED mortalVars
  /\ UNCHANGED <<arrived, present, attackVars, record, stage, struck>>

\* The next stage of the tick.
Proceed ==
  /\ stage \in Moves .. Drains
  /\ todo = {} \/ stage = Pickups
  /\ stage' = stage + 1
  /\ todo' = IF stage = Drains THEN {} ELSE present
  /\ UNCHANGED <<arrived, present, mortalVars, attackVars, record, struck>>

-----------------------------------------------------------------------------
\* Attacks, at the end of a tick

\* Who has to wait before the next swing after being hurt.
Staggered(next, v) ==
  IF hp'[v] < hp[v] /\ next[v] < Stagger THEN [next EXCEPT ![v] = Stagger] ELSE next

SeenMutant(p, i) ==
  IF record[p] = << >> THEN Dead
  ELSE record[p][IF i + 1 < Len(record[p]) THEN i + 2 ELSE Len(record[p])]

\* sample_capsule: the record i ticks before the latest, or the oldest.
Seen(p, i) ==
  IF record[p] = << >> THEN Dead
  ELSE record[p][IF i < Len(record[p]) THEN i + 1 ELSE Len(record[p])]

\* What an attack leaves p of its energy; with none left p dies instead.
Paid(p) == [energy EXCEPT ![p] = energy[p] - AttackCost]

\* process_hitscan, the first queued shot.  A shot with a number used before is
\* ignored.  The victim is looked for where it was, and hurt as it is now.
Shoot ==
  /\ stage = Attacks /\ shots # << >> /\ shots' = Tail(shots)
  /\ LET p == Head(shots) IN
     \/ UNCHANGED <<mortalVars, nextFire, nextMelee, struck>>
     \/ /\ p \in present /\ nextFire[p] = 0
        /\ nextFire' = [nextFire EXCEPT ![p] = FireGap]
        /\ \/ (dead[p] \/ driving[p]) /\ UNCHANGED <<mortalVars, nextMelee, struck>>
           \/ /\ ~dead[p] /\ ~driving[p] /\ energy[p] <= AttackCost
              /\ Kill(p, energy, FALSE, FALSE) /\ UNCHANGED <<nextMelee, struck>>
           \/ /\ ~dead[p] /\ ~driving[p] /\ energy[p] > AttackCost
              /\ Spare(Paid(p)) /\ UNCHANGED <<nextMelee, struck>>
           \/ /\ ~dead[p] /\ ~driving[p] /\ energy[p] > AttackCost
              /\ \E v \in Fighters \ {p}, i \in 0 .. MaxRewind, d \in Damages :
                   /\ Seen(v, i) # Dead
                   /\ Damage(v, d, Paid(p))
                   /\ nextMelee' = Staggered(nextMelee, v)
                   /\ struck' = Seen(v, i)
  /\ UNCHANGED <<arrived, present, swings, record, stage, todo>>

\* process_melee, the first queued swing, which is resolved in the present.
Swing ==
  /\ stage = Attacks /\ shots = << >> /\ swings # << >> /\ swings' = Tail(swings)
  /\ LET p == Head(swings)
         Swung == [nextMelee EXCEPT ![p] = SwingGap] IN
     \/ UNCHANGED <<mortalVars, nextMelee>>
     \/ /\ p \in present /\ nextMelee[p] = 0
        /\ \/ (dead[p] \/ driving[p]) /\ UNCHANGED mortalVars /\ nextMelee' = Swung
           \/ /\ ~dead[p] /\ ~driving[p] /\ energy[p] <= AttackCost
              /\ Kill(p, energy, FALSE, FALSE) /\ nextMelee' = Swung
           \/ /\ ~dead[p] /\ ~driving[p] /\ energy[p] > AttackCost
              /\ Spare(Paid(p)) /\ nextMelee' = Swung
           \/ /\ ~dead[p] /\ ~driving[p] /\ energy[p] > AttackCost
              /\ \E v \in present \ {p}, d \in Damages :
                   /\ ~driving[v] /\ ~dead[v] /\ hp[v] # 0
                   /\ Damage(v, d, Paid(p))
                   /\ nextMelee' = Staggered(Swung, v)
  /\ UNCHANGED <<arrived, present, nextFire, shots, record, stage, todo, struck>>

\* The end of the tick.
End ==
  /\ stage = Attacks /\ shots = << >> /\ swings = << >>
  /\ stage' = Idle
  /\ UNCHANGED <<arrived, present, mortalVars, attackVars, record, todo, struck>>

-----------------------------------------------------------------------------

TickStep ==
  \/ Begin \/ Proceed \/ Shoot \/ Swing \/ End
  \/ \E p \in Fighters : Move(p) \/ RunOver(p) \/ Drain(p)
  \/ \E p \in Fighters, b \in batteries : PickUp(p, b)

LifeInit ==
  /\ arrived = {} /\ present = {}
  /\ hp = [p \in Fighters |-> 0] /\ dead = [p \in Fighters |-> FALSE]
  /\ guard = [p \in Fighters |-> FALSE] /\ energy = [p \in Fighters |-> 0]
  /\ driving = [p \in Fighters |-> FALSE]
  /\ respawn = [p \in Fighters |-> NoTime] /\ shield = [p \in Fighters |-> 0]
  /\ nextFire = [p \in Fighters |-> 0] /\ nextMelee = [p \in Fighters |-> 0]
  /\ shots = << >> /\ swings = << >>
  /\ record = [p \in Fighters |-> << >>]
  /\ batteries = FirstBatteries
  /\ nextBattery = RangeStart
  /\ stage = Idle /\ todo = {} /\ struck = Dead

LifeNext ==
  \/ TickStep
  \/ \E p \in Fighters : Appear(p) \/ Vanish(p) \/ Attack(p)
  \/ \E p \in Fighters, in \in BOOLEAN : Drive(p, in)

LifeSpec == LifeInit /\ [][LifeNext]_lifeVars

\* The ticks of a match do not stop.
LifeFairSpec == LifeSpec /\ WF_lifeVars(TickStep)

-----------------------------------------------------------------------------

\* The types of the variables.
LifeTypeOK ==
  /\ arrived \subseteq Fighters /\ present \subseteq arrived /\ todo \subseteq present
  /\ hp \in [Fighters -> 0 .. MaxHp] /\ dead \in [Fighters -> BOOLEAN]
  /\ guard \in [Fighters -> BOOLEAN] /\ energy \in [Fighters -> Nat]
  /\ driving \in [Fighters -> BOOLEAN]
  /\ respawn \in [Fighters -> (0 .. RespawnTicks) \cup {NoTime}]
  /\ shield \in [Fighters -> 0 .. ShieldTicks]
  /\ nextFire \in [Fighters -> Nat] /\ nextMelee \in [Fighters -> Nat]
  /\ shots \in Seq(Fighters) /\ swings \in Seq(Fighters)
  /\ record \in [Fighters -> Seq({Dead, Alive, Earlier})]
  /\ batteries \subseteq [id : Nat, energy : Nat] /\ nextBattery \in Nat
  /\ stage \in Idle .. Attacks /\ struck \in {Dead, Alive, Earlier}

\* The parts of a death, and of a life, agree.
Whole(p) ==
  /\ dead[p] <=> respawn[p] # NoTime
  /\ dead[p] <=> hp[p] = 0
  /\ dead[p] <=> energy[p] = 0
  /\ dead[p] => ~driving[p]
  /\ guard[p] <=> shield[p] # 0

\* Whatever kills and in whatever order the stages of a tick find a player, the
\* dead have no hit points, no energy, no vehicle and a time to return; the
\* living have hit points and energy left and no such time; and a player is
\* protected exactly while the protection runs.
DeathIsWhole == \A p \in present : Whole(p)

\* A death is neither lengthened nor doubled by what happens to the body, nor
\* does anything of the old life survive it: the time to return is set once,
\* and who returns does so unhurt, protected and with fresh energy.
DeathsStand == [][\A p \in present \cap present' :
  dead[p] => \/ dead'[p] /\ respawn'[p] \in {respawn[p], respawn[p] - 1}
             \/ /\ ~dead'[p] /\ respawn[p] \in {0, 1} /\ guard'[p]
                /\ hp'[p] = MaxHp /\ energy'[p] = StartEnergy]_lifeVars

\* A shot, though resolved in the past, never hits the body a player had in an
\* earlier life: the time a death lasts covers all a shot may look back.
HitsThisLife == struck # Earlier

\* Batteries are found, never left behind: damage marks its victim dead before
\* kill_player_with_cause looks whether there is energy to drop.
BatteriesOnlyShrink == [][batteries' \subseteq batteries]_lifeVars

\* The comment on apply_vehicle_player_collisions: its caller runs the usual
\* death flow for those it kills, with the respawn timer and the battery drop.
CollisionsDrop == [][\A p \in Fighters :
  stage = Roads /\ ~dead[p] /\ dead'[p] /\ energy[p] > 0 =>
    batteries' # batteries]_lifeVars

\* The dead return, or leave.
EveryoneReturns == \A p \in Fighters : dead[p] ~> ~dead[p]
=============================================================================
