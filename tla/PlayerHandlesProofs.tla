------------------------ MODULE PlayerHandlesProofs ------------------------
(***************************************************************************)
(* What PlayerHandles satisfies for every number of players and handles    *)
(* and every cooldown: the pool neither loses a handle nor gives it twice, *)
(* and no client shows one player as another, if rosters and snapshots are *)
(* never as old as the cooldown.  The inductive invariant says of each     *)
(* name a client has, or may yet receive, that the handle is still its     *)
(* owner's or has been resting since the name was put down.                *)
(***************************************************************************)
EXTENDS PlayerHandles, LinksProofs

Entry == [handle : Handles, left : 0 .. Cooldown, was : Players]

PeopleOK ==
  /\ came \subseteq Players /\ here \subseteq came
  /\ refused \subseteq came \ here
  /\ phase \in 0 .. RosterEvery - 1

\* The pool, as a predicate of its variables.
PoolTypes(H, hd, nx, fr, co) ==
  /\ hd \in [Players -> Handles \cup {NoHandle}]
  /\ \A p \in Players : hd[p] # NoHandle <=> p \in H
  /\ nx \in 1 .. MaxHandle + 1
  /\ fr \in Seq(Handles) /\ co \in Seq(Entry)

Issued(H, hd, nx, fr, co) ==
  /\ \A p \in H : hd[p] < nx
  /\ \A i \in 1 .. Len(fr) : fr[i] < nx
  /\ \A i \in 1 .. Len(co) : co[i].handle < nx

Conserved(H, hd, nx, fr, co) ==
  \A h \in 1 .. nx - 1 :
    \/ \E p \in H : hd[p] = h
    \/ \E i \in 1 .. Len(fr) : fr[i] = h
    \/ \E i \in 1 .. Len(co) : co[i].handle = h

Apart(H, hd, fr, co) ==
  /\ \A p \in H, i \in 1 .. Len(fr) : hd[p] # fr[i]
  /\ \A p \in H, i \in 1 .. Len(co) : hd[p] # co[i].handle
  /\ \A i \in 1 .. Len(fr), j \in 1 .. Len(co) : fr[i] # co[j].handle

Once(H, hd, fr, co) ==
  /\ \A p, q \in H : hd[p] = hd[q] => p = q
  /\ \A i, j \in 1 .. Len(fr) : fr[i] = fr[j] => i = j
  /\ \A i, j \in 1 .. Len(co) : co[i].handle = co[j].handle => i = j

PoolOK(H, hd, nx, fr, co) ==
  /\ PoolTypes(H, hd, nx, fr, co) /\ Issued(H, hd, nx, fr, co)
  /\ Conserved(H, hd, nx, fr, co) /\ Apart(H, hd, fr, co) /\ Once(H, hd, fr, co)

PoolInv == PoolOK(here, handle, next, free, cooling)

\* Somebody was told a ticks ago that q has the handle h: q still has it, or
\* has left it resting since.
Explained(h, q, a) ==
  \/ q \in here /\ handle[q] = h
  \/ \E i \in 1 .. Len(cooling) :
       /\ cooling[i].handle = h /\ cooling[i].was = q
       /\ cooling[i].left + a >= Cooldown

Truthful(w, a) == \A h \in Handles : w[h] # NoPlayer => Explained(h, w[h], a)

TellTypes ==
  /\ names \in [Players -> [Handles -> SomePlayer]]
  /\ age \in [Players -> Nat]
  /\ rosters \in [Players -> Seq(Naming)]
  /\ snaps \in [Players -> Seq(Naming)]

Young ==
  /\ \A c \in Players : age[c] < MaxSilence
  /\ \A c \in Players : \A i \in 1 .. Len(rosters[c]) :
       rosters[c][i].age < MaxSilence
  /\ \A c \in Players : \A i \in 1 .. Len(snaps[c]) : snaps[c][i].age < MaxDelay

AllTruthful ==
  /\ \A c \in Players : Truthful(names[c], age[c])
  /\ \A c \in Players : \A i \in 1 .. Len(rosters[c]) :
       Truthful(rosters[c][i].who, rosters[c][i].age)
  /\ \A c \in Players : \A i \in 1 .. Len(snaps[c]) :
       Truthful(snaps[c][i].who, snaps[c][i].age)

\* A client that is not in the match knows and awaits nothing.
Forgotten ==
  \A c \in Players \ here :
    names[c] = Nobody /\ rosters[c] = << >> /\ snaps[c] = << >>

ShownOK ==
  /\ shown \in [Players -> [Players -> SomePlayer]]
  /\ TrueNames

Inv ==
  /\ PeopleOK /\ PoolInv
  /\ TellTypes /\ Young /\ AllTruthful /\ Forgotten
  /\ ShownOK

-----------------------------------------------------------------------------
\* Numbers and sequences

LEMMA Numbers ==
  /\ Cooldown \in Nat /\ MaxHandle \in Nat /\ MaxSnaps \in Nat
  /\ MaxSilence \in Nat /\ MaxDelay \in Nat
  /\ 0 < MaxSilence /\ MaxSilence <= Cooldown
  /\ 0 < MaxDelay /\ MaxDelay <= Cooldown
  /\ RosterEvery \in Nat /\ RosterEvery > 0
  /\ NoPlayer \notin Players /\ NoHandle \notin Handles
BY HandlesAssumption DEF NoHandle, Handles

LEMMA StillRestingOK ==
  ASSUME NEW c \in Seq(Entry), NEW n \in 0 .. Len(c)
  PROVE  /\ StillResting(c, n) \in Seq(Entry)
         /\ Len(StillResting(c, n)) = Len(c) - n
         /\ \A i \in 1 .. Len(c) - n : StillResting(c, n)[i] = c[i + n]
<1>1. Len(c) \in Nat
  OBVIOUS
<1> QED
  BY <1>1 DEF StillResting

LEMMA PoolSeq ==
  ASSUME free \in Seq(Handles), NEW c \in Seq(Entry), NEW n \in 0 .. Len(c)
  PROVE  /\ Pool(c, n) \in Seq(Handles)
         /\ Len(Pool(c, n)) = Len(free) + n
         /\ \A i \in 1 .. Len(free) : Pool(c, n)[i] = free[i]
         /\ \A i \in 1 .. n : Pool(c, n)[Len(free) + i] = c[i].handle
<1> DEFINE t == [i \in 1 .. n |-> c[i].handle]
<1>1. Len(free) \in Nat /\ Len(c) \in Nat /\ n \in Nat
  OBVIOUS
<1>2. \A i \in 1 .. n : c[i] \in Entry
  BY <1>1, ElementOfSeq
<1>3. \A i \in 1 .. n : c[i].handle \in Handles
  BY <1>2 DEF Entry
<1>4. t \in Seq(Handles) /\ Len(t) = n /\ \A i \in 1 .. n : t[i] = c[i].handle
  BY <1>1, <1>3
<1> HIDE DEF t
<1>5. /\ free \o t \in Seq(Handles)
      /\ Len(free \o t) = Len(free) + Len(t)
      /\ \A i \in 1 .. Len(free) + Len(t) :
           (free \o t)[i] = IF i <= Len(free) THEN free[i] ELSE t[i - Len(free)]
  BY <1>4, ConcatProperties
<1>6. \A i \in 1 .. Len(free) : (free \o t)[i] = free[i]
  BY <1>1, <1>4, <1>5
<1>7. \A i \in 1 .. n : (free \o t)[Len(free) + i] = c[i].handle
  BY <1>1, <1>4, <1>5
<1> QED
  BY <1>4, <1>5, <1>6, <1>7 DEF Pool, t

\* Every handle of the pool is a free one or one that has rested.
LEMMA PoolFrom ==
  ASSUME free \in Seq(Handles), NEW c \in Seq(Entry), NEW n \in 0 .. Len(c)
  PROVE  \A i \in 1 .. Len(Pool(c, n)) :
           \/ i \in 1 .. Len(free) /\ Pool(c, n)[i] = free[i]
           \/ /\ i - Len(free) \in 1 .. n
              /\ Pool(c, n)[i] = c[i - Len(free)].handle
<1>1. Len(free) \in Nat /\ Len(c) \in Nat /\ n \in Nat
  OBVIOUS
<1> DEFINE f == Pool(c, n)
<1>2. /\ Len(f) = Len(free) + n
      /\ \A i \in 1 .. Len(free) : f[i] = free[i]
      /\ \A i \in 1 .. n : f[Len(free) + i] = c[i].handle
  BY PoolSeq
<1> HIDE DEF f
<1>3. ASSUME NEW i \in 1 .. Len(f), ~(i <= Len(free))
      PROVE  i - Len(free) \in 1 .. n /\ f[i] = c[i - Len(free)].handle
  <2>1. i - Len(free) \in 1 .. n /\ Len(free) + (i - Len(free)) = i
    BY <1>1, <1>2, <1>3
  <2> QED
    BY <1>2, <2>1
<1>4. ASSUME NEW i \in 1 .. Len(f), i <= Len(free)
      PROVE  i \in 1 .. Len(free) /\ f[i] = free[i]
  BY <1>1, <1>2, <1>4
<1> QED
  BY <1>3, <1>4 DEF f
-----------------------------------------------------------------------------
\* The pool

\* Handles that have rested come back.
LEMMA ReclaimOK ==
  ASSUME NEW H, NEW c, NEW n \in 0 .. Len(c), PoolOK(H, handle, next, free, c)
  PROVE  PoolOK(H, handle, next, Pool(c, n), StillResting(c, n))
<1> DEFINE f == Pool(c, n)
           r == StillResting(c, n)
<1>1. /\ free \in Seq(Handles) /\ c \in Seq(Entry)
      /\ Len(free) \in Nat /\ Len(c) \in Nat /\ n \in Nat
  BY DEF PoolOK, PoolTypes
<1>2. /\ f \in Seq(Handles) /\ Len(f) = Len(free) + n
      /\ \A i \in 1 .. Len(free) : f[i] = free[i]
      /\ \A i \in 1 .. n : f[Len(free) + i] = c[i].handle
  BY <1>1, PoolSeq
<1>3. \A i \in 1 .. Len(f) :
        \/ i \in 1 .. Len(free) /\ f[i] = free[i]
        \/ i - Len(free) \in 1 .. n /\ f[i] = c[i - Len(free)].handle
  BY <1>1, PoolFrom
<1>4. /\ r \in Seq(Entry) /\ Len(r) = Len(c) - n
      /\ \A i \in 1 .. Len(r) : i + n \in 1 .. Len(c) /\ r[i] = c[i + n]
  <2>1. /\ r \in Seq(Entry) /\ Len(r) = Len(c) - n
        /\ \A i \in 1 .. Len(c) - n : r[i] = c[i + n]
    BY <1>1, StillRestingOK
  <2> HIDE DEF r
  <2>2. ASSUME NEW i \in 1 .. Len(r)
        PROVE  i + n \in 1 .. Len(c) /\ i \in 1 .. Len(c) - n
    BY <1>1, <2>1
  <2> QED
    BY <2>1, <2>2
<1>5. \A i \in 1 .. n : i \in 1 .. Len(c)
  BY <1>1
<1> HIDE DEF f, r
<1>7. PoolTypes(H, handle, next, f, r)
  BY <1>2, <1>4 DEF PoolOK, PoolTypes
<1>8. Issued(H, handle, next, f, r)
  BY <1>2, <1>3, <1>4, <1>5 DEF PoolOK, Issued
<1>9. Conserved(H, handle, next, f, r)
  <2> SUFFICES ASSUME NEW h \in 1 .. next - 1
               PROVE  \/ \E p \in H : handle[p] = h
                      \/ \E i \in 1 .. Len(f) : f[i] = h
                      \/ \E i \in 1 .. Len(r) : r[i].handle = h
    BY DEF Conserved
  <2>1. CASE \E p \in H : handle[p] = h
    BY <2>1
  <2>2. CASE \E i \in 1 .. Len(free) : free[i] = h
    <3>1. \A i \in 1 .. Len(free) : i \in 1 .. Len(f)
      BY <1>1, <1>2
    <3> QED
      BY <2>2, <3>1, <1>2
  <2>3. CASE \E i \in 1 .. Len(c) : c[i].handle = h
    <3>1. PICK i \in 1 .. Len(c) : c[i].handle = h
      BY <2>3
    <3>2. CASE i <= n
      <4>1. i \in 1 .. n /\ Len(free) + i \in 1 .. Len(f)
        BY <1>1, <1>2, <3>2
      <4> QED
        BY <1>2, <3>1, <4>1
    <3>3. CASE ~(i <= n)
      <4>1. i - n \in 1 .. Len(r) /\ (i - n) + n = i
        BY <1>1, <1>4, <3>3
      <4> QED
        BY <1>4, <3>1, <4>1
    <3> QED
      BY <3>2, <3>3
  <2> QED
    BY <2>1, <2>2, <2>3 DEF PoolOK, Conserved
<1>10. Apart(H, handle, f, r)
  <2>1. \A p \in H, i \in 1 .. Len(f) : handle[p] # f[i]
    BY <1>3, <1>5 DEF PoolOK, Apart
  <2>2. \A p \in H, i \in 1 .. Len(r) : handle[p] # r[i].handle
    BY <1>4 DEF PoolOK, Apart
  <2>3. ASSUME NEW i \in 1 .. Len(f), NEW j \in 1 .. Len(r)
        PROVE  f[i] # r[j].handle
    <3>1. CASE i \in 1 .. Len(free) /\ f[i] = free[i]
      BY <1>4, <3>1 DEF PoolOK, Apart
    <3>2. CASE i - Len(free) \in 1 .. n /\ f[i] = c[i - Len(free)].handle
      <4>1. i - Len(free) # j + n
        BY <1>1, <1>4, <3>2
      <4> QED
        BY <1>4, <1>5, <3>2, <4>1 DEF PoolOK, Once
    <3> QED
      BY <1>3, <3>1, <3>2
  <2> QED
    BY <2>1, <2>2, <2>3 DEF Apart
<1>11. Once(H, handle, f, r)
  <2>1. ASSUME NEW i \in 1 .. Len(f), NEW j \in 1 .. Len(f), f[i] = f[j]
        PROVE  i = j
    <3>1. CASE i \in 1 .. Len(free) /\ j \in 1 .. Len(free)
      BY <1>2, <2>1, <3>1 DEF PoolOK, Once
    <3>2. CASE i \in 1 .. Len(free) /\ j \notin 1 .. Len(free)
      BY <1>2, <1>3, <1>5, <2>1, <3>2 DEF PoolOK, Apart
    <3>3. CASE i \notin 1 .. Len(free) /\ j \in 1 .. Len(free)
      BY <1>2, <1>3, <1>5, <2>1, <3>3 DEF PoolOK, Apart
    <3>4. CASE i \notin 1 .. Len(free) /\ j \notin 1 .. Len(free)
      <4>1. i - Len(free) = j - Len(free)
        BY <1>3, <1>5, <2>1, <3>4 DEF PoolOK, Once
      <4> QED
        BY <1>1, <1>2, <4>1
    <3> QED
      BY <3>1, <3>2, <3>3, <3>4
  <2>2. ASSUME NEW i \in 1 .. Len(r), NEW j \in 1 .. Len(r),
               r[i].handle = r[j].handle
        PROVE  i = j
    <3>1. i + n = j + n
      BY <1>4, <2>2 DEF PoolOK, Once
    <3> QED
      BY <1>1, <1>4, <3>1
  <2> QED
    BY <2>1, <2>2 DEF PoolOK, Once
<1> QED
  BY <1>7, <1>8, <1>9, <1>10, <1>11 DEF PoolOK, f, r

\* A free handle, or if there is none the next one, goes to a newcomer.
LEMMA AllocateOK ==
  ASSUME NEW H \in SUBSET Players, NEW p \in Players \ H, NEW pool, NEW co,
         PoolOK(H, handle, next, pool, co), Allocate(p, pool)
  PROVE  PoolOK(H \cup {p}, handle', next', free', co)
<1>1. /\ handle \in [Players -> Handles \cup {NoHandle}]
      /\ next \in 1 .. MaxHandle + 1
      /\ pool \in Seq(Handles) /\ co \in Seq(Entry)
      /\ Len(pool) \in Nat /\ Len(co) \in Nat
  BY DEF PoolOK, PoolTypes
<1>2. MaxHandle \in Nat /\ NoHandle \notin Handles
  BY Numbers
<1>3. ASSUME NEW h \in Handles, handle' = [handle EXCEPT ![p] = h]
      PROVE  /\ handle' \in [Players -> Handles \cup {NoHandle}]
             /\ \A q \in Players : handle'[q] # NoHandle <=> q \in H \cup {p}
             /\ handle'[p] = h
             /\ \A q \in H : q # p /\ handle'[q] = handle[q]
  BY <1>1, <1>2, <1>3 DEF PoolOK, PoolTypes
<1>4. CASE pool # << >> /\ handle' = [handle EXCEPT ![p] = pool[1]]
           /\ free' = Tail(pool) /\ next' = next
  <2>1. pool[1] \in Handles /\ 1 \in 1 .. Len(pool)
    BY <1>1, <1>4, EmptySeq
  <2>2. /\ free' \in Seq(Handles) /\ Len(free') = Len(pool) - 1
        /\ \A i \in 1 .. Len(free') : free'[i] = pool[i + 1]
    BY <1>1, <1>4, HeadTailProperties
  <2>3. PICK f : f = free'
    OBVIOUS
  <2>4. \A i \in 1 .. Len(f) :
          i + 1 \in 1 .. Len(pool) /\ i + 1 # 1 /\ f[i] = pool[i + 1]
    BY <1>1, <2>2, <2>3
  <2>5. PICK g : g = handle'
    OBVIOUS
  <2>6. /\ g \in [Players -> Handles \cup {NoHandle}]
        /\ \A q \in Players : g[q] # NoHandle <=> q \in H \cup {p}
        /\ g[p] = pool[1] /\ \A q \in H : q # p /\ g[q] = handle[q]
    BY <1>3, <1>4, <2>1, <2>5
  <2>7. PoolTypes(H \cup {p}, g, next, f, co)
    BY <2>2, <2>3, <2>6 DEF PoolOK, PoolTypes
  <2>8. Issued(H \cup {p}, g, next, f, co)
    BY <2>1, <2>4, <2>6 DEF PoolOK, Issued
  <2>9. Conserved(H \cup {p}, g, next, f, co)
    <3> SUFFICES ASSUME NEW h \in 1 .. next - 1
                 PROVE  \/ \E q \in H \cup {p} : g[q] = h
                        \/ \E i \in 1 .. Len(f) : f[i] = h
                        \/ \E i \in 1 .. Len(co) : co[i].handle = h
      BY DEF Conserved
    <3>1. CASE \E i \in 1 .. Len(pool) : pool[i] = h
      <4>1. PICK i \in 1 .. Len(pool) : pool[i] = h
        BY <3>1
      <4>2. CASE i = 1
        BY <2>6, <4>1, <4>2
      <4>3. CASE i # 1
        <5>1. i - 1 \in 1 .. Len(f) /\ (i - 1) + 1 = i
          BY <1>1, <2>2, <2>3, <4>3
        <5> QED
          BY <2>4, <4>1, <5>1
      <4> QED
        BY <4>2, <4>3
    <3>2. CASE ~(\E i \in 1 .. Len(pool) : pool[i] = h)
      BY <2>6, <3>2 DEF PoolOK, Conserved
    <3> QED
      BY <3>1, <3>2
  <2>10. Apart(H \cup {p}, g, f, co)
    BY <2>1, <2>4, <2>6 DEF PoolOK, Apart, Once
  <2>11. Once(H \cup {p}, g, f, co)
    <3>1. \A q, r \in H \cup {p} : g[q] = g[r] => q = r
      BY <2>1, <2>6 DEF PoolOK, Apart, Once
    <3>2. ASSUME NEW i \in 1 .. Len(f), NEW j \in 1 .. Len(f), f[i] = f[j]
          PROVE  i = j
      <4>1. i + 1 = j + 1
        BY <2>4, <3>2 DEF PoolOK, Once
      <4> QED
        BY <1>1, <2>2, <2>3, <4>1
    <3> QED
      BY <3>1, <3>2 DEF PoolOK, Once
  <2> QED
    BY <1>4, <2>3, <2>5, <2>7, <2>8, <2>9, <2>10, <2>11 DEF PoolOK
<1>5. CASE pool = << >> /\ ~Exhausted /\ handle' = [handle EXCEPT ![p] = next]
           /\ free' = << >> /\ next' = next + 1
  <2>1. /\ next \in Handles /\ next' \in 1 .. MaxHandle + 1
        /\ next < next' /\ next' - 1 = next /\ next \in Int /\ next' \in Int
        /\ Len(<< >>) = 0
    BY <1>1, <1>2, <1>5 DEF Exhausted, Handles
  <2>2. PICK g : g = handle'
    OBVIOUS
  <2>3. /\ g \in [Players -> Handles \cup {NoHandle}]
        /\ \A q \in Players : g[q] # NoHandle <=> q \in H \cup {p}
        /\ g[p] = next /\ \A q \in H : q # p /\ g[q] = handle[q]
    BY <1>3, <1>5, <2>1, <2>2
  <2>4. /\ \A q \in H : handle[q] < next /\ handle[q] \in Int
        /\ \A i \in 1 .. Len(co) : co[i].handle < next /\ co[i].handle \in Int
    <3>1. \A i \in 1 .. Len(co) : co[i] \in Entry
      BY <1>1, ElementOfSeq
    <3> QED
      BY <1>1, <3>1 DEF PoolOK, Issued, Entry, Handles, NoHandle
  <2>5. PoolTypes(H \cup {p}, g, next', << >>, co)
    BY <1>1, <2>1, <2>3 DEF PoolOK, PoolTypes
  <2>6. Issued(H \cup {p}, g, next', << >>, co)
    BY <2>1, <2>3, <2>4 DEF Issued
  <2>7. Conserved(H \cup {p}, g, next', << >>, co)
    <3> SUFFICES ASSUME NEW h \in 1 .. next' - 1, h # next
                 PROVE  \/ \E q \in H \cup {p} : g[q] = h
                        \/ \E i \in 1 .. Len(co) : co[i].handle = h
      BY <2>3 DEF Conserved
    <3>0. h \in 1 .. next
      BY <2>1
    <3>1. h \in 1 .. next - 1
      BY <2>1, <3>0
    <3> QED
      BY <1>5, <2>1, <2>3, <3>1 DEF PoolOK, Conserved
  <2>8. Apart(H \cup {p}, g, << >>, co)
    BY <2>1, <2>3, <2>4 DEF PoolOK, Apart
  <2>9. Once(H \cup {p}, g, << >>, co)
    BY <2>1, <2>3, <2>4 DEF PoolOK, Once
  <2> QED
    BY <1>5, <2>2, <2>5, <2>6, <2>7, <2>8, <2>9 DEF PoolOK
<1> QED
  BY <1>4, <1>5 DEF Allocate

\* The handle of a player that leaves starts to rest.
LEMMA ReleaseOK ==
  ASSUME PoolInv, here \subseteq Players, NEW p \in here,
         cooling' = Released(p), handle' = [handle EXCEPT ![p] = NoHandle]
  PROVE  /\ PoolOK(here \ {p}, handle', next, free, cooling')
         /\ Len(cooling') = Len(cooling) + 1
         /\ \A i \in 1 .. Len(cooling) : cooling'[i] = cooling[i]
         /\ cooling'[Len(cooling) + 1] =
              [handle |-> handle[p], left |-> Cooldown, was |-> p]
<1>1. /\ handle \in [Players -> Handles \cup {NoHandle}]
      /\ free \in Seq(Handles) /\ cooling \in Seq(Entry)
      /\ Len(free) \in Nat /\ Len(cooling) \in Nat /\ next \in Int
  BY DEF PoolInv, PoolOK, PoolTypes
<1>2. handle[p] \in Handles
  BY <1>1 DEF PoolInv, PoolOK, PoolTypes
<1> DEFINE e == [handle |-> handle[p], left |-> Cooldown, was |-> p]
<1>3. e \in Entry /\ e.handle = handle[p] /\ cooling' = Append(cooling, e)
  BY <1>2, Numbers DEF Entry, Released
<1> HIDE DEF e
<1>4. PICK c : c = cooling'
  OBVIOUS
<1>5. /\ c \in Seq(Entry) /\ Len(c) = Len(cooling) + 1
      /\ \A i \in 1 .. Len(cooling) : c[i] = cooling[i]
      /\ c[Len(cooling) + 1] = e
  BY <1>1, <1>3, <1>4, AppendProperties
<1>6. /\ \A i \in 1 .. Len(c) : i \in 1 .. Len(cooling) \/ i = Len(cooling) + 1
      /\ \A i \in 1 .. Len(cooling) : i \in 1 .. Len(c)
      /\ Len(cooling) + 1 \in 1 .. Len(c)
  BY <1>1, <1>5
<1>7. PICK g : g = handle'
  OBVIOUS
<1>8. /\ g \in [Players -> Handles \cup {NoHandle}]
      /\ \A q \in Players : g[q] # NoHandle <=> q \in here \ {p}
      /\ \A q \in here \ {p} : q \in here /\ q # p /\ g[q] = handle[q]
  BY <1>1, <1>7, Numbers DEF PoolInv, PoolOK, PoolTypes
<1>9. PoolTypes(here \ {p}, g, next, free, c)
  BY <1>5, <1>8 DEF PoolInv, PoolOK, PoolTypes
<1>10. Issued(here \ {p}, g, next, free, c)
  BY <1>3, <1>5, <1>6, <1>8 DEF PoolInv, PoolOK, Issued
<1>11. Conserved(here \ {p}, g, next, free, c)
  <2> SUFFICES ASSUME NEW h \in 1 .. next - 1
               PROVE  \/ \E q \in here \ {p} : g[q] = h
                      \/ \E i \in 1 .. Len(free) : free[i] = h
                      \/ \E i \in 1 .. Len(c) : c[i].handle = h
    BY DEF Conserved
  <2>1. CASE \E q \in here : handle[q] = h
    BY <1>3, <1>5, <1>6, <1>8, <2>1
  <2>2. CASE \E i \in 1 .. Len(cooling) : cooling[i].handle = h
    BY <1>5, <1>6, <2>2
  <2> QED
    BY <2>1, <2>2 DEF PoolInv, PoolOK, Conserved
<1>12. Apart(here \ {p}, g, free, c)
  <2>1. ASSUME NEW i \in 1 .. Len(c)
        PROVE  /\ \A q \in here \ {p} : g[q] # c[i].handle
               /\ \A j \in 1 .. Len(free) : free[j] # c[i].handle
    <3>1. CASE i \in 1 .. Len(cooling)
      BY <1>5, <1>8, <3>1 DEF PoolInv, PoolOK, Apart
    <3>2. CASE i = Len(cooling) + 1
      BY <1>3, <1>5, <1>8, <3>2 DEF PoolInv, PoolOK, Apart, Once
    <3> QED
      BY <1>6, <3>1, <3>2
  <2> QED
    BY <1>8, <2>1 DEF PoolInv, PoolOK, Apart
<1>13. Once(here \ {p}, g, free, c)
  <2>1. \A i, j \in 1 .. Len(c) : c[i].handle = c[j].handle => i = j
    BY <1>3, <1>5, <1>6 DEF PoolInv, PoolOK, Apart, Once
  <2> QED
    BY <1>8, <2>1 DEF PoolInv, PoolOK, Once
<1> QED
  BY <1>4, <1>5, <1>7, <1>9, <1>10, <1>11, <1>12, <1>13 DEF PoolOK, e

\* Time passes for the resting handles.
LEMMA CloserOK ==
  ASSUME PoolInv
  PROVE  /\ PoolOK(here, handle, next, free, Closer(cooling))
         /\ Len(Closer(cooling)) = Len(cooling)
         /\ \A i \in 1 .. Len(cooling) :
              /\ Closer(cooling)[i].handle = cooling[i].handle
              /\ Closer(cooling)[i].was = cooling[i].was
              /\ Closer(cooling)[i].left \in 0 .. Cooldown
              /\ Closer(cooling)[i].left + 1 >= cooling[i].left
<1>1. cooling \in Seq(Entry) /\ Len(cooling) \in Nat
  BY DEF PoolInv, PoolOK, PoolTypes
<1>2. DOMAIN cooling = 1 .. Len(cooling)
  BY <1>1
<1>3. ASSUME NEW i \in 1 .. Len(cooling)
      PROVE  /\ Closer(cooling)[i] \in Entry
             /\ Closer(cooling)[i].handle = cooling[i].handle
             /\ Closer(cooling)[i].was = cooling[i].was
             /\ Closer(cooling)[i].left \in 0 .. Cooldown
             /\ Closer(cooling)[i].left + 1 >= cooling[i].left
  <2>1. cooling[i] \in Entry
    BY <1>1, ElementOfSeq
  <2>2. Closer(cooling)[i] =
          [cooling[i] EXCEPT !.left = IF @ = 0 THEN 0 ELSE @ - 1]
    BY <1>2 DEF Closer
  <2>3. cooling[i].left \in 0 .. Cooldown
    BY <2>1 DEF Entry
  <2>4. PICK l \in 0 .. Cooldown :
          l = IF cooling[i].left = 0 THEN 0 ELSE cooling[i].left - 1
    BY <2>3, Numbers
  <2>5. Closer(cooling)[i] = [cooling[i] EXCEPT !.left = l]
    BY <2>2, <2>4
  <2>6. l + 1 >= cooling[i].left
    BY <2>3, <2>4, Numbers
  <2> QED
    BY <2>1, <2>5, <2>6 DEF Entry
<1>4. /\ Closer(cooling) \in Seq(Entry) /\ Len(Closer(cooling)) = Len(cooling)
  <2>1. Closer(cooling) = [i \in 1 .. Len(cooling) |-> Closer(cooling)[i]]
    BY <1>2 DEF Closer
  <2> QED
    BY <1>1, <1>3, <2>1
<1>5. PICK c : c = Closer(cooling)
  OBVIOUS
<1>6. /\ c \in Seq(Entry) /\ Len(c) = Len(cooling)
      /\ \A i \in 1 .. Len(cooling) : c[i].handle = cooling[i].handle
  BY <1>3, <1>4, <1>5
<1>7. PoolTypes(here, handle, next, free, c) /\ Issued(here, handle, next, free, c)
  BY <1>6 DEF PoolInv, PoolOK, PoolTypes, Issued
<1>8. Conserved(here, handle, next, free, c)
  BY <1>6 DEF PoolInv, PoolOK, Conserved
<1>9. Apart(here, handle, free, c) /\ Once(here, handle, free, c)
  BY <1>6 DEF PoolInv, PoolOK, Apart, Once
<1> QED
  BY <1>3, <1>4, <1>5, <1>7, <1>8, <1>9 DEF PoolOK
-----------------------------------------------------------------------------
\* Names and handles

\* Two truthful names for one handle are the same.
LEMMA OneName ==
  ASSUME PoolInv, NEW h, NEW q, NEW r, NEW a, NEW b,
         Explained(h, q, a), Explained(h, r, b)
  PROVE  q = r
<1>1. CASE q \in here /\ handle[q] = h
  BY <1>1 DEF Explained, PoolInv, PoolOK, Apart, Once
<1>2. CASE ~(q \in here /\ handle[q] = h)
  <2>1. PICK i \in 1 .. Len(cooling) : cooling[i].handle = h /\ cooling[i].was = q
    BY <1>2 DEF Explained
  <2>2. ~(r \in here /\ handle[r] = h)
    BY <2>1 DEF PoolInv, PoolOK, Apart
  <2>3. PICK j \in 1 .. Len(cooling) : cooling[j].handle = h /\ cooling[j].was = r
    BY <2>2 DEF Explained
  <2> QED
    BY <2>1, <2>3 DEF PoolInv, PoolOK, Once
<1> QED
  BY <1>1, <1>2

\* A handle that comes back has rested too long to be explained by its rest.
LEMMA RestExplains ==
  ASSUME NEW c \in Seq(Entry), NEW n \in 0 .. Len(c), Due(c, n),
         NEW a \in Nat, a < Cooldown,
         NEW i \in 1 .. Len(c), c[i].left + a >= Cooldown
  PROVE  \E j \in 1 .. Len(StillResting(c, n)) : StillResting(c, n)[j] = c[i]
<1>1. Len(c) \in Nat /\ n \in Nat
  OBVIOUS
<1>2. ~(i <= n)
  <2>1. ASSUME i <= n PROVE FALSE
    <3>1. i \in 1 .. n
      BY <1>1, <2>1
    <3>2. c[i].left = 0
      BY <3>1 DEF Due
    <3> QED
      BY <3>2, Numbers
  <2> QED
    BY <2>1
<1>3. PICK j \in 1 .. Len(c) - n : j + n = i
  <2>1. i - n \in 1 .. Len(c) - n /\ (i - n) + n = i
    BY <1>1, <1>2
  <2> QED
    BY <2>1
<1>4. /\ Len(StillResting(c, n)) = Len(c) - n
      /\ StillResting(c, n)[j] = c[j + n]
  BY StillRestingOK
<1> QED
  BY <1>3, <1>4

\* A roster names the owners of the handles.
LEMMA RosterNames ==
  ASSUME NEW H \in SUBSET Players, NEW hd
  PROVE  /\ Roster(H, hd) \in [Handles -> SomePlayer]
         /\ \A h \in Handles :
              Roster(H, hd)[h] # NoPlayer =>
                Roster(H, hd)[h] \in H /\ hd[Roster(H, hd)[h]] = h
<1>1. ASSUME NEW h \in Handles
      PROVE  \/ Roster(H, hd)[h] = NoPlayer
             \/ Roster(H, hd)[h] \in H /\ hd[Roster(H, hd)[h]] = h
  BY DEF Roster
<1>2. Roster(H, hd) \in [Handles -> SomePlayer]
  BY <1>1 DEF Roster, SomePlayer
<1> QED
  BY <1>1, <1>2

\* The links new are the links r with the roster w added to some of C's.
Added(new, r, w, C) ==
  /\ new \in [Players -> Seq(Naming)]
  /\ \A c \in Players : \A i \in 1 .. Len(new[c]) :
       \/ i \in 1 .. Len(r[c]) /\ new[c][i] = r[c][i]
       \/ new[c][i] = [who |-> w, age |-> 0]
  /\ \A c \in Players \ C : new[c] = r[c]

LEMMA WithRosterOK ==
  ASSUME NEW r \in [Players -> Seq(Naming)], NEW w \in [Handles -> SomePlayer],
         NEW C, NEW new, new = WithRoster(r, C, w)
  PROVE  Added(new, r, w, C)
<1> DEFINE e == [who |-> w, age |-> 0]
<1>1. e \in Naming
  BY DEF Naming
<1> HIDE DEF e
<1>2. ASSUME NEW c \in Players
      PROVE  /\ new[c] \in Seq(Naming)
             /\ \A i \in 1 .. Len(new[c]) :
                  \/ i \in 1 .. Len(r[c]) /\ new[c][i] = r[c][i]
                  \/ new[c][i] = e
             /\ c \notin C => new[c] = r[c]
  <2>1. CASE c \in C
    <3>1. PICK s : s = new[c]
      OBVIOUS
    <3>2. s = Append(r[c], e)
      BY <2>1, <3>1 DEF WithRoster, e
    <3>3. /\ s \in Seq(Naming) /\ Len(s) = Len(r[c]) + 1
          /\ \A i \in 1 .. Len(r[c]) : s[i] = r[c][i]
          /\ s[Len(r[c]) + 1] = e
      BY <1>1, <3>2, AppendProperties
    <3>4. Len(r[c]) \in Nat
      OBVIOUS
    <3>5. \A i \in 1 .. Len(s) : i \in 1 .. Len(r[c]) \/ i = Len(r[c]) + 1
      BY <3>3, <3>4
    <3> QED
      BY <2>1, <3>1, <3>3, <3>5
  <2>2. CASE c \notin C
    <3>1. new[c] = r[c]
      BY <2>2 DEF WithRoster
    <3> QED
      BY <2>2, <3>1
  <2> QED
    BY <2>1, <2>2
<1>3. new \in [Players -> Seq(Naming)]
  BY <1>2 DEF WithRoster
<1> QED
  BY <1>2, <1>3 DEF Added, e

\* What was explained stays explained when handles that have rested come back
\* and the players in the match keep theirs.
LEMMA ExplainedKept ==
  ASSUME PoolInv, NEW n \in 0 .. Len(cooling), Due(cooling, n),
         cooling' = StillResting(cooling, n),
         \A q \in here : q \in here' /\ handle'[q] = handle[q],
         NEW h, NEW q, NEW a \in Nat, a < Cooldown, Explained(h, q, a)
  PROVE  Explained(h, q, a)'
<1>1. CASE q \in here /\ handle[q] = h
  BY <1>1 DEF Explained
<1>2. CASE ~(q \in here /\ handle[q] = h)
  <2>1. PICK i \in 1 .. Len(cooling) :
          /\ cooling[i].handle = h /\ cooling[i].was = q
          /\ cooling[i].left + a >= Cooldown
    BY <1>2 DEF Explained
  <2>2. cooling \in Seq(Entry)
    BY DEF PoolInv, PoolOK, PoolTypes
  <2>3. PICK j \in 1 .. Len(cooling') : cooling'[j] = cooling[i]
    BY <2>1, <2>2, RestExplains
  <2> QED
    BY <2>1, <2>3 DEF Explained
<1> QED
  BY <1>1, <1>2

\* A step keeps what is explained.
KeepsExplained ==
  \A h \in Handles, q \in Players, a \in Nat :
    a < Cooldown /\ Explained(h, q, a) => Explained(h, q, a)'

LEMMA TruthKept ==
  ASSUME KeepsExplained, NEW w \in [Handles -> SomePlayer],
         NEW a \in Nat, a < Cooldown, Truthful(w, a)
  PROVE  Truthful(w, a)'
BY DEF KeepsExplained, Truthful, SomePlayer

\* The rosters in flight after a step that at most sends new ones.
RostersFrom ==
  \A c \in Players : \A i \in 1 .. Len(rosters'[c]) :
    \/ \E j \in 1 .. Len(rosters[c]) : rosters'[c][i] = rosters[c][j]
    \/ rosters'[c][i] = [who |-> Roster(here', handle'), age |-> 0]

SnapsFrom ==
  \A c \in Players : \A i \in 1 .. Len(snaps'[c]) :
    \E j \in 1 .. Len(snaps[c]) : snaps'[c][i] = snaps[c][j]

LEMMA FlightTypes ==
  ASSUME TellTypes, NEW c \in Players
  PROVE  /\ \A i \in 1 .. Len(rosters[c]) :
              /\ rosters[c][i] \in Naming
              /\ rosters[c][i].who \in [Handles -> SomePlayer]
              /\ rosters[c][i].age \in Nat
         /\ \A i \in 1 .. Len(snaps[c]) :
              /\ snaps[c][i] \in Naming
              /\ snaps[c][i].who \in [Handles -> SomePlayer]
              /\ snaps[c][i].age \in Nat
<1>1. rosters[c] \in Seq(Naming) /\ snaps[c] \in Seq(Naming)
  BY DEF TellTypes
<1>2. /\ \A i \in 1 .. Len(rosters[c]) : rosters[c][i] \in Naming
      /\ \A i \in 1 .. Len(snaps[c]) : snaps[c][i] \in Naming
  BY <1>1, ElementOfSeq
<1> QED
  BY <1>2 DEF Naming

LEMMA RostersStep ==
  ASSUME TellTypes, Young, AllTruthful, KeepsExplained, RostersFrom,
         here' \subseteq Players
  PROVE  \A c \in Players : \A i \in 1 .. Len(rosters'[c]) :
           /\ rosters'[c][i].age < MaxSilence
           /\ Truthful(rosters[c][i].who, rosters[c][i].age)'
<1> SUFFICES ASSUME NEW c \in Players, NEW i \in 1 .. Len(rosters'[c])
             PROVE  /\ rosters'[c][i].age < MaxSilence
                    /\ Truthful(rosters[c][i].who, rosters[c][i].age)'
  OBVIOUS
<1>1. CASE \E j \in 1 .. Len(rosters[c]) : rosters'[c][i] = rosters[c][j]
  <2>1. PICK j \in 1 .. Len(rosters[c]) : rosters'[c][i] = rosters[c][j]
    BY <1>1
  <2>2. PICK m : m = rosters[c][j]
    OBVIOUS
  <2>3. /\ m.who \in [Handles -> SomePlayer] /\ m.age \in Nat
        /\ m.age < MaxSilence /\ Truthful(m.who, m.age)
    BY <2>2, FlightTypes DEF Young, AllTruthful
  <2>4. Truthful(m.who, m.age)'
    BY <2>3, TruthKept, Numbers
  <2>5. rosters'[c][i] = m
    BY <2>1, <2>2
  <2> QED
    BY <2>3, <2>4, <2>5 DEF Truthful
<1>2. CASE rosters'[c][i] = [who |-> Roster(here', handle'), age |-> 0]
  <2>1. \A h \in Handles :
          Roster(here', handle')[h] # NoPlayer =>
            /\ Roster(here', handle')[h] \in here'
            /\ handle'[Roster(here', handle')[h]] = h
    BY RosterNames
  <2> QED
    BY <1>2, <2>1, Numbers DEF Truthful, Explained
<1> QED
  BY <1>1, <1>2 DEF RostersFrom

LEMMA SnapsStep ==
  ASSUME TellTypes, Young, AllTruthful, KeepsExplained, SnapsFrom
  PROVE  \A c \in Players : \A i \in 1 .. Len(snaps'[c]) :
           /\ snaps'[c][i].age < MaxDelay
           /\ Truthful(snaps[c][i].who, snaps[c][i].age)'
<1> SUFFICES ASSUME NEW c \in Players, NEW i \in 1 .. Len(snaps'[c])
             PROVE  /\ snaps'[c][i].age < MaxDelay
                    /\ Truthful(snaps[c][i].who, snaps[c][i].age)'
  OBVIOUS
<1>1. PICK j \in 1 .. Len(snaps[c]) : snaps'[c][i] = snaps[c][j]
  BY DEF SnapsFrom
<1>2. PICK m : m = snaps[c][j]
  OBVIOUS
<1>3. /\ m.who \in [Handles -> SomePlayer] /\ m.age \in Nat
      /\ m.age < MaxDelay /\ Truthful(m.who, m.age)
  BY <1>2, FlightTypes DEF Young, AllTruthful
<1>4. Truthful(m.who, m.age)'
  BY <1>3, TruthKept, Numbers
<1>5. snaps'[c][i] = m
  BY <1>1, <1>2
<1> QED
  BY <1>3, <1>4, <1>5 DEF Truthful
-----------------------------------------------------------------------------
\* The steps

LEMMA InvInit == Init => Inv
<1> SUFFICES ASSUME Init PROVE Inv
  OBVIOUS
<1>1. Nobody \in [Handles -> SomePlayer] /\ \A h \in Handles : Nobody[h] = NoPlayer
  BY DEF Nobody, SomePlayer
<1>2. /\ here = {} /\ free = << >> /\ cooling = << >> /\ next = 1
      /\ handle = [p \in Players |-> NoHandle] /\ phase = 0
      /\ came = {} /\ refused = {}
  BY DEF Init
<1>3. /\ \A c \in Players : /\ names[c] = Nobody /\ age[c] = 0
                             /\ rosters[c] = << >> /\ snaps[c] = << >>
      /\ TellTypes
  BY <1>1 DEF Init, TellTypes
<1>4. Len(<< >>) = 0 /\ << >> \in Seq(Handles) /\ << >> \in Seq(Entry)
  OBVIOUS
<1>5. PeopleOK
  BY <1>2, Numbers DEF PeopleOK
<1>6. PoolInv
  BY <1>2, <1>4, Numbers
  DEF PoolInv, PoolOK, PoolTypes, Issued, Conserved, Apart, Once, NoHandle
<1>7. Young /\ AllTruthful /\ Forgotten
  BY <1>1, <1>3, <1>4, Numbers DEF Young, AllTruthful, Truthful, Forgotten
<1>8. ShownOK
  BY DEF Init, ShownOK, TrueNames, SomePlayer
<1> QED
  BY <1>3, <1>5, <1>6, <1>7, <1>8 DEF Inv

\* What each client knows after a step in which no time passes.
NamesFrom ==
  \A c \in Players :
    \/ names'[c] = names[c] /\ age'[c] = age[c]
    \/ names'[c] = Nobody /\ age'[c] = 0
    \/ \E j \in 1 .. Len(rosters[c]) :
         names'[c] = rosters[c][j].who /\ age'[c] = rosters[c][j].age

LEMMA TellStep ==
  ASSUME Inv, KeepsExplained, NamesFrom, RostersFrom, SnapsFrom,
         here' \subseteq Players
  PROVE  Young' /\ AllTruthful'
<1>1. ASSUME NEW c \in Players
      PROVE  age'[c] < MaxSilence /\ Truthful(names[c], age[c])'
  <2>1. PICK w, a : w = names'[c] /\ a = age'[c]
    OBVIOUS
  <2>2. CASE w = Nobody /\ a = 0
    BY <2>1, <2>2, Numbers DEF Truthful, Nobody
  <2>3. CASE w = names[c] /\ a = age[c]
    <3>1. /\ w \in [Handles -> SomePlayer] /\ a \in Nat /\ a < MaxSilence
          /\ Truthful(w, a)
      BY <2>3 DEF Inv, TellTypes, Young, AllTruthful
    <3>2. Truthful(w, a)'
      BY <3>1, TruthKept, Numbers
    <3> QED
      BY <2>1, <3>1, <3>2 DEF Truthful
  <2>4. CASE \E j \in 1 .. Len(rosters[c]) :
               w = rosters[c][j].who /\ a = rosters[c][j].age
    <3>1. PICK j \in 1 .. Len(rosters[c]) :
            w = rosters[c][j].who /\ a = rosters[c][j].age
      BY <2>4
    <3>2. /\ w \in [Handles -> SomePlayer] /\ a \in Nat /\ a < MaxSilence
          /\ Truthful(w, a)
      BY <3>1, FlightTypes DEF Inv, Young, AllTruthful
    <3>3. Truthful(w, a)'
      BY <3>2, TruthKept, Numbers
    <3> QED
      BY <2>1, <3>2, <3>3 DEF Truthful
  <2> QED
    BY <2>1, <2>2, <2>3, <2>4 DEF NamesFrom
<1> QED
  BY <1>1, RostersStep, SnapsStep DEF Young, AllTruthful, Inv

\* A roster sync.
LEMMA SyncOK ==
  ASSUME TellTypes, here' \subseteq Players, NEW M, RosterSync(M)
  PROVE  /\ rosters' \in [Players -> Seq(Naming)] /\ RostersFrom
         /\ \A c \in Players \ here' : rosters'[c] = rosters[c]
<1>1. PICK C \in SUBSET here' :
        rosters' = WithRoster(rosters, C, Roster(here', handle'))
  BY DEF RosterSync
<1>2. PICK w, r, s : w = Roster(here', handle') /\ r = rosters /\ s = rosters'
  OBVIOUS
<1>3. w \in [Handles -> SomePlayer] /\ r \in [Players -> Seq(Naming)]
  BY <1>2, RosterNames DEF TellTypes
<1>4. Added(s, r, w, C)
  BY <1>1, <1>2, <1>3, WithRosterOK
<1>5. Added(rosters', rosters, Roster(here', handle'), C)
  BY <1>2, <1>4
<1> QED
  BY <1>5 DEF Added, RostersFrom

LEMMA ConnectInv ==
  ASSUME Inv, NEW p \in Players, Connect(p)
  PROVE  Inv'
<1>1. PICK n \in 0 .. Len(cooling) :
        /\ Due(cooling, n) /\ cooling' = StillResting(cooling, n)
        /\ \/ /\ Allocate(p, Pool(cooling, n))
              /\ here' = here \cup {p} /\ refused' = refused
              /\ RosterSync({p})
           \/ /\ Pool(cooling, n) = << >> /\ Exhausted
              /\ refused' = refused \cup {p}
              /\ UNCHANGED <<here, handle, next, free, rosters>>
  BY DEF Connect
<1>2. /\ p \notin came /\ came' = came \cup {p} /\ phase' = phase
      /\ UNCHANGED <<names, age, shown, snaps>>
  BY DEF Connect, clientVars
<1>3. /\ here \subseteq Players /\ p \notin here /\ p \notin refused
      /\ came \subseteq Players
  BY <1>2 DEF Inv, PeopleOK
<1>4. PoolOK(here, handle, next, Pool(cooling, n), cooling')
  BY <1>1, ReclaimOK DEF Inv, PoolInv
<1>5. handle \in [Players -> Handles \cup {NoHandle}]
  BY DEF Inv, PoolInv, PoolOK, PoolTypes
<1>6. CASE /\ Allocate(p, Pool(cooling, n))
           /\ here' = here \cup {p} /\ refused' = refused
           /\ RosterSync({p})
  <2>1. PICK co : co = cooling'
    OBVIOUS
  <2>2. PoolOK(here \cup {p}, handle', next', free', co)
    BY <1>3, <1>4, <1>6, <2>1, AllocateOK
  <2>3. PoolInv'
    BY <1>6, <2>1, <2>2 DEF PoolInv
  <2>4. \A q \in here : q \in here' /\ handle'[q] = handle[q]
    BY <1>3, <1>5, <1>6 DEF Allocate
  <2>5. KeepsExplained
    BY <1>1, <2>4, ExplainedKept DEF KeepsExplained, Inv
  <2>6. here' \subseteq Players
    BY <1>3, <1>6
  <2>10. /\ rosters' \in [Players -> Seq(Naming)] /\ RostersFrom
         /\ \A c \in Players \ here' : rosters'[c] = rosters[c]
    BY <1>6, <2>6, SyncOK DEF Inv
  <2>11. SnapsFrom /\ NamesFrom
    BY <1>2 DEF SnapsFrom, NamesFrom
  <2>12. Young' /\ AllTruthful'
    BY <2>5, <2>6, <2>10, <2>11, TellStep
  <2>13. Forgotten'
    BY <1>2, <1>6, <2>10 DEF Forgotten, Inv
  <2>14. PeopleOK' /\ TellTypes'
    BY <1>2, <1>3, <1>6, <2>10 DEF PeopleOK, TellTypes, Inv
  <2>15. ShownOK'
    BY <1>2 DEF ShownOK, TrueNames, Inv
  <2> QED
    BY <2>3, <2>12, <2>13, <2>14, <2>15 DEF Inv
<1>7. CASE /\ Pool(cooling, n) = << >> /\ Exhausted
           /\ refused' = refused \cup {p}
           /\ UNCHANGED <<here, handle, next, free, rosters>>
  <2>1. Pool(cooling, n) = free
    <3>1. /\ free \in Seq(Handles) /\ cooling \in Seq(Entry)
          /\ Len(free) \in Nat /\ n \in Nat
      BY DEF Inv, PoolInv, PoolOK, PoolTypes
    <3>2. Len(free) + n = 0
      BY <1>7, <3>1, PoolSeq
    <3>3. Len(free) = 0
      BY <3>1, <3>2
    <3> QED
      BY <1>7, <3>1, <3>3, EmptySeq
  <2>2. PICK co : co = cooling'
    OBVIOUS
  <2>3. PoolInv'
    BY <1>4, <1>7, <2>1, <2>2 DEF PoolInv
  <2>4. KeepsExplained
    BY <1>1, <1>7, ExplainedKept DEF KeepsExplained, Inv
  <2>5. RostersFrom /\ SnapsFrom /\ NamesFrom
    BY <1>2, <1>7 DEF RostersFrom, SnapsFrom, NamesFrom
  <2>6. Young' /\ AllTruthful'
    BY <1>3, <1>7, <2>4, <2>5, TellStep
  <2>7. Forgotten' /\ PeopleOK' /\ TellTypes'
    BY <1>2, <1>3, <1>7 DEF Forgotten, PeopleOK, TellTypes, Inv
  <2>8. ShownOK'
    BY <1>2 DEF ShownOK, TrueNames, Inv
  <2> QED
    BY <2>3, <2>6, <2>7, <2>8 DEF Inv
<1> QED
  BY <1>1, <1>6, <1>7

LEMMA DisconnectInv ==
  ASSUME Inv, NEW p \in Players, Disconnect(p)
  PROVE  Inv'
<1>1. /\ p \in here /\ here' = here \ {p}
      /\ cooling' = Released(p)
      /\ handle' = [handle EXCEPT ![p] = NoHandle]
      /\ names' = [names EXCEPT ![p] = Nobody]
      /\ age' = [age EXCEPT ![p] = 0]
      /\ shown' = [shown EXCEPT ![p] = [q \in Players |-> NoPlayer]]
      /\ snaps' = [snaps EXCEPT ![p] = << >>]
      /\ UNCHANGED <<came, refused, next, free, phase>>
  BY DEF Disconnect
<1>2. PICK C \in SUBSET here' :
        rosters' = WithRoster([rosters EXCEPT ![p] = << >>], C,
                              Roster(here', handle'))
  BY DEF Disconnect
<1>3. here \subseteq Players /\ here' \subseteq Players /\ p \notin C
  BY <1>1 DEF Inv, PeopleOK
<1>4. handle \in [Players -> Handles \cup {NoHandle}]
  BY DEF Inv, PoolInv, PoolOK, PoolTypes
<1>5. PICK c : c = cooling'
  OBVIOUS
<1>6. /\ PoolOK(here \ {p}, handle', next, free, c)
      /\ Len(c) = Len(cooling) + 1
      /\ \A i \in 1 .. Len(cooling) : c[i] = cooling[i]
      /\ c[Len(cooling) + 1] =
           [handle |-> handle[p], left |-> Cooldown, was |-> p]
  BY <1>1, <1>3, <1>5, ReleaseOK DEF Inv
<1>7. PoolInv'
  BY <1>1, <1>5, <1>6 DEF PoolInv
<1>8. Len(cooling) \in Nat
  BY DEF Inv, PoolInv, PoolOK, PoolTypes
<1>9. /\ \A i \in 1 .. Len(cooling) : i \in 1 .. Len(c)
      /\ Len(cooling) + 1 \in 1 .. Len(c)
  BY <1>6, <1>8
<1>10. KeepsExplained
  <2> SUFFICES ASSUME NEW h \in Handles, NEW q \in Players, NEW a \in Nat,
                      a < Cooldown, Explained(h, q, a)
               PROVE  Explained(h, q, a)'
    BY DEF KeepsExplained
  <2>1. CASE q = p /\ handle[q] = h
    <3>1. Cooldown + a >= Cooldown
      BY Numbers
    <3> QED
      BY <1>5, <1>6, <1>9, <2>1, <3>1 DEF Explained
  <2>2. CASE q # p /\ q \in here /\ handle[q] = h
    BY <1>1, <1>3, <1>4, <2>2 DEF Explained
  <2>3. CASE ~(q \in here /\ handle[q] = h)
    BY <1>5, <1>6, <1>9, <2>3 DEF Explained
  <2> QED
    BY <2>1, <2>2, <2>3
<1>11. [rosters EXCEPT ![p] = << >>] \in [Players -> Seq(Naming)]
  BY DEF Inv, TellTypes
<1>12. Roster(here', handle') \in [Handles -> SomePlayer]
  BY <1>3, RosterNames
<1>13. PICK r : r = [rosters EXCEPT ![p] = << >>]
  OBVIOUS
<1>14. /\ rosters' \in [Players -> Seq(Naming)]
       /\ \A d \in Players : \A i \in 1 .. Len(rosters'[d]) :
            \/ i \in 1 .. Len(r[d]) /\ rosters'[d][i] = r[d][i]
            \/ rosters'[d][i] = [who |-> Roster(here', handle'), age |-> 0]
       /\ \A d \in Players \ C : rosters'[d] = r[d]
  <2>1. PICK w, s : w = Roster(here', handle') /\ s = rosters'
    OBVIOUS
  <2>2. /\ w \in [Handles -> SomePlayer] /\ r \in [Players -> Seq(Naming)]
        /\ s = WithRoster(r, C, w)
    BY <1>2, <1>11, <1>12, <1>13, <2>1
  <2>3. Added(s, r, w, C)
    BY <2>2, WithRosterOK
  <2> QED
    BY <2>1, <2>3 DEF Added
<1>15. /\ Len(<< >>) = 0
       /\ \A d \in Players \ {p} : r[d] = rosters[d]
       /\ r[p] = << >>
  BY <1>1, <1>3, <1>13 DEF Inv, TellTypes
<1>23. RostersFrom
  BY <1>14, <1>15 DEF RostersFrom
<1>16. /\ snaps' \in [Players -> Seq(Naming)]
       /\ \A d \in Players \ {p} : snaps'[d] = snaps[d]
       /\ snaps'[p] = << >>
  BY <1>1, <1>3 DEF Inv, TellTypes
<1>17. SnapsFrom
  BY <1>15, <1>16 DEF SnapsFrom
<1>18. /\ names' \in [Players -> [Handles -> SomePlayer]]
       /\ age' \in [Players -> Nat]
       /\ NamesFrom /\ names'[p] = Nobody
       /\ \A d \in Players \ {p} : names'[d] = names[d]
  BY <1>1 DEF Inv, TellTypes, NamesFrom, Nobody, SomePlayer
<1>19. Young' /\ AllTruthful'
  BY <1>3, <1>10, <1>17, <1>18, <1>23, TellStep
<1>20. Forgotten'
  <2> SUFFICES ASSUME NEW d \in Players \ here'
               PROVE  names'[d] = Nobody /\ rosters'[d] = << >> /\ snaps'[d] = << >>
    BY DEF Forgotten
  <2>1. rosters'[d] = r[d]
    BY <1>14
  <2> QED
    BY <1>1, <1>15, <1>16, <1>18, <2>1 DEF Inv, Forgotten
<1>21. PeopleOK' /\ TellTypes'
  BY <1>1, <1>14, <1>16, <1>18 DEF Inv, PeopleOK, TellTypes
<1>22. ShownOK'
  BY <1>1 DEF Inv, ShownOK, TrueNames, SomePlayer
<1> QED
  BY <1>7, <1>19, <1>20, <1>21, <1>22 DEF Inv

LEMMA GiveUpInv ==
  ASSUME Inv, NEW p \in Players, GiveUp(p)
  PROVE  Inv'
<1>1. /\ refused' = refused \ {p} /\ here' = here /\ handle' = handle
      /\ RosterSync({})
      /\ UNCHANGED <<came, next, free, cooling, phase, names, age, shown, snaps>>
  BY DEF GiveUp, clientVars
<1>2. here' \subseteq Players
  BY <1>1 DEF Inv, PeopleOK
<1>3. /\ rosters' \in [Players -> Seq(Naming)] /\ RostersFrom
      /\ \A c \in Players \ here' : rosters'[c] = rosters[c]
  BY <1>1, <1>2, SyncOK DEF Inv
<1>4. KeepsExplained
  BY <1>1 DEF KeepsExplained, Explained
<1>5. SnapsFrom /\ NamesFrom
  BY <1>1 DEF SnapsFrom, NamesFrom
<1>6. Young' /\ AllTruthful'
  BY <1>2, <1>3, <1>4, <1>5, TellStep
<1>7. PoolInv'
  BY <1>1 DEF Inv, PoolInv
<1>8. PeopleOK' /\ TellTypes' /\ Forgotten'
  BY <1>1, <1>3 DEF Inv, PeopleOK, TellTypes, Forgotten
<1>9. ShownOK'
  BY <1>1 DEF Inv, ShownOK, TrueNames
<1> QED
  BY <1>6, <1>7, <1>8, <1>9 DEF Inv

\* Steps of the clients and of the network leave the server alone.
ServerAlone ==
  UNCHANGED <<came, here, refused, handle, next, free, cooling, phase>>

LEMMA ServerAloneOK ==
  ASSUME Inv, ServerAlone
  PROVE  /\ PeopleOK' /\ PoolInv' /\ KeepsExplained
         /\ here' = here /\ here' \subseteq Players
<1>1. PeopleOK' /\ here' = here /\ here' \subseteq Players
  BY DEF Inv, PeopleOK, ServerAlone
<1>2. PoolInv'
  BY DEF Inv, PoolInv, ServerAlone
<1>3. KeepsExplained
  BY DEF ServerAlone, KeepsExplained, Explained
<1> QED
  BY <1>1, <1>2, <1>3

LEMMA ReceiveRosterInv ==
  ASSUME Inv, NEW c \in Players, ReceiveRoster(c)
  PROVE  Inv'
<1>1. /\ rosters[c] # << >>
      /\ names' = [names EXCEPT ![c] = rosters[c][1].who]
      /\ age' = [age EXCEPT ![c] = rosters[c][1].age]
      /\ shown' = [shown EXCEPT ![c] = Kept(c, rosters[c][1].who)]
      /\ rosters' = [rosters EXCEPT ![c] = Tail(@)]
      /\ UNCHANGED snaps
  BY DEF ReceiveRoster
<1>2. ServerAlone
  BY DEF ReceiveRoster, poolVars, ServerAlone
<1>3. rosters[c] \in Seq(Naming) /\ c \in here /\ Len(rosters[c]) \in Nat
  BY <1>1 DEF Inv, TellTypes, Forgotten
<1>4. 1 \in 1 .. Len(rosters[c])
  BY <1>1, <1>3, EmptySeq
<1>5. PICK t : t = Tail(rosters[c])
  OBVIOUS
<1>6. /\ t \in Seq(Naming) /\ Len(t) = Len(rosters[c]) - 1
      /\ \A i \in 1 .. Len(t) : t[i] = rosters[c][i + 1]
  BY <1>1, <1>3, <1>5, HeadTailProperties
<1>7. \A i \in 1 .. Len(t) : \E j \in 1 .. Len(rosters[c]) : t[i] = rosters[c][j]
  <2>1. \A i \in 1 .. Len(t) : i + 1 \in 1 .. Len(rosters[c])
    BY <1>3, <1>6
  <2> QED
    BY <1>6, <2>1
<1>8. /\ rosters' \in [Players -> Seq(Naming)] /\ rosters'[c] = t
      /\ \A d \in Players \ {c} : rosters'[d] = rosters[d]
  BY <1>1, <1>5, <1>6 DEF Inv, TellTypes
<1>9. RostersFrom
  BY <1>7, <1>8 DEF RostersFrom
<1>10. PICK w, a : w = rosters[c][1].who /\ a = rosters[c][1].age
  OBVIOUS
<1>11. w \in [Handles -> SomePlayer] /\ a \in Nat
  BY <1>4, <1>10, FlightTypes DEF Inv
<1>12. /\ names' = [names EXCEPT ![c] = w] /\ age' = [age EXCEPT ![c] = a]
       /\ shown' = [shown EXCEPT ![c] = Kept(c, w)]
  BY <1>1, <1>10
<1>13. /\ names' \in [Players -> [Handles -> SomePlayer]]
       /\ age' \in [Players -> Nat] /\ names'[c] = w /\ age'[c] = a
       /\ \A d \in Players \ {c} : names'[d] = names[d] /\ age'[d] = age[d]
  BY <1>11, <1>12 DEF Inv, TellTypes
<1>14. NamesFrom /\ SnapsFrom
  BY <1>1, <1>4, <1>10, <1>13 DEF NamesFrom, SnapsFrom
<1>15. Young' /\ AllTruthful'
  BY <1>2, <1>9, <1>14, ServerAloneOK, TellStep
<1>16. TellTypes'
  BY <1>1, <1>8, <1>13 DEF Inv, TellTypes
<1>17. Forgotten'
  BY <1>1, <1>2, <1>3, <1>8, <1>13, ServerAloneOK DEF Inv, Forgotten
<1>18. Kept(c, w) \in [Players -> SomePlayer]
       /\ \A q \in Players : Kept(c, w)[q] \in {NoPlayer, q}
  BY DEF Inv, ShownOK, TrueNames, Kept, SomePlayer
<1>19. ShownOK'
  BY <1>12, <1>18 DEF Inv, ShownOK, TrueNames
<1> QED
  BY <1>2, <1>15, <1>16, <1>17, <1>19, ServerAloneOK DEF Inv

LEMMA SnapsFewer ==
  ASSUME Inv, NEW c \in Players, NEW t \in Seq(Naming),
         \A i \in 1 .. Len(t) : \E j \in 1 .. Len(snaps[c]) : t[i] = snaps[c][j],
         snaps' = [snaps EXCEPT ![c] = t], snaps[c] # << >>,
         ServerAlone, UNCHANGED <<names, age, rosters>>
  PROVE  /\ PeopleOK' /\ PoolInv' /\ TellTypes' /\ Young' /\ AllTruthful'
         /\ Forgotten'
<1>1. c \in here
  BY DEF Inv, Forgotten
<1>2. /\ snaps' \in [Players -> Seq(Naming)] /\ snaps'[c] = t
      /\ \A d \in Players \ {c} : snaps'[d] = snaps[d]
  BY DEF Inv, TellTypes
<1>3. SnapsFrom
  BY <1>2 DEF SnapsFrom
<1>4. NamesFrom /\ RostersFrom
  BY DEF NamesFrom, RostersFrom
<1>5. Young' /\ AllTruthful'
  BY <1>3, <1>4, ServerAloneOK, TellStep
<1>6. TellTypes'
  BY <1>2 DEF Inv, TellTypes
<1>7. Forgotten'
  BY <1>1, <1>2, ServerAloneOK DEF Inv, Forgotten
<1> QED
  BY <1>5, <1>6, <1>7, ServerAloneOK

LEMMA LoseSnapshotInv ==
  ASSUME Inv, NEW c \in Players, LoseSnapshot(c)
  PROVE  Inv'
<1>1. PICK i \in DOMAIN snaps[c] : snaps' = [snaps EXCEPT ![c] = Without(@, i)]
  BY DEF LoseSnapshot
<1>2. ServerAlone /\ UNCHANGED <<names, age, rosters, shown>>
  BY DEF LoseSnapshot, poolVars, clientVars, ServerAlone
<1>3. snaps[c] \in Seq(Naming) /\ Len(snaps[c]) \in Nat
  BY DEF Inv, TellTypes
<1>4. i \in 1 .. Len(snaps[c]) /\ snaps[c] # << >>
  BY <1>3
<1>5. PICK t : t = Without(snaps[c], i)
  OBVIOUS
<1>6. /\ t \in Seq(Naming)
      /\ \A k \in 1 .. Len(t) : \E j \in 1 .. Len(snaps[c]) : t[k] = snaps[c][j]
  <2>1. /\ t \in Seq(Naming) /\ Len(t) = Len(snaps[c]) - 1
        /\ \A j \in 1 .. Len(snaps[c]) - 1 :
             t[j] = snaps[c][IF j < i THEN j ELSE j + 1]
    BY <1>3, <1>4, <1>5, WithoutOK
  <2>2. \A j \in 1 .. Len(snaps[c]) - 1 :
          (IF j < i THEN j ELSE j + 1) \in 1 .. Len(snaps[c])
    BY <1>3, <1>4
  <2> QED
    BY <2>1, <2>2
<1>7. /\ PeopleOK' /\ PoolInv' /\ TellTypes' /\ Young' /\ AllTruthful'
      /\ Forgotten'
  BY <1>1, <1>2, <1>4, <1>5, <1>6, SnapsFewer
<1>8. ShownOK'
  BY <1>2 DEF Inv, ShownOK, TrueNames
<1> QED
  BY <1>7, <1>8 DEF Inv

LEMMA ReceiveSnapshotInv ==
  ASSUME Inv, NEW c \in Players, ReceiveSnapshot(c)
  PROVE  Inv'
<1>1. PICK i \in MayArrive(snaps[c]), H \in SUBSET Handles :
        /\ shown' = [shown EXCEPT ![c] =
             [q \in Players |-> Updated(c, snaps[c][i].who, H, q)]]
        /\ snaps' = [snaps EXCEPT ![c] = SubSeq(@, i + 1, Len(@))]
  BY DEF ReceiveSnapshot
<1>2. ServerAlone /\ UNCHANGED <<names, age, rosters>>
  BY DEF ReceiveSnapshot, poolVars, ServerAlone
<1>3. snaps[c] \in Seq(Naming) /\ Len(snaps[c]) \in Nat
  BY DEF Inv, TellTypes
<1>4. i \in 1 .. Len(snaps[c]) /\ snaps[c] # << >>
  BY <1>3, ArrivalInRange
<1>5. PICK t : t = SubSeq(snaps[c], i + 1, Len(snaps[c]))
  OBVIOUS
<1>6. /\ t \in Seq(Naming)
      /\ \A k \in 1 .. Len(t) : \E j \in 1 .. Len(snaps[c]) : t[k] = snaps[c][j]
  <2>1. /\ t \in Seq(Naming) /\ Len(t) = Len(snaps[c]) - i
        /\ \A k \in 1 .. Len(snaps[c]) - i : t[k] = snaps[c][k + i]
    BY <1>3, <1>4, <1>5
  <2>2. \A k \in 1 .. Len(t) : k + i \in 1 .. Len(snaps[c])
    BY <1>3, <1>4, <2>1
  <2> QED
    BY <2>1, <2>2
<1>7. /\ PeopleOK' /\ PoolInv' /\ TellTypes' /\ Young' /\ AllTruthful'
      /\ Forgotten'
  <2>1. snaps' = [snaps EXCEPT ![c] = t]
    BY <1>1, <1>5
  <2> QED
    BY <1>2, <1>4, <1>6, <2>1, SnapsFewer
<1>8. PICK w, a : w = snaps[c][i].who /\ a = snaps[c][i].age
  OBVIOUS
<1>9. Truthful(w, a) /\ w \in [Handles -> SomePlayer]
  BY <1>4, <1>8, FlightTypes DEF Inv, AllTruthful
<1>10. Truthful(names[c], age[c])
  BY DEF Inv, AllTruthful
<1>11. ASSUME NEW q \in Players
       PROVE  Updated(c, w, H, q) \in {NoPlayer, q}
  <2> DEFINE named == {h \in H : w[h] # NoPlayer /\ names[c][h] = q}
  <2>1. ASSUME NEW h \in named PROVE w[h] = q
    <3>1. /\ h \in Handles /\ w[h] # NoPlayer /\ names[c][h] = q
          /\ q # NoPlayer
      BY Numbers
    <3>2. Explained(h, w[h], a) /\ Explained(h, q, age[c])
      BY <1>9, <1>10, <3>1 DEF Truthful
    <3> QED
      BY <3>2, OneName DEF Inv
  <2>2. shown[c][q] \in {NoPlayer, q}
    BY DEF Inv, ShownOK, TrueNames
  <2> QED
    BY <2>1, <2>2 DEF Updated
<1>12. ShownOK'
  <2>1. shown' = [shown EXCEPT ![c] = [q \in Players |-> Updated(c, w, H, q)]]
    BY <1>1, <1>8
  <2> QED
    BY <1>11, <2>1 DEF Inv, ShownOK, TrueNames, SomePlayer
<1> QED
  BY <1>7, <1>12 DEF Inv

LEMMA OlderOK ==
  ASSUME NEW s \in Seq(Naming)
  PROVE  /\ Older(s) \in Seq(Naming) /\ Len(Older(s)) = Len(s)
         /\ \A i \in 1 .. Len(s) :
              Older(s)[i].who = s[i].who /\ Older(s)[i].age = s[i].age + 1
<1>1. DOMAIN s = 1 .. Len(s) /\ Len(s) \in Nat
  OBVIOUS
<1>2. ASSUME NEW i \in 1 .. Len(s)
      PROVE  /\ Older(s)[i] \in Naming
             /\ Older(s)[i].who = s[i].who /\ Older(s)[i].age = s[i].age + 1
  <2>1. s[i] \in Naming
    BY ElementOfSeq
  <2>2. Older(s)[i] = [s[i] EXCEPT !.age = @ + 1]
    BY <1>1 DEF Older
  <2>3. PICK a \in Nat : a = s[i].age + 1
    BY <2>1 DEF Naming
  <2>4. Older(s)[i] = [s[i] EXCEPT !.age = a]
    BY <2>2, <2>3
  <2> QED
    BY <2>1, <2>3, <2>4 DEF Naming
<1>3. Older(s) = [i \in 1 .. Len(s) |-> Older(s)[i]]
  BY <1>1 DEF Older
<1>4. Older(s) \in Seq(Naming) /\ Len(Older(s)) = Len(s)
  BY <1>1, <1>2, <1>3
<1> QED
  BY <1>2, <1>4

\* The links new are the links s, perhaps with a snapshot for c.
Snapped(new, s, c) ==
  /\ new \in [Players -> Seq(Naming)]
  /\ \A i \in 1 .. Len(new[c]) :
       \/ i \in 1 .. Len(s[c]) /\ new[c][i] = s[c][i]
       \/ new[c][i] = [who |-> Roster(here \ {c}, handle), age |-> 0]
  /\ c \notin here => new[c] = s[c]

LEMMA WithSnapshotOK ==
  ASSUME NEW s \in [Players -> Seq(Naming)], here \subseteq Players,
         NEW c \in Players, NEW new, new = WithSnapshot(s)
  PROVE  Snapped(new, s, c)
<1>1. ASSUME NEW d \in Players
      PROVE  /\ new[d] \in Seq(Naming)
             /\ \A i \in 1 .. Len(new[d]) :
                  \/ i \in 1 .. Len(s[d]) /\ new[d][i] = s[d][i]
                  \/ new[d][i] =
                       [who |-> Roster(here \ {d}, handle), age |-> 0]
             /\ d \notin here => new[d] = s[d]
  <2>1. PICK e, x : /\ e = [who |-> Roster(here \ {d}, handle), age |-> 0]
                    /\ x = new[d]
    OBVIOUS
  <2>2. e \in Naming
    <3>1. Roster(here \ {d}, handle) \in [Handles -> SomePlayer]
      BY RosterNames
    <3> QED
      BY <2>1, <3>1 DEF Naming
  <2>3. CASE d \in here /\ x = Append(s[d], e)
    <3>1. /\ x \in Seq(Naming) /\ Len(x) = Len(s[d]) + 1
          /\ \A i \in 1 .. Len(s[d]) : x[i] = s[d][i]
          /\ x[Len(s[d]) + 1] = e
      BY <2>2, <2>3, AppendProperties
    <3>2. Len(s[d]) \in Nat
      OBVIOUS
    <3>3. \A i \in 1 .. Len(x) : i \in 1 .. Len(s[d]) \/ i = Len(s[d]) + 1
      BY <3>1, <3>2
    <3> QED
      BY <2>1, <2>3, <3>1, <3>3
  <2>4. CASE x = s[d]
    BY <2>1, <2>4
  <2>5. x = s[d] \/ (d \in here /\ x = Append(s[d], e))
    BY <2>1 DEF WithSnapshot
  <2> QED
    BY <2>3, <2>4, <2>5
<1>2. new \in [Players -> Seq(Naming)]
  BY <1>1 DEF WithSnapshot
<1> QED
  BY <1>1, <1>2 DEF Snapped

LEMMA TickInv ==
  ASSUME Inv, Tick
  PROVE  Inv'
<1>1. PICK n \in 0 .. Len(cooling) :
        /\ Due(Closer(cooling), n) /\ free' = Pool(Closer(cooling), n)
        /\ cooling' = StillResting(Closer(cooling), n)
  BY DEF Tick
<1>2. /\ InTime /\ phase' = (phase + 1) % RosterEvery
      /\ age' = [c \in Players |-> IF c \in here THEN age[c] + 1 ELSE age[c]]
      /\ snaps' = WithSnapshot([c \in Players |-> Older(snaps[c])])
      /\ UNCHANGED <<came, here, refused, handle, next, names, shown>>
  BY DEF Tick
<1>3. here \subseteq Players
  BY DEF Inv, PeopleOK
<1>4. PICK x : x = Closer(cooling)
  OBVIOUS
<1>5. /\ PoolOK(here, handle, next, free, x) /\ Len(x) = Len(cooling)
      /\ \A i \in 1 .. Len(cooling) :
           /\ x[i].handle = cooling[i].handle /\ x[i].was = cooling[i].was
           /\ x[i].left \in 0 .. Cooldown /\ x[i].left + 1 >= cooling[i].left
  BY <1>4, CloserOK DEF Inv
<1>6. n \in 0 .. Len(x) /\ x \in Seq(Entry) /\ cooling \in Seq(Entry)
  BY <1>5 DEF Inv, PoolInv, PoolOK, PoolTypes
<1>7. PICK f, r : /\ f = Pool(x, n) /\ r = StillResting(x, n)
                  /\ f = free' /\ r = cooling'
  BY <1>1, <1>4
<1>8. PoolOK(here, handle, next, f, r)
  BY <1>5, <1>6, <1>7, ReclaimOK
<1>9. PoolInv'
  BY <1>2, <1>7, <1>8 DEF PoolInv
<1>10. ASSUME NEW h \in Handles, NEW q \in Players, NEW a \in Nat,
              a + 1 < Cooldown, Explained(h, q, a)
       PROVE  Explained(h, q, a + 1)'
  <2>1. CASE q \in here /\ handle[q] = h
    BY <1>2, <2>1 DEF Explained
  <2>2. CASE ~(q \in here /\ handle[q] = h)
    <3>1. PICK i \in 1 .. Len(cooling) :
            /\ cooling[i].handle = h /\ cooling[i].was = q
            /\ cooling[i].left + a >= Cooldown
      BY <1>10, <2>2 DEF Explained
    <3>2. cooling[i] \in Entry
      BY <1>6, ElementOfSeq
    <3>3. cooling[i].left \in Int /\ x[i].left \in Int
      BY <1>5, <3>2 DEF Entry
    <3>4. x[i].left + (a + 1) >= Cooldown
      BY <1>5, <3>1, <3>3, Numbers
    <3>5. i \in 1 .. Len(x) /\ a + 1 \in Nat /\ Due(x, n)
      BY <1>1, <1>4, <1>5
    <3>6. PICK j \in 1 .. Len(r) : r[j] = x[i]
      <4>1. PICK b \in Nat : b = a + 1
        BY <3>5
      <4>2. b < Cooldown /\ x[i].left + b >= Cooldown
        BY <1>10, <3>4, <4>1
      <4>3. \E j \in 1 .. Len(StillResting(x, n)) : StillResting(x, n)[j] = x[i]
        BY <1>6, <3>5, <4>2, RestExplains
      <4> QED
        BY <1>7, <4>3
    <3> QED
      BY <1>5, <1>7, <3>1, <3>4, <3>6 DEF Explained
  <2> QED
    BY <2>1, <2>2
<1>11. ASSUME NEW w \in [Handles -> SomePlayer], NEW a \in Nat,
              a + 1 < Cooldown, Truthful(w, a)
       PROVE  Truthful(w, a + 1)'
  BY <1>10, <1>11 DEF Truthful, SomePlayer
<1>12. ASSUME NEW H \in SUBSET Players, H \subseteq here
       PROVE  Truthful(Roster(H, handle), 0)'
  <2>1. PICK w : w = Roster(H, handle)
    OBVIOUS
  <2>2. \A h \in Handles : w[h] # NoPlayer => w[h] \in H /\ handle[w[h]] = h
    BY <2>1, RosterNames
  <2>3. Truthful(w, 0)'
    BY <1>2, <1>12, <2>2 DEF Truthful, Explained
  <2>4. Roster(H, handle') = w
    BY <1>2, <2>1
  <2> QED
    BY <2>3, <2>4
<1>13. PICK ro, so : /\ ro = [c \in Players |-> Older(rosters[c])]
                     /\ so = [c \in Players |-> Older(snaps[c])]
  OBVIOUS
<1>14. ro \in [Players -> Seq(Naming)] /\ so \in [Players -> Seq(Naming)]
  BY <1>13, OlderOK DEF Inv, TellTypes
<1>15. ASSUME NEW c \in Players
       PROVE  /\ Len(ro[c]) = Len(rosters[c]) /\ Len(so[c]) = Len(snaps[c])
              /\ \A i \in 1 .. Len(rosters[c]) :
                   /\ ro[c][i].who = rosters[c][i].who
                   /\ ro[c][i].age = rosters[c][i].age + 1
              /\ \A i \in 1 .. Len(snaps[c]) :
                   /\ so[c][i].who = snaps[c][i].who
                   /\ so[c][i].age = snaps[c][i].age + 1
  <2>1. ro[c] = Older(rosters[c]) /\ so[c] = Older(snaps[c])
    BY <1>13
  <2>2. rosters[c] \in Seq(Naming) /\ snaps[c] \in Seq(Naming)
    BY DEF Inv, TellTypes
  <2> QED
    BY <2>1, <2>2, OlderOK
<1>16. Added(rosters', ro, Roster(here, handle), here)
  <2>1. CASE rosters' = ro
    BY <1>14, <2>1 DEF Added
  <2>2. CASE \E C \in SUBSET here :
               rosters' = WithRoster(ro, C, Roster(here, handle))
    <3>1. PICK C \in SUBSET here :
            rosters' = WithRoster(ro, C, Roster(here, handle))
      BY <2>2
    <3>2. PICK w, u : w = Roster(here, handle) /\ u = rosters'
      OBVIOUS
    <3>3. w \in [Handles -> SomePlayer]
      BY <1>3, <3>2, RosterNames
    <3>4. Added(u, ro, w, C)
      BY <1>14, <3>1, <3>2, <3>3, WithRosterOK
    <3> QED
      BY <3>2, <3>4 DEF Added
  <2> QED
    BY <1>13, <2>1, <2>2 DEF Tick
<1>17. ASSUME NEW c \in Players
       PROVE  /\ snaps' \in [Players -> Seq(Naming)]
              /\ \A i \in 1 .. Len(snaps'[c]) :
                   \/ i \in 1 .. Len(so[c]) /\ snaps'[c][i] = so[c][i]
                   \/ snaps'[c][i] =
                        [who |-> Roster(here \ {c}, handle), age |-> 0]
              /\ c \notin here => snaps'[c] = so[c]
  <2>1. snaps' = WithSnapshot(so)
    BY <1>2, <1>13
  <2>2. PICK u : u = snaps'
    OBVIOUS
  <2>3. Snapped(u, so, c)
    BY <1>3, <1>14, <2>1, <2>2, WithSnapshotOK
  <2> QED
    BY <2>2, <2>3 DEF Snapped
<1>18. \A c \in here :
         /\ age[c] + 1 < MaxSilence
         /\ \A i \in 1 .. Len(rosters[c]) : rosters[c][i].age + 1 < MaxSilence
         /\ \A i \in 1 .. Len(snaps[c]) : snaps[c][i].age + 1 < MaxDelay
  <2>1. \A c \in here : /\ DOMAIN rosters[c] = 1 .. Len(rosters[c])
                        /\ DOMAIN snaps[c] = 1 .. Len(snaps[c])
    <3>1. \A c \in Players : rosters[c] \in Seq(Naming) /\ snaps[c] \in Seq(Naming)
      BY DEF Inv, TellTypes
    <3> QED
      BY <1>3, <3>1
  <2> QED
    BY <1>2, <2>1 DEF InTime
<1>19. ASSUME NEW c \in Players
       PROVE  age'[c] < MaxSilence /\ Truthful(names[c], age[c])'
  <2>1. PICK w, a : w = names[c] /\ a = age[c]
    OBVIOUS
  <2>2. /\ w \in [Handles -> SomePlayer] /\ a \in Nat /\ a < MaxSilence
        /\ Truthful(w, a)
    BY <2>1 DEF Inv, TellTypes, Young, AllTruthful
  <2>3. CASE c \in here
    <3>1. a + 1 < MaxSilence /\ a + 1 < Cooldown
      BY <1>18, <2>1, <2>2, <2>3, Numbers
    <3>2. Truthful(w, a + 1)'
      BY <1>11, <2>2, <3>1
    <3>3. age'[c] = a + 1 /\ names'[c] = w
      BY <1>2, <2>1, <2>3
    <3> QED
      BY <3>1, <3>2, <3>3 DEF Truthful
  <2>4. CASE c \notin here
    <3>1. names'[c] = Nobody /\ age'[c] = a
      BY <1>2, <2>1, <2>4 DEF Inv, Forgotten
    <3> QED
      BY <2>2, <3>1 DEF Truthful, Nobody
  <2> QED
    BY <2>3, <2>4
<1>20. ASSUME NEW c \in Players, NEW i \in 1 .. Len(rosters'[c])
       PROVE  /\ rosters'[c][i].age < MaxSilence
              /\ Truthful(rosters[c][i].who, rosters[c][i].age)'
  <2>1. CASE i \in 1 .. Len(ro[c]) /\ rosters'[c][i] = ro[c][i]
    <3>1. c \in here
      <4>1. ASSUME c \notin here PROVE FALSE
        <5>1. rosters[c] = << >>
          BY <4>1 DEF Inv, Forgotten
        <5>2. Len(ro[c]) = 0
          BY <1>15, <5>1
        <5> QED
          BY <2>1, <5>2
      <4> QED
        BY <4>1
    <3>2. PICK m : m = rosters[c][i]
      OBVIOUS
    <3>3. /\ m.who \in [Handles -> SomePlayer] /\ m.age \in Nat
          /\ Truthful(m.who, m.age) /\ m.age + 1 < MaxSilence
      BY <1>15, <1>18, <2>1, <3>1, <3>2, FlightTypes DEF Inv, AllTruthful
    <3>4. m.age + 1 < Cooldown
      BY <3>3, Numbers
    <3>5. Truthful(m.who, m.age + 1)'
      BY <1>11, <3>3, <3>4
    <3>6. rosters'[c][i].who = m.who /\ rosters'[c][i].age = m.age + 1
      BY <1>15, <2>1, <3>2
    <3> QED
      BY <3>3, <3>5, <3>6 DEF Truthful
  <2>2. CASE rosters'[c][i] = [who |-> Roster(here, handle), age |-> 0]
    <3>1. Truthful(Roster(here, handle), 0)'
      <4>1. PICK H : H = here
        OBVIOUS
      <4>2. Truthful(Roster(H, handle), 0)'
        BY <1>3, <1>12, <4>1
      <4> QED
        BY <1>2, <4>1, <4>2
    <3>2. /\ rosters'[c][i].age = 0
          /\ rosters'[c][i].who = Roster(here', handle')
      BY <1>2, <2>2
    <3> QED
      BY <3>1, <3>2, Numbers DEF Truthful
  <2> QED
    BY <1>16, <2>1, <2>2 DEF Added
<1>21. ASSUME NEW c \in Players, NEW i \in 1 .. Len(snaps'[c])
       PROVE  /\ snaps'[c][i].age < MaxDelay
              /\ Truthful(snaps[c][i].who, snaps[c][i].age)'
  <2>1. CASE i \in 1 .. Len(so[c]) /\ snaps'[c][i] = so[c][i]
    <3>1. c \in here
      <4>1. ASSUME c \notin here PROVE FALSE
        <5>1. snaps[c] = << >>
          BY <4>1 DEF Inv, Forgotten
        <5>2. Len(so[c]) = 0
          BY <1>15, <5>1
        <5> QED
          BY <2>1, <5>2
      <4> QED
        BY <4>1
    <3>2. PICK m : m = snaps[c][i]
      OBVIOUS
    <3>3. /\ m.who \in [Handles -> SomePlayer] /\ m.age \in Nat
          /\ Truthful(m.who, m.age) /\ m.age + 1 < MaxDelay
      BY <1>15, <1>18, <2>1, <3>1, <3>2, FlightTypes DEF Inv, AllTruthful
    <3>4. m.age + 1 < Cooldown
      BY <3>3, Numbers
    <3>5. Truthful(m.who, m.age + 1)'
      BY <1>11, <3>3, <3>4
    <3>6. snaps'[c][i].who = m.who /\ snaps'[c][i].age = m.age + 1
      BY <1>15, <2>1, <3>2
    <3> QED
      BY <3>3, <3>5, <3>6 DEF Truthful
  <2>2. CASE snaps'[c][i] = [who |-> Roster(here \ {c}, handle), age |-> 0]
    <3>1. PICK H : H = here \ {c}
      OBVIOUS
    <3>2. Truthful(Roster(H, handle), 0)'
      BY <1>3, <1>12, <3>1
    <3>3. /\ snaps'[c][i].age = 0
          /\ snaps'[c][i].who = Roster(H, handle')
      <4>1. snaps'[c][i] = [who |-> Roster(H, handle), age |-> 0]
        BY <2>2, <3>1
      <4>2. /\ snaps'[c][i].age = 0 /\ snaps'[c][i].who = Roster(H, handle)
        BY <4>1
      <4>3. handle' = handle
        BY <1>2
      <4> QED
        BY <4>2, <4>3
    <3> QED
      BY <3>2, <3>3, Numbers DEF Truthful
  <2> QED
    BY <1>17, <2>1, <2>2
<1>22. Young' /\ AllTruthful'
  BY <1>19, <1>20, <1>21 DEF Young, AllTruthful
<1>23. snaps' \in [Players -> Seq(Naming)]
  <2>1. PICK u : u = snaps'
    OBVIOUS
  <2>2. CASE Players = {}
    BY <1>2, <2>2 DEF WithSnapshot
  <2>3. CASE Players # {}
    BY <1>17, <2>3
  <2> QED
    BY <2>2, <2>3
<1>24. TellTypes'
  BY <1>2, <1>16, <1>23 DEF Inv, TellTypes, Added
<1>25. Forgotten'
  <2> SUFFICES ASSUME NEW c \in Players \ here
               PROVE  names'[c] = Nobody /\ rosters'[c] = << >> /\ snaps'[c] = << >>
    BY <1>2 DEF Forgotten
  <2>1. names'[c] = Nobody /\ rosters[c] = << >> /\ snaps[c] = << >>
    BY <1>2 DEF Inv, Forgotten
  <2>2. rosters'[c] = ro[c] /\ snaps'[c] = so[c]
    BY <1>16, <1>17 DEF Added
  <2>3. Len(ro[c]) = 0 /\ Len(so[c]) = 0
    BY <1>15, <2>1
  <2> QED
    BY <1>14, <2>1, <2>2, <2>3, EmptySeq
<1>26. PeopleOK'
  <2>1. phase' \in 0 .. RosterEvery - 1
    BY <1>2, Numbers DEF Inv, PeopleOK
  <2> QED
    BY <1>2, <2>1 DEF Inv, PeopleOK
<1>27. ShownOK'
  BY <1>2 DEF Inv, ShownOK, TrueNames
<1> QED
  BY <1>9, <1>22, <1>24, <1>25, <1>26, <1>27 DEF Inv
-----------------------------------------------------------------------------
\* The theorems

LEMMA StutterInv == ASSUME Inv, UNCHANGED vars PROVE Inv'
<1>1. ServerAlone /\ UNCHANGED <<names, age, shown, rosters, snaps>>
  BY DEF vars, poolVars, clientVars, ServerAlone
<1>2. RostersFrom /\ SnapsFrom /\ NamesFrom
  BY <1>1 DEF RostersFrom, SnapsFrom, NamesFrom
<1>3. Young' /\ AllTruthful' /\ PeopleOK' /\ PoolInv' /\ here' = here
  BY <1>1, <1>2, ServerAloneOK, TellStep
<1>4. TellTypes' /\ Forgotten' /\ ShownOK'
  BY <1>1, <1>3 DEF Inv, TellTypes, Forgotten, ShownOK, TrueNames
<1> QED
  BY <1>3, <1>4 DEF Inv

LEMMA HandlesInductive == ASSUME Inv, [Next]_vars PROVE Inv'
<1>1. CASE Tick
  BY <1>1, TickInv
<1>2. ASSUME NEW p \in Players,
             \/ Connect(p) \/ Disconnect(p) \/ GiveUp(p)
             \/ ReceiveRoster(p) \/ ReceiveSnapshot(p) \/ LoseSnapshot(p)
      PROVE  Inv'
  BY <1>2, ConnectInv, DisconnectInv, GiveUpInv, ReceiveRosterInv,
     ReceiveSnapshotInv, LoseSnapshotInv
<1>3. CASE UNCHANGED vars
  BY <1>3, StutterInv
<1> QED
  BY <1>1, <1>2, <1>3 DEF Next

LEMMA Invariance == Spec => []Inv
<1>1. Init => Inv
  BY InvInit
<1> QED
  BY <1>1, HandlesInductive, PTL DEF Spec

\* Every variable keeps its type; in particular a player in the match always
\* has a handle and nobody else has one.
THEOREM TypeCorrect == Spec => []TypeOK
<1>1. Inv => TypeOK
  BY DEF Inv, PeopleOK, PoolInv, PoolOK, PoolTypes, TellTypes, ShownOK, TypeOK, Entry
<1> QED
  BY <1>1, Invariance, PTL

LEMMA HandlesWhole == Inv => PoolWhole
<1> SUFFICES ASSUME Inv PROVE PoolWhole
  OBVIOUS
<1>1. DOMAIN free = 1 .. Len(free) /\ DOMAIN cooling = 1 .. Len(cooling)
  BY DEF Inv, PoolInv, PoolOK, PoolTypes
<1> QED
  BY <1>1 DEF Inv, PoolInv, PoolOK, Conserved, Apart, Once, PoolWhole, Owned,
              Free, Resting

\* Connections may come and go for ever: no handle is lost, and none is given
\* to two players or given while it rests.
THEOREM PoolIsWhole == Spec => []PoolWhole
  BY HandlesWhole, Invariance, PTL

\* No client ever shows one player's state as another's, if what it knows and
\* what it receives is never as old as the cooldown.
THEOREM NamesAreTrue == Spec => []TrueNames
<1>1. Inv => TrueNames
  BY DEF Inv, ShownOK
<1> QED
  BY <1>1, Invariance, PTL
=============================================================================
