--------------------------- MODULE VoxelSyncProofs ---------------------------
(***************************************************************************)
(* What VoxelSync satisfies for every number of clients, cells, edits and  *)
(* messages.  The inductive invariant says of the pending edits that each  *)
(* holds what the next edit of its cell (or the client's block) builds on, *)
(* of the chunk packets in flight that they tell the server's history, in  *)
(* order, and of the edits in flight that before the first version they    *)
(* expect none.                                                            *)
(***************************************************************************)
EXTENDS VoxelSync, LinksProofs, WellFoundedInduction

\* Each pending edit left its cell as the next edit of that cell found it, or,
\* after the last one, as the client shows it.
LinkedEdits(b, p) ==
  \A i \in DOMAIN p :
    LET later == {j \in Touching(p, p[i].cell) : i < j} IN
    /\ later = {} => b[p[i].cell] = p[i].to
    /\ \A j \in later : (\A k \in later : j <= k) => p[j].prev = p[i].to

PacketOK(m) ==
  /\ m.ver \in 1 .. version
  /\ m.kind = "full" => m.blocks = past[m.ver]
  /\ m.kind # "full" =>
       /\ m.ver - 1 \in 0 .. version
       /\ past[m.ver] = [past[m.ver - 1] EXCEPT ![m.cell] = m.to]

PacketsOK ==
  \A c \in Clients : \A i \in 1 .. Len(down[c]) : PacketOK(down[c][i])

InOrder ==
  \A c \in Clients : \A i \in 1 .. Len(down[c]) :
    /\ cver[c] <= down[c][i].ver
    /\ \A j \in 1 .. Len(down[c]) : i < j => down[c][i].ver <= down[c][j].ver

Started == past[version] = blocks /\ past[0] = NoBlocks

\* Until there is a chunk, edits expect no version of it, so none is refused.
FirstEdit == {e \in Command : e.expected = 0}
NoneRefused == version = 0 => \A c \in Clients : up[c] \in Seq(FirstEdit)

AbsentIdle ==
  \A c \in Clients \ here : ~loaded[c] /\ up[c] = << >> /\ down[c] = << >>

\* A client that has the chunk has it at a version the server has had.
Numbered == \A c \in Clients : loaded[c] => cver[c] \in 1 .. version

VoxelInv ==
  /\ TypeOK /\ Started
  /\ PacketsOK /\ InOrder /\ NoneRefused /\ AbsentIdle
  /\ \A c \in Clients : LinkedEdits(cblocks[c], pending[c])
  /\ Numbered /\ ConfirmedView

-----------------------------------------------------------------------------
\* Undoing pending edits

\* A non-empty set of numbers has a least one.
LEMMA Least ==
  ASSUME NEW T \in SUBSET Nat, T # {}  PROVE \E i \in T : \A j \in T : i <= j
<1>1. \E i \in T : \A j \in T : ~(<<j, i>> \in OpToRel(<, Nat))
  BY WFMin, NatLessThanWellFounded
<1>2. \A i, j \in Nat : <<j, i>> \in OpToRel(<, Nat) <=> j < i
  BY DEF OpToRel
<1>3. PICK i \in T : \A j \in T : ~(<<j, i>> \in OpToRel(<, Nat))
  BY <1>1
<1>4. \A j \in T : i \in Nat /\ j \in Nat /\ ~(j < i)
  BY <1>2, <1>3
<1>5. \A j \in T : i <= j
  BY <1>4
<1> QED
  BY <1>5

LEMMA FirstOK ==
  ASSUME NEW p \in Seq(PendingEdit), NEW x \in Cells, Touching(p, x) # {}
  PROVE  /\ First(p, x) \in 1 .. Len(p) /\ p[First(p, x)].cell = x
         /\ \A j \in Touching(p, x) : First(p, x) <= j
         /\ \A i \in Touching(p, x) :
              (\A j \in Touching(p, x) : i <= j) => First(p, x) = i
<1>1. Touching(p, x) \subseteq 1 .. Len(p)
  BY DEF Touching
<1>2. \E i \in Touching(p, x) : \A j \in Touching(p, x) : i <= j
  BY <1>1, Least
<1>3. /\ First(p, x) \in Touching(p, x)
      /\ \A j \in Touching(p, x) : First(p, x) <= j
  BY <1>2 DEF First
<1> QED
  BY <1>1, <1>3 DEF Touching

\* Undoing an edit as well as those before it changes nothing.
LEMMA RevertedAppend ==
  ASSUME NEW b \in Blocks, NEW p \in Seq(PendingEdit), LinkedEdits(b, p),
         NEW y \in Cells, NEW to \in Contents
  PROVE  LET bb == [b EXCEPT ![y] = to]
             pp == Append(p, [cell |-> y, to |-> to, prev |-> b[y]])
         IN /\ bb \in Blocks /\ pp \in Seq(PendingEdit)
            /\ Reverted(bb, pp) = Reverted(b, p)
            /\ LinkedEdits(bb, pp)
<1> DEFINE e == [cell |-> y, to |-> to, prev |-> b[y]]
           bb == [b EXCEPT ![y] = to]
           pp == Append(p, e)
           n == Len(p)
<1>1. bb \in Blocks /\ e \in PendingEdit /\ n \in Nat
  BY DEF Blocks, PendingEdit
<1>2. /\ pp \in Seq(PendingEdit) /\ Len(pp) = n + 1 /\ pp[n + 1] = e
      /\ \A i \in 1 .. n : pp[i] = p[i]
  BY <1>1, AppendProperties
<1>3. e.cell = y /\ e.to = to /\ e.prev = b[y]
  OBVIOUS
<1>4. bb[y] = to /\ \A x \in Cells \ {y} : bb[x] = b[x]
  BY DEF Blocks
<1> HIDE DEF e, bb, pp
<1>5. DOMAIN p = 1 .. n /\ DOMAIN pp = 1 .. n + 1
  BY <1>1, <1>2
<1> HIDE DEF n
<1>6. \A x \in Cells :
        Touching(pp, x) = IF x = y THEN Touching(p, x) \cup {n + 1} ELSE Touching(p, x)
  BY <1>1, <1>2, <1>3, <1>5 DEF Touching
<1>7. ASSUME NEW x \in Cells  PROVE Reverted(bb, pp)[x] = Reverted(b, p)[x]
  <2>1. CASE Touching(p, x) = {} /\ x = y
    <3>1. Touching(pp, x) = {n + 1}
      BY <1>6, <2>1
    <3>2. First(pp, x) = n + 1
      BY <3>1, <1>2, FirstOK DEF Touching
    <3> QED
      BY <1>2, <1>3, <2>1, <3>1, <3>2 DEF Reverted
  <2>2. CASE Touching(p, x) = {} /\ x # y
    BY <1>4, <1>6, <2>2 DEF Reverted
  <2>3. CASE Touching(p, x) # {}
    <3>1. /\ First(p, x) \in 1 .. n
          /\ First(p, x) \in Touching(p, x)
          /\ \A j \in Touching(p, x) : First(p, x) <= j
      BY <2>3, <1>5, FirstOK DEF Touching, n
    <3>2. /\ Touching(pp, x) # {} /\ First(p, x) \in Touching(pp, x)
          /\ \A j \in Touching(pp, x) : First(p, x) <= j
      BY <1>1, <1>6, <3>1
    <3>3. First(pp, x) = First(p, x)
      BY <1>2, <3>2, FirstOK
    <3> QED
      BY <1>2, <2>3, <3>1, <3>2, <3>3 DEF Reverted
  <2> QED
    BY <2>1, <2>2, <2>3
<1>8. Reverted(bb, pp) = Reverted(b, p)
  BY <1>7 DEF Reverted
<1>9. ASSUME NEW i \in 1 .. n + 1
      PROVE  LET later == {j \in Touching(pp, pp[i].cell) : i < j} IN
             /\ later = {} => bb[pp[i].cell] = pp[i].to
             /\ \A j \in later : (\A k \in later : j <= k) => pp[j].prev = pp[i].to
  <2> DEFINE later == {j \in Touching(pp, pp[i].cell) : i < j}
  <2>1. CASE i = n + 1
    <3>1. later = {}
      BY <1>1, <1>5, <2>1 DEF Touching
    <3> QED
      BY <1>2, <1>3, <1>4, <2>1, <3>1
  <2>2. CASE i \in 1 .. n
    <3> DEFINE x == p[i].cell
               before == {j \in Touching(p, x) : i < j}
    <3>1. pp[i] = p[i] /\ x \in Cells
      <4>1. p[i] \in PendingEdit
        BY <1>5, <2>2, ElementOfSeq DEF n
      <4> QED
        BY <1>2, <2>2, <4>1 DEF PendingEdit
    <3>2. /\ before = {} => b[x] = p[i].to
          /\ \A j \in before : (\A k \in before : j <= k) => p[j].prev = p[i].to
      BY <1>5, <2>2 DEF LinkedEdits
    <3>3. later = IF x = y THEN before \cup {n + 1} ELSE before
      BY <1>1, <1>6, <2>2, <3>1
    <3>4. before \subseteq 1 .. n
      BY <1>5 DEF Touching
    <3> HIDE DEF before, x
    <3>5. CASE x = y /\ before = {}
      <4>1. later = {n + 1} /\ pp[n + 1].prev = p[i].to
        BY <1>2, <1>3, <3>2, <3>3, <3>5
      <4> QED
        BY <3>1, <4>1
    <3>6. CASE x = y /\ before # {}
      <4>1. later = before \cup {n + 1}
        BY <3>3, <3>6
      <4>2. ASSUME NEW j \in later, \A k \in later : j <= k
            PROVE  pp[j].prev = pp[i].to
        <5>0. PICK k \in before : k \in later /\ k \in 1 .. n
          BY <3>4, <3>6, <4>1
        <5>1. j \in before
          <6>1. j <= k /\ k <= n /\ k \in Nat
            BY <1>1, <4>2, <5>0
          <6>2. j # n + 1
            BY <1>1, <6>1
          <6> QED
            BY <4>1, <6>2
        <5>2. p[j].prev = p[i].to
          BY <3>2, <4>1, <4>2, <5>1
        <5> QED
          BY <1>2, <3>1, <3>4, <5>1, <5>2
      <4> QED
        BY <4>1, <4>2
    <3>7. CASE x # y
      <4>1. later = before /\ bb[x] = b[x]
        BY <1>4, <3>1, <3>3, <3>7
      <4>2. pp[i].cell = x
        BY <3>1 DEF x
      <4> QED
        BY <1>2, <3>1, <3>2, <3>4, <4>1, <4>2
    <3> QED
      BY <3>5, <3>6, <3>7
  <2> QED
    BY <1>1, <2>1, <2>2
<1>10. LinkedEdits(bb, pp)
  BY <1>5, <1>9 DEF LinkedEdits
<1> QED
  BY <1>1, <1>2, <1>8, <1>10 DEF bb, pp, e

\* Confirming the oldest edit makes it part of what lies under the others.
LEMMA RevertedTail ==
  ASSUME NEW b \in Blocks, NEW p \in Seq(PendingEdit), LinkedEdits(b, p), p # << >>
  PROVE  /\ Tail(p) \in Seq(PendingEdit) /\ LinkedEdits(b, Tail(p))
         /\ p[1].cell \in Cells
         /\ Reverted(b, Tail(p)) = [Reverted(b, p) EXCEPT ![p[1].cell] = p[1].to]
<1> DEFINE t == Tail(p)
           n == Len(p)
<1>1. /\ t \in Seq(PendingEdit) /\ Len(t) = n - 1 /\ n \in Nat \ {0}
      /\ \A i \in 1 .. n - 1 : t[i] = p[i + 1]
      /\ p[1] \in PendingEdit
  <2>1. n \in Nat \ {0} /\ 1 \in 1 .. Len(p)
    BY EmptySeq
  <2> QED
    BY <2>1, HeadTailProperties, ElementOfSeq
<1>2. DOMAIN p = 1 .. n /\ DOMAIN t = 1 .. n - 1
  BY <1>1
<1>3. p[1].cell \in Cells
  BY <1>1 DEF PendingEdit
<1> HIDE DEF t, n
<1>4. ASSUME NEW x \in Cells, NEW i \in Nat
      PROVE  i \in Touching(t, x) <=> i # 0 /\ i + 1 \in Touching(p, x)
  BY <1>1, <1>2 DEF Touching
<1>5. \A x \in Cells : Touching(t, x) \subseteq Nat /\ Touching(p, x) \subseteq Nat \ {0}
  BY <1>1, <1>2 DEF Touching
<1>6. LinkedEdits(b, t)
  <2> SUFFICES ASSUME NEW i \in 1 .. n - 1
               PROVE  LET later == {j \in Touching(t, t[i].cell) : i < j} IN
                      /\ later = {} => b[t[i].cell] = t[i].to
                      /\ \A j \in later :
                           (\A k \in later : j <= k) => t[j].prev = t[i].to
    BY <1>2 DEF LinkedEdits
  <2> DEFINE x == t[i].cell
             later == {j \in Touching(t, x) : i < j}
             after == {j \in Touching(p, x) : i + 1 < j}
  <2>1. /\ i \in Nat \ {0} /\ i + 1 \in 1 .. n
        /\ t[i] = p[i + 1] /\ x \in Cells
    <3>1. i \in Nat \ {0} /\ i + 1 \in 1 .. n /\ t[i] \in PendingEdit /\ t[i] = p[i + 1]
      BY <1>1, <1>2, ElementOfSeq
    <3> QED
      BY <3>1 DEF PendingEdit
  <2>2. /\ after = {} => b[x] = p[i + 1].to
        /\ \A j \in after : (\A k \in after : j <= k) => p[j].prev = p[i + 1].to
    BY <1>2, <2>1 DEF LinkedEdits
  <2>3. /\ \A j \in Nat : j \in later <=> j + 1 \in after
        /\ later \subseteq Nat \ {0} /\ after \subseteq Nat \ {0, 1}
    BY <1>4, <1>5, <2>1
  <2>4. \A j \in later : t[j] = p[j + 1]
    BY <1>1, <1>2 DEF Touching
  <2> HIDE DEF x, later, after
  <2>5. \A j \in after : j - 1 \in later /\ j \in Nat
    BY <2>3
  <2>6. later = {} => after = {}
    BY <2>5
  <2>7. ASSUME NEW j \in later, \A k \in later : j <= k
        PROVE  t[j].prev = t[i].to
    <3>1. j \in Nat /\ j + 1 \in after
      BY <2>3
    <3>2. ASSUME NEW k \in after  PROVE j + 1 <= k
      <4>1. j <= k - 1 /\ k \in Nat
        BY <2>5, <2>7
      <4> QED
        BY <3>1, <4>1
    <3> QED
      BY <2>1, <2>2, <2>4, <3>1, <3>2
  <2> QED
    BY <2>1, <2>2, <2>6, <2>7 DEF later, x
<1>7. ASSUME NEW x \in Cells
      PROVE  Reverted(b, t)[x] = IF x = p[1].cell THEN p[1].to ELSE Reverted(b, p)[x]
  <2>1. CASE x = p[1].cell
    <3> DEFINE after == {j \in Touching(p, x) : 1 < j}
    <3>1. /\ after = {} => b[x] = p[1].to
          /\ \A j \in after : (\A k \in after : j <= k) => p[j].prev = p[1].to
      BY <1>1, <1>2, <2>1 DEF LinkedEdits
    <3>2. /\ after \subseteq Nat /\ Touching(t, x) \subseteq Nat
          /\ \A j \in after : j - 1 \in Touching(t, x)
          /\ \A j \in Touching(t, x) : j + 1 \in after
      BY <1>4, <1>5
    <3> HIDE DEF after
    <3>3. CASE Touching(t, x) = {}
      <4>1. after = {}
        BY <3>2, <3>3
      <4> QED
        BY <2>1, <3>1, <3>3, <4>1 DEF Reverted
    <3>4. CASE Touching(t, x) # {}
      <4> DEFINE f == First(t, x)
      <4>1. /\ f \in 1 .. n - 1 /\ f \in Touching(t, x)
            /\ \A j \in Touching(t, x) : f <= j
        BY <1>1, <1>2, <3>4, FirstOK DEF Touching
      <4>2. t[f] = p[f + 1] /\ f + 1 \in after
        BY <1>1, <3>2, <4>1
      <4>3. ASSUME NEW k \in after  PROVE f + 1 <= k
        <5>1. f <= k - 1 /\ k \in Nat
          BY <3>2, <4>1
        <5> QED
          BY <1>1, <4>1, <5>1
      <4> QED
        BY <2>1, <3>1, <3>4, <4>2, <4>3 DEF Reverted
    <3> QED
      BY <3>3, <3>4
  <2>2. CASE x # p[1].cell
    <3>1. 1 \notin Touching(p, x)
      BY <2>2 DEF Touching
    <3>2. \A j \in Touching(p, x) : j \in Nat \ {0, 1} /\ j - 1 \in Touching(t, x)
      BY <1>4, <1>5, <3>1
    <3>3. \A j \in Touching(t, x) : j \in Nat \ {0} /\ j + 1 \in Touching(p, x)
      BY <1>4, <1>5
    <3>4. CASE Touching(t, x) = {}
      <4>1. Touching(p, x) = {}
        BY <3>2, <3>4
      <4> QED
        BY <2>2, <3>4, <4>1 DEF Reverted
    <3>5. CASE Touching(t, x) # {}
      <4> DEFINE f == First(t, x)
      <4>1. /\ f \in 1 .. n - 1 /\ f \in Touching(t, x)
            /\ \A j \in Touching(t, x) : f <= j
        BY <1>1, <1>2, <3>5, FirstOK DEF Touching
      <4>2. t[f] = p[f + 1] /\ f + 1 \in Touching(p, x)
        BY <1>1, <3>3, <4>1
      <4>3. ASSUME NEW k \in Touching(p, x)  PROVE f + 1 <= k
        <5>1. f <= k - 1 /\ k \in Nat
          BY <3>2, <4>1
        <5> QED
          BY <1>1, <4>1, <5>1
      <4>4. First(p, x) = f + 1
        BY <4>2, <4>3, FirstOK
      <4> QED
        BY <2>2, <3>5, <4>2, <4>4 DEF Reverted
    <3> QED
      BY <3>4, <3>5
  <2> QED
    BY <2>1, <2>2
<1>8. Reverted(b, t) = [Reverted(b, p) EXCEPT ![p[1].cell] = p[1].to]
  BY <1>3, <1>7 DEF Reverted
<1> QED
  BY <1>1, <1>3, <1>6, <1>8 DEF t

\* With nothing pending there is nothing to undo.
LEMMA RevertedNone ==
  ASSUME NEW b \in Blocks
  PROVE  Reverted(b, << >>) = b /\ LinkedEdits(b, << >>)
<1>1. \A x \in Cells : Touching(<< >>, x) = {}
  BY DEF Touching
<1> QED
  BY <1>1 DEF Reverted, LinkedEdits, Blocks

LEMMA RevertedType ==
  ASSUME NEW b \in Blocks, NEW p \in Seq(PendingEdit)
  PROVE  Reverted(b, p) \in Blocks
<1>1. ASSUME NEW x \in Cells, Touching(p, x) # {}  PROVE p[First(p, x)].prev \in Contents
  <2>1. First(p, x) \in 1 .. Len(p)
    BY <1>1, FirstOK
  <2>2. p[First(p, x)] \in PendingEdit
    BY <2>1, ElementOfSeq
  <2> QED
    BY <2>2 DEF PendingEdit
<1> QED
  BY <1>1 DEF Reverted, Blocks

-----------------------------------------------------------------------------
\* Packets

LEMMA PacketFields ==
  ASSUME NEW m \in Packet
  PROVE  /\ m.ver \in Nat
         /\ m.kind = "full" => m.blocks \in Blocks
         /\ m.kind # "full" => m.cell \in Cells /\ m.to \in Contents
  BY DEF Packet

\* The server's history and its current state.
LEMMA ServerNumbers ==
  ASSUME VoxelInv
  PROVE  /\ version \in Nat
         /\ \A c \in Clients : cver[c] \in Nat /\ cver[c] <= version
         /\ \A c \in Clients : \A i \in 1 .. Len(down[c]) :
              /\ down[c][i] \in Packet /\ PacketOK(down[c][i])
              /\ down[c][i].ver \in Nat /\ down[c][i].ver <= version
<1>1. /\ version \in Nat /\ cver \in [Clients -> Nat]
      /\ down \in [Clients -> Seq(Packet)] /\ loaded \in [Clients -> BOOLEAN]
  BY DEF VoxelInv, TypeOK
<1>3. \A c \in Clients : cver[c] \in Nat /\ cver[c] <= version
  <2> SUFFICES ASSUME NEW c \in Clients  PROVE cver[c] \in Nat /\ cver[c] <= version
    OBVIOUS
  <2>1. CASE loaded[c]
    <3>1. cver[c] \in 1 .. version
      BY <2>1 DEF VoxelInv, Numbered
    <3> QED
      BY <1>1, <3>1
  <2>2. CASE ~loaded[c]
    <3>1. cver[c] = 0
      BY <2>2 DEF VoxelInv, TypeOK
    <3> QED
      BY <1>1, <3>1
  <2> QED
    BY <2>1, <2>2
<1>4. ASSUME NEW c \in Clients, NEW i \in 1 .. Len(down[c])
      PROVE  /\ down[c][i] \in Packet /\ PacketOK(down[c][i])
             /\ down[c][i].ver \in Nat /\ down[c][i].ver <= version
  <2>1. down[c][i] \in Packet
    BY <1>1, ElementOfSeq
  <2>2. PacketOK(down[c][i])
    BY DEF VoxelInv, PacketsOK
  <2>3. down[c][i].ver \in 1 .. version
    BY <2>2 DEF PacketOK
  <2> QED
    BY <1>1, <2>1, <2>2, <2>3, PacketFields
<1> QED
  BY <1>1, <1>3, <1>4

\* The queues q carry what is in flight and, to some of the clients of C, m.
Sent(q, C, m) ==
  \A c \in Clients :
    /\ c \notin C => q[c] = down[c]
    /\ \A i \in 1 .. Len(q[c]) :
         /\ \/ i \in 1 .. Len(down[c]) /\ q[c][i] = down[c][i]
            \/ q[c][i] = m
         /\ cver[c] <= q[c][i].ver
         /\ \A j \in 1 .. Len(q[c]) : i < j => q[c][i].ver <= q[c][j].ver

\* What was sent comes in order.
LEMMA SentInOrder ==
  ASSUME NEW q, NEW C, NEW m, Sent(q, C, m), NEW c \in Clients, NEW i \in 1 .. Len(q[c])
  PROVE  /\ cver[c] <= q[c][i].ver
         /\ \A j \in 1 .. Len(q[c]) : i < j => q[c][i].ver <= q[c][j].ver
  BY DEF Sent

\* A packet no older than those in flight joins their ends.
LEMMA QueuedOK ==
  ASSUME VoxelInv, NEW C \in SUBSET Clients, NEW m \in Packet,
         version <= m.ver, NEW q, q = Queued(C, m)
  PROVE  q \in [Clients -> Seq(Packet)] /\ Sent(q, C, m)
<1>1. down \in [Clients -> Seq(Packet)]
  BY DEF VoxelInv, TypeOK
<1>2. m.ver \in Nat /\ \A c \in Clients : cver[c] \in Nat /\ cver[c] <= m.ver
  BY ServerNumbers, PacketFields
<1>3. ASSUME NEW c \in Clients, c \notin C
      PROVE  /\ q[c] = down[c] /\ q[c] \in Seq(Packet)
             /\ \A i \in 1 .. Len(q[c]) :
                  /\ cver[c] <= q[c][i].ver
                  /\ \A j \in 1 .. Len(q[c]) : i < j => q[c][i].ver <= q[c][j].ver
  <2>1. q[c] = down[c]
    BY <1>3 DEF Queued
  <2> QED
    BY <1>1, <2>1 DEF VoxelInv, InOrder
<1>4. ASSUME NEW c \in C
      PROVE  /\ q[c] \in Seq(Packet)
             /\ \A i \in 1 .. Len(q[c]) :
                  /\ \/ i \in 1 .. Len(down[c]) /\ q[c][i] = down[c][i]
                     \/ q[c][i] = m
                  /\ cver[c] <= q[c][i].ver
                  /\ \A j \in 1 .. Len(q[c]) : i < j => q[c][i].ver <= q[c][j].ver
  <2> DEFINE n == Len(down[c])
  <2>1. down[c] \in Seq(Packet) /\ n \in Nat
    BY <1>1
  <2>2. q[c] = Append(down[c], m)
    BY DEF Queued
  <2>3. /\ q[c] \in Seq(Packet) /\ Len(q[c]) = n + 1 /\ q[c][n + 1] = m
        /\ \A i \in 1 .. n : q[c][i] = down[c][i]
    BY <2>1, <2>2, AppendProperties
  <2>4. \A i \in 1 .. n :
          /\ down[c][i].ver \in Nat /\ down[c][i].ver <= m.ver
          /\ cver[c] <= down[c][i].ver
          /\ \A j \in 1 .. n : i < j => down[c][i].ver <= down[c][j].ver
    BY <1>2, ServerNumbers DEF VoxelInv, InOrder
  <2> HIDE DEF n
  <2>5. ASSUME NEW i \in 1 .. n + 1
        PROVE  /\ \/ i \in 1 .. n /\ q[c][i] = down[c][i]
                  \/ q[c][i] = m
               /\ cver[c] <= q[c][i].ver
               /\ \A j \in 1 .. n + 1 : i < j => q[c][i].ver <= q[c][j].ver
    <3>1. CASE i = n + 1
      BY <1>2, <2>1, <2>3, <3>1
    <3>2. CASE i \in 1 .. n
      <4>1. q[c][i] = down[c][i] /\ cver[c] <= q[c][i].ver
        BY <2>3, <2>4, <3>2
      <4>2. ASSUME NEW j \in 1 .. n + 1, i < j  PROVE q[c][i].ver <= q[c][j].ver
        <5>1. CASE j = n + 1
          BY <2>3, <2>4, <3>2, <5>1
        <5>2. CASE j \in 1 .. n
          BY <2>3, <2>4, <3>2, <4>2, <5>2
        <5> QED
          BY <2>1, <5>1, <5>2
      <4> QED
        BY <3>2, <4>1, <4>2
    <3> QED
      BY <2>1, <3>1, <3>2
  <2> QED
    BY <2>3, <2>5 DEF n
<1>5. \A c \in Clients : q[c] \in Seq(Packet)
  BY <1>3, <1>4
<1>6. q \in [Clients -> Seq(Packet)]
  <2>1. q = [c \in Clients |-> q[c]]
    BY DEF Queued
  <2> QED
    BY <1>5, <2>1
<1> QED
  BY <1>3, <1>4, <1>6 DEF Sent

-----------------------------------------------------------------------------
\* The invariant: one lemma per action

LEMMA InitInv == Init => VoxelInv
<1> SUFFICES ASSUME Init PROVE VoxelInv
  OBVIOUS
<1>1. 0 .. 0 = {0}
  OBVIOUS
<1>2. NoBlocks \in Blocks
  BY DEF NoBlocks, Blocks, Contents
<1>3. TypeOK
  <2>1. /\ version \in Nat /\ blocks \in Blocks /\ colliders \in [Cells -> Nat]
        /\ past \in [0 .. version -> Blocks]
    BY <1>1, <1>2 DEF Init
  <2>2. /\ here \subseteq Clients
        /\ loaded \in [Clients -> BOOLEAN] /\ cver \in [Clients -> Nat]
        /\ cblocks \in [Clients -> Blocks] /\ edits \in Nat
        /\ told \in [Clients -> SUBSET Cells]
    BY <1>2 DEF Init
  <2>3. /\ pending \in [Clients -> Seq(PendingEdit)]
        /\ up \in [Clients -> Seq(Command)] /\ down \in [Clients -> Seq(Packet)]
    BY DEF Init
  <2>4. \A c \in Clients :
          ~loaded[c] => /\ cver[c] = 0 /\ cblocks[c] = NoBlocks
                        /\ pending[c] = << >> /\ told[c] = {}
    BY DEF Init
  <2> QED
    BY <2>1, <2>2, <2>3, <2>4 DEF TypeOK
<1>4. Started /\ NoneRefused
  BY DEF Init, Started, NoneRefused
<1>5. \A c \in Clients : down[c] = << >> /\ 1 .. Len(down[c]) = {}
  BY DEF Init
<1>6. PacketsOK /\ InOrder
  BY <1>5 DEF PacketsOK, InOrder
<1>7. AbsentIdle /\ Numbered /\ ConfirmedView
  BY DEF Init, AbsentIdle, Numbered, ConfirmedView
<1>8. \A c \in Clients : LinkedEdits(cblocks[c], pending[c])
  BY <1>2, RevertedNone DEF Init
<1> QED
  BY <1>3, <1>4, <1>6, <1>7, <1>8 DEF VoxelInv

LEMMA MakeInv ==
  ASSUME VoxelInv, NEW c \in Clients, MakeEdit(c)  PROVE VoxelInv'
<1>1. PICK x \in Cells, to \in Contents :
        /\ c \in here
        /\ up' = [up EXCEPT ![c] = Append(@,
             [cell |-> x, to |-> to, expected |-> cver[c] + Len(pending[c])])]
        /\ IF loaded[c]
           THEN /\ cblocks' = [cblocks EXCEPT ![c][x] = to]
                /\ pending' = [pending EXCEPT ![c] =
                     Append(@, [cell |-> x, to |-> to, prev |-> cblocks[c][x]])]
           ELSE UNCHANGED <<cblocks, pending>>
        /\ edits' = edits + 1
        /\ UNCHANGED <<serverVars, here, loaded, cver, told, down>>
  BY DEF MakeEdit
<1>2. /\ cblocks \in [Clients -> Blocks] /\ pending \in [Clients -> Seq(PendingEdit)]
      /\ up \in [Clients -> Seq(Command)] /\ edits \in Nat /\ cver \in [Clients -> Nat]
  BY DEF VoxelInv, TypeOK
<1>3. /\ cblocks' \in [Clients -> Blocks] /\ pending' \in [Clients -> Seq(PendingEdit)]
      /\ \A d \in Clients :
           /\ LinkedEdits(cblocks'[d], pending'[d])
           /\ Reverted(cblocks'[d], pending'[d]) = Reverted(cblocks[d], pending[d])
           /\ ~loaded[d] => cblocks'[d] = cblocks[d] /\ pending'[d] = pending[d]
  <2>1. CASE loaded[c]
    <3> DEFINE b == [cblocks[c] EXCEPT ![x] = to]
               p == Append(pending[c], [cell |-> x, to |-> to, prev |-> cblocks[c][x]])
    <3>1. /\ b \in Blocks /\ p \in Seq(PendingEdit)
          /\ Reverted(b, p) = Reverted(cblocks[c], pending[c])
          /\ LinkedEdits(b, p)
      <4>1. LinkedEdits(cblocks[c], pending[c])
        BY DEF VoxelInv
      <4> QED
        BY <1>2, <4>1, RevertedAppend
    <3>2. cblocks' = [cblocks EXCEPT ![c] = b] /\ pending' = [pending EXCEPT ![c] = p]
      BY <1>1, <2>1
    <3> HIDE DEF b, p
    <3> QED
      BY <1>2, <2>1, <3>1, <3>2 DEF VoxelInv
  <2>2. CASE ~loaded[c]
    BY <1>1, <1>2, <2>2 DEF VoxelInv
  <2> QED
    BY <2>1, <2>2
<1>4. up' \in [Clients -> Seq(Command)]
  <2> DEFINE e == [cell |-> x, to |-> to, expected |-> cver[c] + Len(pending[c])]
  <2>1. cver[c] + Len(pending[c]) \in Nat
    BY <1>2
  <2>2. e \in Command
    BY <2>1 DEF Command
  <2>3. Append(up[c], e) \in Seq(Command)
    BY <1>2, <2>2, AppendProperties
  <2>4. up' = [up EXCEPT ![c] = Append(up[c], e)]
    BY <1>1
  <2> HIDE DEF e
  <2> QED
    BY <1>2, <2>3, <2>4
<1>5. edits' \in Nat
  BY <1>1, <1>2
<1>6. TypeOK'
  BY <1>1, <1>3, <1>4, <1>5 DEF VoxelInv, TypeOK, serverVars
<1>7. Numbered' /\ ConfirmedView'
  BY <1>1, <1>3 DEF VoxelInv, Numbered, ConfirmedView, serverVars
<1>8. AbsentIdle'
  BY <1>1, <1>2 DEF VoxelInv, AbsentIdle
<1>9. NoneRefused'
  <2> SUFFICES ASSUME version = 0  PROVE \A d \in Clients : up'[d] \in Seq(FirstEdit)
    BY <1>1 DEF NoneRefused, serverVars
  <2> DEFINE e == [cell |-> x, to |-> to, expected |-> cver[c] + Len(pending[c])]
  <2>1. ~loaded[c]
    BY DEF VoxelInv, Numbered
  <2>2. cver[c] = 0 /\ Len(pending[c]) = 0
    BY <2>1 DEF VoxelInv, TypeOK
  <2>3. e \in FirstEdit
    BY <2>2 DEF FirstEdit, Command
  <2>4. \A d \in Clients : up[d] \in Seq(FirstEdit)
    BY DEF VoxelInv, NoneRefused
  <2>5. Append(up[c], e) \in Seq(FirstEdit)
    BY <2>3, <2>4, AppendProperties
  <2>6. up' = [up EXCEPT ![c] = Append(up[c], e)]
    BY <1>1
  <2> HIDE DEF e
  <2> QED
    BY <1>2, <2>4, <2>5, <2>6
<1> QED
  BY <1>1, <1>3, <1>6, <1>7, <1>8, <1>9, ZenonT(40)
  DEF VoxelInv, Started, PacketsOK, PacketOK, InOrder, serverVars

\* Told of every cell, and of none.
LEMMA OnlyOK ==
  ASSUME NEW b \in Blocks
  PROVE  Only(Cells, b) = b /\ Only({}, b) = NoBlocks
  BY DEF Only, NoBlocks, Blocks

\* Under its pending edits a client that takes a diff has what it was told of
\* the version before: nothing, if it had not got the chunk.
LEMMA BaseOK ==
  ASSUME VoxelInv, NEW c \in Clients, NEW m \in Packet, PacketOK(m),
         m.kind # "full", ~Gap(c, m)
  PROVE  LET t == IF m.ver = 1 THEN Cells ELSE told[c] \cup {m.cell} IN
         /\ t \in SUBSET Cells /\ past[m.ver] \in Blocks
         /\ [Reverted(cblocks[c], pending[c]) EXCEPT ![m.cell] = m.to]
              = Only(t, past[m.ver])
<1>1. /\ m.cell \in Cells /\ m.to \in Contents /\ m.ver \in Nat /\ version \in Nat
      /\ m.ver \in 1 .. version /\ m.ver - 1 \in 0 .. version
      /\ past[m.ver] = [past[m.ver - 1] EXCEPT ![m.cell] = m.to]
      /\ past[m.ver] \in Blocks /\ past[m.ver - 1] \in Blocks
      /\ told[c] \in SUBSET Cells
  BY PacketFields DEF PacketOK, VoxelInv, TypeOK
<1>2. Reverted(cblocks[c], pending[c]) = Only(told[c], past[m.ver - 1])
  <2>1. CASE loaded[c]
    <3>1. cver[c] \in 1 .. version /\ cver[c] = m.ver - 1
      BY <1>1, <2>1 DEF VoxelInv, Numbered, Gap
    <3> QED
      BY <2>1, <3>1 DEF VoxelInv, ConfirmedView
  <2>2. CASE ~loaded[c]
    <3>1. cblocks[c] = NoBlocks /\ pending[c] = << >> /\ told[c] = {}
      BY <2>2 DEF VoxelInv, TypeOK
    <3>2. NoBlocks \in Blocks
      BY DEF NoBlocks, Blocks, Contents
    <3> QED
      BY <1>1, <3>1, <3>2, RevertedNone, OnlyOK
  <2> QED
    BY <2>1, <2>2
<1>3. CASE m.ver # 1
  <2> DEFINE q == past[m.ver - 1]
  <2>1. /\ q \in Blocks /\ Reverted(cblocks[c], pending[c]) = Only(told[c], q)
        /\ past[m.ver] = [q EXCEPT ![m.cell] = m.to]
    BY <1>1, <1>2
  <2> HIDE DEF q
  <2>2. [Only(told[c], q) EXCEPT ![m.cell] = m.to]
          = Only(told[c] \cup {m.cell}, [q EXCEPT ![m.cell] = m.to])
    <3>1. m.cell \in Cells /\ q \in Blocks
      BY <1>1, <2>1
    <3> QED
      BY <3>1 DEF Only, Blocks
  <2> QED
    BY <1>1, <1>3, <2>1, <2>2
<1>4. CASE m.ver = 1
  <2>1. ~loaded[c]
    BY <1>1, <1>4 DEF VoxelInv, Numbered, Gap
  <2>2. told[c] = {}
    BY <2>1 DEF VoxelInv, TypeOK
  <2>3. past[m.ver - 1] = NoBlocks
    BY <1>4 DEF VoxelInv, Started
  <2>4. Reverted(cblocks[c], pending[c]) = past[m.ver - 1]
    BY <1>1, <1>2, <2>2, <2>3, OnlyOK
  <2> QED
    BY <1>1, <1>4, <2>4, OnlyOK
<1> QED
  BY <1>3, <1>4

\* Applying a packet.
LEMMA ApplyOK ==
  ASSUME VoxelInv, NEW c \in Clients, NEW m \in Packet, PacketOK(m),
         cver[c] <= m.ver,
         IF m.kind = "full" THEN ApplyFull(c, m) ELSE ApplyDiff(c, m)
  PROVE  \E b \in Blocks, p \in Seq(PendingEdit), v \in 1 .. version,
            t \in SUBSET Cells :
           /\ loaded' = [loaded EXCEPT ![c] = TRUE]
           /\ cblocks' = [cblocks EXCEPT ![c] = b]
           /\ pending' = [pending EXCEPT ![c] = p]
           /\ cver' = [cver EXCEPT ![c] = v]
           /\ told' = [told EXCEPT ![c] = t]
           /\ cver[c] <= v /\ v <= m.ver
           /\ LinkedEdits(b, p) /\ Reverted(b, p) = Only(t, past[v])
<1>1. /\ cblocks \in [Clients -> Blocks] /\ pending \in [Clients -> Seq(PendingEdit)]
      /\ loaded \in [Clients -> BOOLEAN] /\ cver \in [Clients -> Nat]
      /\ told \in [Clients -> SUBSET Cells]
      /\ LinkedEdits(cblocks[c], pending[c])
  BY DEF VoxelInv, TypeOK
<1>2. m.ver \in 1 .. version /\ m.ver \in Nat /\ m.ver <= m.ver
  BY PacketFields DEF PacketOK
<1>3. CASE m.kind = "full"
  <2>1. m.blocks \in Blocks /\ m.blocks = past[m.ver]
    BY <1>3, PacketFields DEF PacketOK
  <2>2. << >> \in Seq(PendingEdit) /\ Cells \in SUBSET Cells /\ cver[c] <= m.ver
    OBVIOUS
  <2>3. /\ LinkedEdits(m.blocks, << >>)
        /\ Reverted(m.blocks, << >>) = Only(Cells, past[m.ver])
    BY <2>1, RevertedNone, OnlyOK
  <2>4. /\ loaded' = [loaded EXCEPT ![c] = TRUE] /\ cver' = [cver EXCEPT ![c] = m.ver]
        /\ cblocks' = [cblocks EXCEPT ![c] = m.blocks]
        /\ pending' = [pending EXCEPT ![c] = << >>]
        /\ told' = [told EXCEPT ![c] = Cells]
    BY <1>3 DEF ApplyFull
  <2> QED
    BY <1>2, <2>1, <2>2, <2>3, <2>4
<1>4. CASE m.kind # "full"
  <2>1. ApplyDiff(c, m) /\ m.cell \in Cells /\ m.to \in Contents
    BY <1>4, PacketFields
  <2>2. CASE Gap(c, m)
    <3>1. loaded[c]
      BY <1>1, <2>2 DEF Gap, VoxelInv, TypeOK
    <3>2. /\ cver[c] \in 1 .. version /\ cver[c] <= cver[c]
          /\ Reverted(cblocks[c], pending[c]) = Only(told[c], past[cver[c]])
      BY <1>1, <3>1 DEF VoxelInv, ConfirmedView
    <3>3. UNCHANGED clientVars
      BY <2>1, <2>2 DEF ApplyDiff
    <3>4. /\ cblocks[c] \in Blocks /\ pending[c] \in Seq(PendingEdit)
          /\ told[c] \in SUBSET Cells
          /\ cblocks' = [cblocks EXCEPT ![c] = cblocks[c]]
          /\ pending' = [pending EXCEPT ![c] = pending[c]]
          /\ cver' = [cver EXCEPT ![c] = cver[c]]
          /\ loaded' = [loaded EXCEPT ![c] = TRUE]
          /\ told' = [told EXCEPT ![c] = told[c]]
      BY <1>1, <3>1, <3>3 DEF clientVars
    <3> QED
      BY <1>1, <3>2, <3>4
  <2>3. CASE ~Gap(c, m)
    <3> DEFINE t == IF m.ver = 1 THEN Cells ELSE told[c] \cup {m.cell}
    <3>1. /\ t \in SUBSET Cells /\ past[m.ver] \in Blocks
          /\ [Reverted(cblocks[c], pending[c]) EXCEPT ![m.cell] = m.to]
               = Only(t, past[m.ver])
      BY <1>4, <2>3, BaseOK
    <3>2. /\ loaded' = [loaded EXCEPT ![c] = TRUE] /\ cver' = [cver EXCEPT ![c] = m.ver]
          /\ told' = [told EXCEPT ![c] = t]
      BY <2>1, <2>3 DEF ApplyDiff
    <3> HIDE DEF t
    <3>3. CASE Confirms(c, m)
      <4>1. /\ pending[c] # << >> /\ pending[c][1].cell = m.cell
            /\ pending[c][1].to = m.to
            /\ pending' = [pending EXCEPT ![c] = Tail(pending[c])]
            /\ cblocks' = [cblocks EXCEPT ![c] = cblocks[c]]
        BY <1>1, <2>1, <2>3, <3>3 DEF ApplyDiff, Confirms
      <4>2. cblocks[c] \in Blocks /\ pending[c] \in Seq(PendingEdit)
        BY <1>1
      <4>3. /\ Tail(pending[c]) \in Seq(PendingEdit)
            /\ LinkedEdits(cblocks[c], Tail(pending[c]))
            /\ Reverted(cblocks[c], Tail(pending[c])) = Only(t, past[m.ver])
        <5>1. LinkedEdits(cblocks[c], pending[c])
          BY <1>1
        <5>2. /\ Tail(pending[c]) \in Seq(PendingEdit)
              /\ LinkedEdits(cblocks[c], Tail(pending[c]))
              /\ Reverted(cblocks[c], Tail(pending[c]))
                   = [Reverted(cblocks[c], pending[c]) EXCEPT
                        ![pending[c][1].cell] = pending[c][1].to]
          BY <4>1, <4>2, <5>1, RevertedTail
        <5> QED
          BY <3>1, <4>1, <5>2
      <4> DEFINE p == Tail(pending[c])
      <4>4. /\ p \in Seq(PendingEdit) /\ pending' = [pending EXCEPT ![c] = p]
            /\ LinkedEdits(cblocks[c], p)
            /\ Reverted(cblocks[c], p) = Only(t, past[m.ver])
        BY <4>1, <4>3
      <4> HIDE DEF p
      <4>5. /\ loaded' = [loaded EXCEPT ![c] = TRUE]
            /\ cblocks' = [cblocks EXCEPT ![c] = cblocks[c]]
            /\ pending' = [pending EXCEPT ![c] = p]
            /\ cver' = [cver EXCEPT ![c] = m.ver] /\ told' = [told EXCEPT ![c] = t]
            /\ cver[c] <= m.ver /\ m.ver <= m.ver
            /\ LinkedEdits(cblocks[c], p)
            /\ Reverted(cblocks[c], p) = Only(t, past[m.ver])
        BY <1>2, <3>2, <4>1, <4>4
      <4>6. t \in SUBSET Cells /\ m.ver \in 1 .. version
        BY <1>2, <3>1
      <4> QED
        BY <4>2, <4>4, <4>5, <4>6, Zenon
    <3>4. CASE ~Confirms(c, m)
      <4> DEFINE b == [Reverted(cblocks[c], pending[c]) EXCEPT ![m.cell] = m.to]
      <4>1. /\ cblocks' = [cblocks EXCEPT ![c] = b]
            /\ pending' = [pending EXCEPT ![c] = << >>]
        BY <2>1, <2>3, <3>4 DEF ApplyDiff
      <4>2. b \in Blocks
        <5>1. Reverted(cblocks[c], pending[c]) \in Blocks
          BY <1>1, RevertedType
        <5> QED
          BY <2>1, <5>1 DEF Blocks
      <4>3. LinkedEdits(b, << >>) /\ Reverted(b, << >>) = Only(t, past[m.ver])
        BY <3>1, <4>2, RevertedNone
      <4>4. << >> \in Seq(PendingEdit)
        OBVIOUS
      <4> HIDE DEF b
      <4> QED
        BY <1>2, <3>1, <3>2, <4>1, <4>2, <4>3, <4>4
    <3> QED
      BY <3>3, <3>4
  <2> QED
    BY <2>2, <2>3
<1> QED
  BY <1>3, <1>4

LEMMA ReceiveInv ==
  ASSUME VoxelInv, NEW c \in Clients, ReceivePacket(c)
  PROVE  VoxelInv' /\ \A d \in Clients : cver[d] <= cver'[d]
<1> DEFINE m == down[c][1]
           n == Len(down[c])
<1>1. /\ down[c] # << >>
      /\ IF m.kind = "full" THEN ApplyFull(c, m) ELSE ApplyDiff(c, m)
      /\ down' = [down EXCEPT ![c] = Tail(@)]
      /\ UNCHANGED <<serverVars, here, up, edits>>
  BY DEF ReceivePacket
<1>2. /\ down \in [Clients -> Seq(Packet)] /\ cblocks \in [Clients -> Blocks]
      /\ pending \in [Clients -> Seq(PendingEdit)]
      /\ loaded \in [Clients -> BOOLEAN] /\ cver \in [Clients -> Nat]
      /\ told \in [Clients -> SUBSET Cells] /\ down[c] \in Seq(Packet)
  BY DEF VoxelInv, TypeOK
<1>3. n \in Nat \ {0} /\ 1 \in 1 .. n
  BY <1>1, <1>2, EmptySeq
<1>4. c \in here
  BY <1>1 DEF VoxelInv, AbsentIdle
<1>5. /\ m \in Packet /\ PacketOK(m) /\ cver[c] <= m.ver /\ m.ver \in Nat
  BY <1>3, ServerNumbers DEF VoxelInv, InOrder
<1>6. /\ Tail(down[c]) \in Seq(Packet) /\ Len(Tail(down[c])) = n - 1
      /\ \A i \in 1 .. n - 1 : Tail(down[c])[i] = down[c][i + 1]
  BY <1>1, <1>2, HeadTailProperties
<1> HIDE DEF m, n
<1>7. PICK b \in Blocks, p \in Seq(PendingEdit), v \in 1 .. version, t \in SUBSET Cells :
        /\ loaded' = [loaded EXCEPT ![c] = TRUE]
        /\ cblocks' = [cblocks EXCEPT ![c] = b]
        /\ pending' = [pending EXCEPT ![c] = p]
        /\ cver' = [cver EXCEPT ![c] = v]
        /\ told' = [told EXCEPT ![c] = t]
        /\ cver[c] <= v /\ v <= m.ver
        /\ LinkedEdits(b, p) /\ Reverted(b, p) = Only(t, past[v])
  BY <1>1, <1>5, ApplyOK
<1>8. v \in Nat /\ \A d \in Clients : cver[d] <= cver'[d]
  BY <1>2, <1>7, ServerNumbers
<1>9. TypeOK'
  BY <1>1, <1>2, <1>6, <1>7, <1>8 DEF VoxelInv, TypeOK, serverVars
<1>10. ASSUME NEW d \in Clients, NEW i \in 1 .. Len(down'[d])
       PROVE  /\ PacketOK(down[d][i])'
              /\ cver'[d] <= down'[d][i].ver
              /\ \A j \in 1 .. Len(down'[d]) :
                   i < j => down'[d][i].ver <= down'[d][j].ver
  <2>1. UNCHANGED <<version, past>>
    BY <1>1 DEF serverVars
  <2>2. CASE d = c
    <3>1. /\ Len(down'[d]) = n - 1
          /\ \A j \in 1 .. n - 1 : down'[d][j] = down[c][j + 1] /\ j + 1 \in 1 .. n
      BY <1>1, <1>2, <1>3, <1>6, <2>2
    <3>2. \A j \in 1 .. n : PacketOK(down[c][j]) /\ down[c][j].ver \in Nat
      BY ServerNumbers DEF n
    <3>3. PacketOK(down[d][i])'
      <4>1. down'[d][i] = down[c][i + 1] /\ i + 1 \in 1 .. n
        BY <3>1
      <4>2. PacketOK(down[c][i + 1])
        BY <3>2, <4>1
      <4> QED
        BY <2>1, <4>1, <4>2 DEF PacketOK
    <3>4. \A j \in 1 .. n : 1 < j => m.ver <= down[c][j].ver
      BY <1>3 DEF VoxelInv, InOrder, m, n
    <3>5. m.ver <= down[c][i + 1].ver /\ down[c][i + 1].ver \in Nat
      BY <1>3, <3>1, <3>2, <3>4
    <3>6. cver'[d] = v /\ v <= down[c][i + 1].ver
      BY <1>2, <1>5, <1>7, <1>8, <2>2, <3>5
    <3>7. \A j, k \in 1 .. n : j < k => down[c][j].ver <= down[c][k].ver
      BY DEF VoxelInv, InOrder, n
    <3>8. \A j \in 1 .. n - 1 : i < j => down'[d][i].ver <= down'[d][j].ver
      <4> SUFFICES ASSUME NEW j \in 1 .. n - 1, i < j
                   PROVE  down'[d][i].ver <= down'[d][j].ver
        OBVIOUS
      <4>1. i \in 1 .. n - 1
        BY <3>1
      <4>2. i + 1 \in 1 .. n /\ j + 1 \in 1 .. n
        BY <3>1, <4>1
      <4>3. i + 1 < j + 1
        BY <4>1
      <4>4. down'[d][i] = down[c][i + 1] /\ down'[d][j] = down[c][j + 1]
        BY <3>1, <4>1
      <4> QED
        BY <3>7, <4>2, <4>3, <4>4
    <3> QED
      BY <3>1, <3>3, <3>6, <3>8
  <2>3. CASE d # c
    <3>1. down'[d] = down[d] /\ cver'[d] = cver[d]
      BY <1>1, <1>2, <1>7, <2>3
    <3>2. PacketOK(down[d][i])
      BY <3>1 DEF VoxelInv, PacketsOK
    <3>3. PacketOK(down[d][i])'
      BY <2>1, <3>1, <3>2 DEF PacketOK
    <3> QED
      BY <3>1, <3>3 DEF VoxelInv, InOrder
  <2> QED
    BY <2>2, <2>3
<1>11. PacketsOK' /\ InOrder'
  BY <1>10 DEF PacketsOK, InOrder
<1>12. NoneRefused' /\ AbsentIdle'
  <2>1. NoneRefused'
    BY <1>1 DEF VoxelInv, NoneRefused, serverVars
  <2>2. AbsentIdle'
    BY <1>1, <1>2, <1>4, <1>7 DEF VoxelInv, AbsentIdle
  <2> QED
    BY <2>1, <2>2
<1>13. \A d \in Clients : LinkedEdits(cblocks'[d], pending'[d])
  BY <1>2, <1>7 DEF VoxelInv
<1>14. Numbered' /\ ConfirmedView'
  <2> SUFFICES ASSUME NEW d \in Clients, loaded'[d]
               PROVE  /\ cver'[d] \in 1 .. version'
                      /\ Reverted(cblocks'[d], pending'[d]) = Only(told'[d], past'[cver'[d]])
    BY DEF Numbered, ConfirmedView
  <2>1. version' = version /\ past' = past
    BY <1>1 DEF serverVars
  <2>2. CASE d = c
    BY <1>2, <1>7, <2>1, <2>2
  <2>3. CASE d # c
    <3>1. /\ loaded[d] /\ cver'[d] = cver[d] /\ cblocks'[d] = cblocks[d]
          /\ pending'[d] = pending[d] /\ told'[d] = told[d]
      BY <1>2, <1>7, <2>3
    <3> QED
      BY <2>1, <3>1 DEF VoxelInv, ConfirmedView
  <2> QED
    BY <2>2, <2>3
<1> QED
  BY <1>1, <1>8, <1>9, <1>11, <1>12, <1>13, <1>14 DEF VoxelInv, Started, serverVars

\* An edit taken off its link, lost or received.
LEMMA TakenOff ==
  ASSUME VoxelInv, NEW c \in Clients, NEW i \in 1 .. Len(up[c])
  PROVE  /\ [up EXCEPT ![c] = Without(@, i)] \in [Clients -> Seq(Command)]
         /\ c \in here /\ up[c][i] \in Command
         /\ version = 0 =>
              /\ \A d \in Clients : [up EXCEPT ![c] = Without(@, i)][d] \in Seq(FirstEdit)
              /\ Current(up[c][i])
<1>1. up \in [Clients -> Seq(Command)] /\ up[c] \in Seq(Command)
  BY DEF VoxelInv, TypeOK
<1>2. Without(up[c], i) \in Seq(Command) /\ up[c] # << >>
  BY <1>1, WithoutOK
<1>3. c \in here
  BY <1>2 DEF VoxelInv, AbsentIdle
<1>4. ASSUME version = 0
      PROVE  /\ \A d \in Clients : [up EXCEPT ![c] = Without(@, i)][d] \in Seq(FirstEdit)
             /\ Current(up[c][i])
  <2>1. \A d \in Clients : up[d] \in Seq(FirstEdit)
    BY <1>4 DEF VoxelInv, NoneRefused
  <2>2. Without(up[c], i) \in Seq(FirstEdit)
    BY <2>1, WithoutOK
  <2>3. up[c][i] \in FirstEdit
    BY <2>1, ElementOfSeq
  <2> QED
    BY <1>1, <1>4, <2>1, <2>2, <2>3 DEF FirstEdit, Current
<1> QED
  BY <1>1, <1>2, <1>3, <1>4, ElementOfSeq

LEMMA LoseInv ==
  ASSUME VoxelInv, NEW c \in Clients, LoseEdit(c)  PROVE VoxelInv'
<1>1. PICK i \in DOMAIN up[c] : up' = [up EXCEPT ![c] = Without(@, i)]
  BY DEF LoseEdit
<1>2. i \in 1 .. Len(up[c])
  BY DEF VoxelInv, TypeOK
<1>3. /\ up' \in [Clients -> Seq(Command)] /\ c \in here
      /\ version = 0 => \A d \in Clients : up'[d] \in Seq(FirstEdit)
  BY <1>1, <1>2, TakenOff
<1>4. UNCHANGED <<serverVars, here, clientVars, down, edits>>
  BY DEF LoseEdit
<1>5. TypeOK'
  BY <1>3, <1>4 DEF VoxelInv, TypeOK, serverVars, clientVars
<1>6. AbsentIdle'
  BY <1>1, <1>3, <1>4 DEF VoxelInv, AbsentIdle, TypeOK, clientVars
<1>7. NoneRefused'
  BY <1>3, <1>4 DEF NoneRefused, serverVars
<1> QED
  BY <1>4, <1>5, <1>6, <1>7, ZenonT(40)
  DEF VoxelInv, Started, PacketsOK, PacketOK, InOrder, Numbered, ConfirmedView,
      serverVars, clientVars

\* The whole chunk, as a packet.
LEMMA FullOK ==
  ASSUME VoxelInv, version # 0
  PROVE  /\ Full \in Packet /\ version <= Full.ver /\ PacketOK(Full)
         /\ Full.kind = "full"
<1>1. /\ version \in Nat /\ blocks \in Blocks /\ version \in 1 .. version
      /\ past[version] = blocks /\ version <= version
  BY ServerNumbers DEF VoxelInv, TypeOK, Started
<1>2. Full.kind = "full" /\ Full.ver = version /\ Full.blocks = blocks
  BY DEF Full
<1>3. Full \in Packet
  BY <1>1 DEF Full, Packet
<1> QED
  BY <1>1, <1>2, <1>3 DEF PacketOK

\* The next version of the chunk leaves its history as it was.
LEMMA AcceptedOK ==
  ASSUME VoxelInv, NEW e \in Command,
         version' = version + 1,
         past' = [v \in 0 .. version + 1 |->
                    IF v = version + 1 THEN [blocks EXCEPT ![e.cell] = e.to]
                    ELSE past[v]]
  PROVE  LET m == Diff(version + 1, e.cell, e.to) IN
         /\ past' \in [0 .. version' -> Blocks]
         /\ past'[version'] = [blocks EXCEPT ![e.cell] = e.to]
         /\ \A v \in 0 .. version :
              v \in 0 .. version' /\ past'[v] = past[v]
         /\ m \in Packet /\ version <= m.ver
         /\ m.ver \in 1 .. version' /\ m.ver - 1 \in 0 .. version'
         /\ past'[m.ver] = [past'[m.ver - 1] EXCEPT ![m.cell] = m.to]
         /\ m.kind # "full"
<1> DEFINE m == Diff(version + 1, e.cell, e.to)
<1>1. /\ version \in Nat
      /\ blocks \in Blocks /\ past \in [0 .. version -> Blocks]
      /\ past[version] = blocks
  BY ServerNumbers DEF VoxelInv, TypeOK, Started
<1>2. e.cell \in Cells /\ e.to \in Contents
  BY DEF Command
<1>3. /\ m.kind = "diff" /\ m.ver = version + 1 /\ m.cell = e.cell /\ m.to = e.to
      /\ m \in Packet
  BY <1>1, <1>2 DEF Diff, Packet
<1> HIDE DEF m
<1>4. \A v \in 0 .. version :
        v \in 0 .. version' /\ past'[v] = past[v]
  BY <1>1
<1>5. /\ version + 1 \in 0 .. version' /\ version \in 0 .. version
      /\ past'[version'] = [blocks EXCEPT ![e.cell] = e.to]
  BY <1>1
<1>6. past' \in [0 .. version' -> Blocks]
  <2>1. [blocks EXCEPT ![e.cell] = e.to] \in Blocks
    BY <1>1, <1>2 DEF Blocks
  <2>2. \A v \in 0 .. version + 1 :
          v # version + 1 => v \in 0 .. version
    BY <1>1
  <2> QED
    BY <1>1, <2>1, <2>2
<1>7. past'[version] = blocks /\ m.ver - 1 = version /\ version <= m.ver
  BY <1>1, <1>3, <1>4, <1>5
<1>8. m.kind # "full"
  BY <1>3
<1>9. past'[m.ver] = [past'[m.ver - 1] EXCEPT ![m.cell] = m.to]
  BY <1>3, <1>5, <1>7
<1>10. m.ver \in 1 .. version' /\ m.ver - 1 \in 0 .. version'
  BY <1>1, <1>3, <1>5, <1>7
<1> QED
  BY <1>3, <1>4, <1>5, <1>6, <1>7, <1>8, <1>9, <1>10 DEF m

\* What the server sends after an edit: a packet that agrees with its history.
LEMMA SendingOK ==
  ASSUME VoxelInv, NEW C \in SUBSET here, NEW m \in Packet,
         down' = Queued(C, m), version <= m.ver, PacketOK(m)',
         \A q \in Packet : PacketOK(q) => PacketOK(q)',
         UNCHANGED <<here, clientVars>>,
         \A d \in Clients \ here : up'[d] = << >>
  PROVE  PacketsOK' /\ InOrder' /\ AbsentIdle'
<1>1. /\ here \subseteq Clients /\ C \subseteq Clients /\ here' = here
      /\ UNCHANGED <<loaded, cver>>
  BY DEF VoxelInv, TypeOK, clientVars
<1>2. Sent(down', C, m)
  <2>1. PICK q : q = down'
    OBVIOUS
  <2>2. Sent(q, C, m)
    BY <1>1, <2>1, QueuedOK
  <2> QED
    BY <2>1, <2>2
<1>3. ASSUME NEW c \in Clients, NEW i \in 1 .. Len(down'[c])
      PROVE  PacketOK(down[c][i])'
  <2>1. CASE i \in 1 .. Len(down[c]) /\ down'[c][i] = down[c][i]
    <3>1. down[c][i] \in Packet /\ PacketOK(down[c][i])
      BY <2>1, ServerNumbers
    <3> DEFINE q == down[c][i]
    <3> HIDE DEF q
    <3>2. PacketOK(q) /\ q \in Packet /\ down'[c][i] = q
      BY <2>1, <3>1 DEF q
    <3> QED
      BY <3>2 DEF PacketOK
  <2>2. CASE down'[c][i] = m
    BY <2>2 DEF PacketOK
  <2> QED
    BY <1>2, <2>1, <2>2 DEF Sent
<1>4. PacketsOK'
  BY <1>3 DEF PacketsOK
<1>5. InOrder'
  BY <1>1, <1>2 DEF Sent, InOrder
<1>6. AbsentIdle'
  BY <1>1, <1>2 DEF Sent, VoxelInv, AbsentIdle
<1> QED
  BY <1>4, <1>5, <1>6

LEMMA ReceiveEditInv ==
  ASSUME VoxelInv, NEW c \in Clients, ReceiveEdit(c)
  PROVE  VoxelInv' /\ UNCHANGED <<here, clientVars>>
<1>1. PICK i \in MayArrive(up[c]) :
        /\ \/ MayDie /\ UNCHANGED <<serverVars, down>>
           \/ AcceptEdit(up[c][i])
           \/ ~Current(up[c][i]) /\ Reject(c)
        /\ up' = [up EXCEPT ![c] = Without(@, i)]
        /\ UNCHANGED <<here, clientVars, edits>>
  BY DEF ReceiveEdit
<1>2. i \in 1 .. Len(up[c])
  <2>1. up[c] \in Seq(Command)
    BY DEF VoxelInv, TypeOK
  <2> QED
    BY <2>1, ArrivalInRange
<1>3. /\ up' \in [Clients -> Seq(Command)] /\ c \in here /\ up[c][i] \in Command
      /\ version = 0 =>
           (\A d \in Clients : up'[d] \in Seq(FirstEdit)) /\ Current(up[c][i])
  BY <1>1, <1>2, TakenOff
<1>4. \A d \in Clients \ here : up'[d] = << >>
  BY <1>1, <1>3 DEF VoxelInv, AbsentIdle, TypeOK
<1>5. here \subseteq Clients
  BY DEF VoxelInv, TypeOK
<1>6. CASE UNCHANGED <<serverVars, down>>
  <2>1. TypeOK'
    BY <1>1, <1>3, <1>6 DEF VoxelInv, TypeOK, serverVars, clientVars
  <2>2. AbsentIdle'
    BY <1>1, <1>4, <1>6 DEF VoxelInv, AbsentIdle, clientVars
  <2>3. NoneRefused'
    BY <1>3, <1>6 DEF NoneRefused, serverVars
  <2> QED
    BY <1>1, <1>6, <2>1, <2>2, <2>3, ZenonT(40)
    DEF VoxelInv, Started, PacketsOK, PacketOK, InOrder, Numbered, ConfirmedView,
        serverVars, clientVars
<1>7. CASE AcceptEdit(up[c][i])
  <2>0. PICK e \in Command, m \in Packet :
          e = up[c][i] /\ m = Diff(version + 1, e.cell, e.to)
    <3>1. version + 1 \in Nat /\ up[c][i].cell \in Cells /\ up[c][i].to \in Contents
      BY <1>3, ServerNumbers DEF Command
    <3>2. Diff(version + 1, up[c][i].cell, up[c][i].to) \in Packet
      BY <3>1 DEF Diff, Packet
    <3> QED
      BY <1>3, <3>2
  <2>1. PICK C \in WithRoom(here) : down' = Queued(C, m)
    BY <1>7, <2>0 DEF AcceptEdit
  <2>2. C \in SUBSET here
    BY DEF WithRoom
  <2>3. /\ version' = version + 1
        /\ blocks' = [blocks EXCEPT ![e.cell] = e.to]
        /\ colliders' = [colliders EXCEPT ![e.cell] =
             IF e.to # Air THEN @ + 1 ELSE IF @ > 0 THEN @ - 1 ELSE @]
        /\ past' = [v \in 0 .. version + 1 |->
                      IF v = version + 1 THEN [blocks EXCEPT ![e.cell] = e.to]
                      ELSE past[v]]
    BY <1>7, <2>0 DEF AcceptEdit
  <2>4. /\ past' \in [0 .. version' -> Blocks]
        /\ past'[version'] = [blocks EXCEPT ![e.cell] = e.to]
        /\ \A v \in 0 .. version :
             v \in 0 .. version' /\ past'[v] = past[v]
        /\ m \in Packet /\ version <= m.ver
        /\ m.ver \in 1 .. version' /\ m.ver - 1 \in 0 .. version'
        /\ past'[m.ver] = [past'[m.ver - 1] EXCEPT ![m.cell] = m.to]
        /\ m.kind # "full"
    BY <2>0, <2>3, AcceptedOK, ZenonT(40)
  <2>5. e.cell \in Cells /\ e.to \in Contents
    BY DEF Command
  <2>6. PacketOK(m)'
    BY <2>4 DEF PacketOK
  <2>7. ASSUME NEW q \in Packet, PacketOK(q)  PROVE PacketOK(q)'
    BY <2>4, <2>7 DEF PacketOK
  <2>8. PacketsOK' /\ InOrder' /\ AbsentIdle'
    BY <1>1, <1>4, <2>1, <2>2, <2>4, <2>6, <2>7, SendingOK
  <2>9. version' \in Nat /\ blocks' \in Blocks /\ colliders' \in [Cells -> Nat]
    <3>1. /\ version \in Nat /\ blocks \in Blocks /\ colliders \in [Cells -> Nat]
      BY DEF VoxelInv, TypeOK
    <3>2. blocks' \in Blocks
      BY <2>3, <2>5, <3>1 DEF Blocks
    <3>3. colliders[e.cell] \in Nat
      BY <2>5, <3>1
    <3>4. (IF e.to # Air THEN colliders[e.cell] + 1
           ELSE IF colliders[e.cell] > 0 THEN colliders[e.cell] - 1
           ELSE colliders[e.cell]) \in Nat
      BY <3>3
    <3>5. colliders' \in [Cells -> Nat]
      BY <2>3, <3>1, <3>4
    <3> QED
      BY <2>3, <3>1, <3>2, <3>5
  <2>10. down' \in [Clients -> Seq(Packet)]
    <3>1. C \in SUBSET Clients
      BY <1>5, <2>2
    <3> QED
      BY <2>1, <2>4, <3>1, QueuedOK
  <2>11. TypeOK'
    BY <1>1, <1>3, <2>4, <2>9, <2>10 DEF VoxelInv, TypeOK, clientVars
  <2>12. Started' /\ NoneRefused'
    <3>1. version \in Nat /\ 0 \in 0 .. version /\ version' # 0 /\ NoBlocks' = NoBlocks
      BY <2>3, ServerNumbers DEF NoBlocks
    <3> QED
      BY <2>3, <2>4, <3>1 DEF VoxelInv, Started, NoneRefused
  <2>13. Numbered' /\ ConfirmedView'
    <3> SUFFICES ASSUME NEW d \in Clients, loaded[d]
                 PROVE  /\ cver[d] \in 1 .. version'
                        /\ Reverted(cblocks[d], pending[d]) = Only(told[d], past'[cver[d]])
      BY <1>1 DEF Numbered, ConfirmedView, clientVars
    <3>1. /\ cver[d] \in 1 .. version
          /\ Reverted(cblocks[d], pending[d]) = Only(told[d], past[cver[d]])
      BY DEF VoxelInv, ConfirmedView
    <3>2. cver[d] \in 0 .. version /\ cver[d] \in 1 .. version'
      BY <2>3, <3>1, ServerNumbers
    <3> QED
      BY <2>4, <3>1, <3>2
  <2> QED
    BY <1>1, <2>8, <2>11, <2>12, <2>13 DEF VoxelInv, clientVars
<1>8. CASE ~Current(up[c][i]) /\ Reject(c)
  <2>0. PICK m \in Packet : m = Full /\ version <= m.ver /\ PacketOK(m)
    BY <1>3, <1>8, FullOK
  <2>1. UNCHANGED serverVars
    BY <1>8 DEF Reject
  <2>2. PICK C \in WithRoom({c}) : down' = Queued(C, m)
    BY <1>8, <2>0 DEF Reject
  <2>3. C \in SUBSET here
    BY <1>3 DEF WithRoom
  <2>5. \A q \in Packet : PacketOK(q) => PacketOK(q)'
    BY <2>1 DEF PacketOK, serverVars
  <2>7. PacketOK(m)'
    BY <2>0, <2>1 DEF PacketOK, serverVars
  <2>8. PacketsOK' /\ InOrder' /\ AbsentIdle'
    BY <1>1, <1>4, <2>0, <2>2, <2>3, <2>5, <2>7, SendingOK
  <2>9. down' \in [Clients -> Seq(Packet)]
    <3>1. C \in SUBSET Clients
      BY <1>5, <2>3
    <3> QED
      BY <2>0, <2>2, <3>1, QueuedOK
  <2>10. TypeOK'
    BY <1>1, <1>3, <2>1, <2>9 DEF VoxelInv, TypeOK, clientVars, serverVars
  <2>11. NoneRefused'
    BY <1>3, <2>1 DEF NoneRefused, serverVars
  <2> QED
    BY <1>1, <2>1, <2>8, <2>10, <2>11
    DEF VoxelInv, Started, Numbered, ConfirmedView, clientVars, serverVars
<1> QED
  BY <1>1, <1>6, <1>7, <1>8

\* A client that joins in range of the chunk is sent it as it is.
LEMMA JoinNearInv ==
  ASSUME VoxelInv, NEW c \in Clients, Join(c), version > 0, down' = Queued({c}, Full)
  PROVE  PacketsOK' /\ InOrder' /\ AbsentIdle' /\ TypeOK'
<1>1. /\ c \notin here /\ here' = here \cup {c} /\ down' = Queued({c}, Full)
      /\ UNCHANGED <<serverVars, clientVars, up, edits>>
  BY DEF Join
<1>2. /\ here \subseteq Clients /\ down \in [Clients -> Seq(Packet)]
      /\ down[c] = << >> /\ ~loaded[c]
  BY <1>1 DEF VoxelInv, TypeOK, AbsentIdle
<1>0. version # 0
  BY ServerNumbers
<1>3. PICK m \in Packet : m = Full
  BY <1>0, FullOK
<1>4. m \in Packet /\ version <= m.ver /\ PacketOK(m)
  BY <1>0, <1>3, FullOK
<1>5. down' \in [Clients -> Seq(Packet)] /\ Sent(down', {c}, m)
  <2>1. PICK q : q = down'
    OBVIOUS
  <2>2. q \in [Clients -> Seq(Packet)] /\ Sent(q, {c}, m)
    BY <1>1, <1>3, <1>4, <2>1, QueuedOK
  <2> QED
    BY <2>1, <2>2
<1>7. PacketsOK'
  <2> SUFFICES ASSUME NEW d \in Clients, NEW i \in 1 .. Len(down'[d])
               PROVE  PacketOK(down[d][i])'
    BY DEF PacketsOK
  <2>1. CASE i \in 1 .. Len(down[d]) /\ down'[d][i] = down[d][i]
    <3>1. PacketOK(down[d][i])
      BY <2>1, ServerNumbers
    <3> QED
      BY <1>1, <2>1, <3>1 DEF PacketOK, serverVars
  <2>2. CASE down'[d][i] = m
    BY <1>1, <1>4, <2>2 DEF PacketOK, serverVars
  <2> QED
    BY <1>5, <2>1, <2>2 DEF Sent
<1>8. InOrder'
  <2>1. cver' = cver
    BY <1>1 DEF clientVars
  <2>2. ASSUME NEW d \in Clients, NEW i \in 1 .. Len(down'[d])
        PROVE  /\ cver[d] <= down'[d][i].ver
               /\ \A j \in 1 .. Len(down'[d]) :
                    i < j => down'[d][i].ver <= down'[d][j].ver
    BY <1>5, SentInOrder
  <2> QED
    BY <2>1, <2>2 DEF InOrder
<1>10. AbsentIdle'
  BY <1>1, <1>5 DEF Sent, VoxelInv, AbsentIdle, clientVars
<1>11. TypeOK'
  BY <1>1, <1>2, <1>5 DEF VoxelInv, TypeOK, serverVars, clientVars
<1> QED
  BY <1>7, <1>8, <1>10, <1>11

\* One that joins out of range, or before there is a chunk, gets nothing.
LEMMA JoinInv ==
  ASSUME VoxelInv, NEW c \in Clients, Join(c)
  PROVE  VoxelInv' /\ UNCHANGED clientVars
<1>1. /\ here' = here \cup {c} /\ UNCHANGED <<serverVars, clientVars, up, edits>>
      /\ \/ version > 0 /\ down' = Queued({c}, Full)
         \/ down' = down
  BY DEF Join
<1>2. PacketsOK' /\ InOrder' /\ AbsentIdle' /\ TypeOK'
  <2>1. CASE version > 0 /\ down' = Queued({c}, Full)
    BY <2>1, JoinNearInv
  <2>2. CASE down' = down
    <3>1. TypeOK'
      BY <1>1, <2>2 DEF VoxelInv, TypeOK, serverVars, clientVars
    <3>2. PacketsOK' /\ InOrder'
      BY <1>1, <2>2, ZenonT(40)
      DEF VoxelInv, PacketsOK, PacketOK, InOrder, serverVars, clientVars
    <3>3. AbsentIdle'
      BY <1>1, <2>2 DEF VoxelInv, AbsentIdle, clientVars
    <3> QED
      BY <3>1, <3>2, <3>3
  <2> QED
    BY <1>1, <2>1, <2>2
<1> QED
  BY <1>1, <1>2
  DEF VoxelInv, Started, NoneRefused, Numbered, ConfirmedView, serverVars, clientVars

\* A client that leaves takes its copy and all that is in flight with it.
LEMMA LeaveInv ==
  ASSUME VoxelInv, NEW c \in Clients, Leave(c)
  PROVE  VoxelInv' /\ c \notin here' /\ \A d \in Clients \ {c} : cver'[d] = cver[d]
<1>1. /\ here' = here \ {c} /\ UNCHANGED <<serverVars, edits>>
      /\ loaded' = [loaded EXCEPT ![c] = FALSE]
      /\ cver' = [cver EXCEPT ![c] = 0]
      /\ cblocks' = [cblocks EXCEPT ![c] = NoBlocks]
      /\ pending' = [pending EXCEPT ![c] = << >>]
      /\ told' = [told EXCEPT ![c] = {}]
      /\ up' = [up EXCEPT ![c] = << >>] /\ down' = [down EXCEPT ![c] = << >>]
  BY DEF Leave
<1>2. NoBlocks \in Blocks
  BY DEF NoBlocks, Blocks, Contents
<1>3. /\ ~loaded'[c] /\ cver'[c] = 0 /\ cblocks'[c] = NoBlocks
      /\ told'[c] = {} /\ pending'[c] = << >> /\ up'[c] = << >> /\ down'[c] = << >>
  BY <1>1 DEF VoxelInv, TypeOK
<1>4. \A d \in Clients \ {c} :
        /\ loaded'[d] = loaded[d] /\ cver'[d] = cver[d] /\ cblocks'[d] = cblocks[d]
        /\ pending'[d] = pending[d] /\ up'[d] = up[d] /\ down'[d] = down[d]
        /\ told'[d] = told[d]
  BY <1>1 DEF VoxelInv, TypeOK
<1>5. TypeOK'
  <2>1. /\ version' \in Nat /\ blocks' \in Blocks /\ colliders' \in [Cells -> Nat]
        /\ past' \in [0 .. version' -> Blocks]
        /\ here' \subseteq Clients /\ edits' \in Nat
    BY <1>1 DEF VoxelInv, TypeOK, serverVars
  <2>2. /\ loaded' \in [Clients -> BOOLEAN] /\ cver' \in [Clients -> Nat]
        /\ cblocks' \in [Clients -> Blocks] /\ told' \in [Clients -> SUBSET Cells]
    BY <1>1, <1>2 DEF VoxelInv, TypeOK
  <2>3. /\ pending' \in [Clients -> Seq(PendingEdit)]
        /\ up' \in [Clients -> Seq(Command)] /\ down' \in [Clients -> Seq(Packet)]
    BY <1>1 DEF VoxelInv, TypeOK
  <2>4. \A d \in Clients :
          ~loaded'[d] => /\ cver'[d] = 0 /\ cblocks'[d] = NoBlocks
                         /\ pending'[d] = << >> /\ told'[d] = {}
    BY <1>3, <1>4 DEF VoxelInv, TypeOK
  <2>5. NoBlocks' = NoBlocks
    BY DEF NoBlocks
  <2> QED
    BY <2>1, <2>2, <2>3, <2>4, <2>5 DEF TypeOK
<1>6. 1 .. Len(down'[c]) = {}
  BY <1>3
<1>7. PacketsOK' /\ InOrder'
  <2> SUFFICES ASSUME NEW d \in Clients, NEW i \in 1 .. Len(down'[d])
               PROVE  /\ PacketOK(down[d][i])' /\ cver'[d] <= down'[d][i].ver
                      /\ \A j \in 1 .. Len(down'[d]) :
                           i < j => down'[d][i].ver <= down'[d][j].ver
    BY DEF PacketsOK, InOrder
  <2>1. d # c /\ down'[d] = down[d] /\ cver'[d] = cver[d] /\ i \in 1 .. Len(down[d])
    BY <1>4, <1>6
  <2>2. PacketOK(down[d][i])
    BY <2>1 DEF VoxelInv, PacketsOK
  <2>3. PacketOK(down[d][i])'
    BY <1>1, <2>1, <2>2 DEF PacketOK, serverVars
  <2> QED
    BY <2>1, <2>3 DEF VoxelInv, InOrder
<1>8. NoneRefused' /\ AbsentIdle'
  <2>1. << >> \in Seq(FirstEdit)
    OBVIOUS
  <2>2. NoneRefused'
    BY <1>1, <1>3, <1>4, <2>1 DEF VoxelInv, NoneRefused, serverVars
  <2>3. AbsentIdle'
    BY <1>1, <1>3, <1>4 DEF VoxelInv, AbsentIdle
  <2> QED
    BY <2>2, <2>3
<1>9. \A d \in Clients : LinkedEdits(cblocks'[d], pending'[d])
  <2>1. LinkedEdits(cblocks'[c], pending'[c])
    BY <1>3 DEF LinkedEdits
  <2> QED
    BY <1>4, <2>1 DEF VoxelInv
<1>10. Numbered' /\ ConfirmedView'
  BY <1>1, <1>3, <1>4
  DEF VoxelInv, Numbered, ConfirmedView, serverVars
<1> QED
  BY <1>1, <1>4, <1>5, <1>7, <1>8, <1>9, <1>10
  DEF VoxelInv, Started, serverVars

\* A step keeps the invariant, and the version of each client that stays.
LEMMA StepOK ==
  ASSUME VoxelInv, [Next]_vars
  PROVE  VoxelInv' /\ [\A c \in here \cap here' : cver[c] <= cver'[c]]_vars
<1> DEFINE Rise == \A c \in Clients : c \in here' => cver[c] <= cver'[c]
<1>1. \A c \in Clients : cver[c] <= cver[c]
  BY ServerNumbers
<1>2. here \subseteq Clients
  BY DEF VoxelInv, TypeOK
<1>3. CASE UNCHANGED vars
  <2>1. UNCHANGED <<serverVars, here, clientVars, up, down, edits>>
    BY <1>3 DEF vars
  <2>2. TypeOK'
    BY <2>1 DEF VoxelInv, TypeOK, serverVars, clientVars
  <2>3. PacketsOK' /\ InOrder' /\ NoneRefused' /\ AbsentIdle'
    BY <2>1 DEF VoxelInv, PacketsOK, PacketOK, InOrder, NoneRefused, AbsentIdle,
      serverVars, clientVars
  <2> QED
    BY <1>3, <2>1, <2>2, <2>3
    DEF VoxelInv, Started, Numbered, ConfirmedView, serverVars, clientVars
<1>4. ASSUME Next  PROVE VoxelInv' /\ Rise
  <2>1. PICK c \in Clients :
          \/ MakeEdit(c) \/ ReceivePacket(c) \/ LoseEdit(c)
          \/ ReceiveEdit(c) \/ Join(c) \/ Leave(c)
    BY <1>4 DEF Next
  <2>2. CASE MakeEdit(c)
    <3>1. cver' = cver
      BY <2>2 DEF MakeEdit
    <3> QED
      BY <1>1, <2>2, <3>1, MakeInv
  <2>3. CASE ReceivePacket(c)
    BY <2>3, ReceiveInv
  <2>4. CASE LoseEdit(c)
    <3>1. cver' = cver
      BY <2>4 DEF LoseEdit, clientVars
    <3> QED
      BY <1>1, <2>4, <3>1, LoseInv
  <2>5. CASE ReceiveEdit(c)
    <3>1. VoxelInv' /\ cver' = cver
      BY <2>5, ReceiveEditInv DEF clientVars
    <3> QED
      BY <1>1, <3>1
  <2>6. CASE Join(c)
    <3>1. VoxelInv' /\ cver' = cver
      BY <2>6, JoinInv DEF clientVars
    <3> QED
      BY <1>1, <3>1
  <2>7. CASE Leave(c)
    BY <1>1, <2>7, LeaveInv
  <2> QED
    BY <2>1, <2>2, <2>3, <2>4, <2>5, <2>6, <2>7
<1> QED
  BY <1>2, <1>3, <1>4

-----------------------------------------------------------------------------
\* What holds of every behaviour

\* The inductive invariant holds in every reachable state.
THEOREM Invariance == Spec => []VoxelInv
<1>1. VoxelInv /\ [Next]_vars => VoxelInv'
  BY StepOK
<1> QED
  BY <1>1, InitInv, PTL DEF Spec

\* Every variable keeps its type, and a client without the chunk awaits nothing.
THEOREM TypeCorrect == Spec => []TypeOK
<1>1. VoxelInv => TypeOK
  BY DEF VoxelInv
<1> QED
  BY <1>1, Invariance, PTL

\* Undoing a client's unconfirmed edits always gives, in the cells it has been
\* told of, the blocks the server had at the version the client confirmed, and
\* none elsewhere, whatever was dropped or overtaken and wherever it joined.
THEOREM ViewsAreConfirmed == Spec => []ConfirmedView
<1>1. VoxelInv => ConfirmedView
  BY DEF VoxelInv
<1> QED
  BY <1>1, Invariance, PTL

\* A client that stays never goes back to an older version of the chunk.
THEOREM VersionsOnlyRise == Spec => VersionsRise
<1>1. VoxelInv /\ [Next]_vars =>
        [\A c \in here \cap here' : cver[c] <= cver'[c]]_vars
  BY StepOK
<1> QED
  BY <1>1, Invariance, PTL DEF Spec, VersionsRise
=============================================================================
