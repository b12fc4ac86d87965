---------------------------- MODULE EditorProofs ----------------------------
(***************************************************************************)
(* Proofs about the world editor: the undo history, the drafts, publishing *)
(* and the chats, each by an inductive invariant of its own, and at the    *)
(* end all four together.                                                  *)
(***************************************************************************)
EXTENDS MCEditor, SequenceTheorems, FiniteSetTheorems, TLAPS

(***************************************************************************)
(* The undo history                                                        *)
(***************************************************************************)

\* No two of a set: what a Cardinality of at most one says.
AtMostOne(S) == S = {} \/ \E x \in S : S = {x}

Bounded(u, r) == Len(u) + Len(r) <= Limit

\* The types, where whatever may become the stacks keeps to the limit as well.
HistoryInv ==
  /\ world \in Documents /\ given \in Value
  /\ undo \in Seq(Documents) /\ redo \in Seq(Documents) /\ Bounded(undo, redo)
  /\ Bounded(given.undo, given.redo)
  /\ dirty \subseteq {World, History}
  /\ rendered \subseteq [of : Value, changed : SUBSET {World, History}]
  /\ \A r \in rendered : Bounded(r.of.undo, r.of.redo)
  /\ drag \subseteq Documents /\ ai \subseteq [before : Documents, edited : BOOLEAN]
  /\ loading \in BOOLEAN
  /\ AtMostOne(rendered) /\ AtMostOne(drag) /\ AtMostOne(ai)

LEMMA CardinalityOfOne ==
  ASSUME NEW S, AtMostOne(S)  PROVE Cardinality(S) <= 1
<1>1. CASE S = {}
  BY <1>1, FS_EmptySet
<1>2. CASE \E x \in S : S = {x}
  <2>1. PICK x \in S : S = {x}
    BY <1>2
  <2>2. Cardinality({x}) = 1
    BY FS_Singleton
  <2>3. QED
    BY <2>1, <2>2
<1>3. QED
  BY <1>1, <1>2 DEF AtMostOne

LEMMA HistoryTypes ==
  ASSUME HistoryInv  PROVE HistoryTypeOK
BY CardinalityOfOne DEF HistoryInv, HistoryTypeOK, Bounded

-----------------------------------------------------------------------------
\* Stacks

\* An entry on top of a stack: the oldest one is forgotten at the limit.
LEMMA Pushed ==
  ASSUME NEW s \in Seq(Documents), NEW d \in Documents, Len(s) <= Limit
  PROVE  /\ Latest(<<d>> \o s) \in Seq(Documents)
         /\ Len(Latest(<<d>> \o s)) = IF Len(s) = Limit THEN Limit ELSE Len(s) + 1
         /\ Latest(<<d>> \o s)[1] = d
         /\ \A k \in 2 .. Len(Latest(<<d>> \o s)) : Latest(<<d>> \o s)[k] = s[k - 1]
<1> DEFINE t == <<d>> \o s
<1>1. PICK n \in Nat : n = Len(s) /\ Limit \in Nat \ {0}
  BY LenProperties, HistoryAssumption
<1>2. <<d>> \in Seq(Documents) /\ Len(<<d>>) = 1 /\ <<d>>[1] = d
  OBVIOUS
<1>3. /\ t \in Seq(Documents) /\ Len(t) = n + 1 /\ t[1] = d
      /\ \A k \in 2 .. n + 1 : t[k] = s[k - 1]
  BY <1>1, <1>2, ConcatProperties
<1> HIDE DEF t
<1>4. CASE n = Limit
  <2>1. \A i \in 1 .. Limit : t[i] \in Documents
    BY <1>1, <1>3, <1>4, ElementOfSeq
  <2>2. /\ SubSeq(t, 1, Limit) \in Seq(Documents) /\ Len(SubSeq(t, 1, Limit)) = Limit
        /\ \A i \in 1 .. Limit : SubSeq(t, 1, Limit)[i] = t[i]
    BY <1>1, <2>1, SubSeqProperties
  <2>3. Latest(t) = SubSeq(t, 1, Limit)
    BY <1>1, <1>3, <1>4 DEF Latest
  <2>4. /\ Latest(t) \in Seq(Documents) /\ Len(Latest(t)) = Limit /\ Latest(t)[1] = d
        /\ \A k \in 2 .. Limit : Latest(t)[k] = s[k - 1]
    <3>1. \A i \in 1 .. Limit : Latest(t)[i] = t[i]
      BY <2>2, <2>3
    <3>2. 1 \in 1 .. Limit /\ \A k \in 2 .. Limit : k \in 1 .. Limit /\ k \in 2 .. n + 1
      BY <1>1, <1>4
    <3>3. QED
      BY <1>3, <2>2, <2>3, <3>1, <3>2
  <2>5. QED
    BY <1>1, <1>4, <2>4 DEF t
<1>5. CASE n # Limit
  <2>1. Latest(t) = t
    BY <1>1, <1>3, <1>5 DEF Latest
  <2>2. QED
    BY <1>1, <1>3, <1>5, <2>1 DEF t
<1>6. QED
  BY <1>4, <1>5

\* The top of a stack, and the rest.
LEMMA Popped ==
  ASSUME NEW s \in Seq(Documents), s # << >>
  PROVE  /\ Head(s) \in Documents /\ Head(s) = s[1] /\ Tail(s) \in Seq(Documents)
         /\ Len(s) \in Nat \ {0} /\ Len(Tail(s)) = Len(s) - 1
         /\ \A k \in 1 .. Len(s) - 1 : Tail(s)[k] = s[k + 1]
BY HeadTailProperties, EmptySeq

LEMMA EmptyStack == << >> \in Seq(Documents) /\ Len(<< >>) = 0
BY EmptySeq

-----------------------------------------------------------------------------
\* Types

\* What is given to React keeps to the limit as the stacks do.
LEMMA Given ==
  ASSUME HistoryInv, NEW what \in SUBSET {World, History}, Give(what),
         world' \in Documents, undo' \in Seq(Documents), redo' \in Seq(Documents),
         Bounded(undo, redo)'
  PROVE  /\ given' \in Value /\ Bounded(given.undo, given.redo)'
         /\ dirty' \subseteq {World, History} /\ rendered' = rendered
<1>1. given' = [world |-> IF World \in what THEN world' ELSE given.world,
                undo |-> IF History \in what THEN undo' ELSE given.undo,
                redo |-> IF History \in what THEN redo' ELSE given.redo]
  BY DEF Give
<1>2. /\ given.world \in Documents /\ given.undo \in Seq(Documents)
      /\ given.redo \in Seq(Documents)
  BY DEF HistoryInv, Value
<1>3. given' \in Value
  BY <1>1, <1>2 DEF Value
<1>4. Bounded(given'.undo, given'.redo)
  BY <1>1 DEF HistoryInv, Bounded
<1>5. QED
  BY <1>3, <1>4 DEF Give, HistoryInv, Bounded

\* What is left of the invariant when refs and what React was given are good.
LEMMA GivenInv ==
  ASSUME HistoryInv, NEW what \in SUBSET {World, History}, Give(what),
         world' \in Documents, undo' \in Seq(Documents), redo' \in Seq(Documents),
         Bounded(undo, redo)',
         drag' \subseteq Documents, ai' \subseteq [before : Documents, edited : BOOLEAN],
         AtMostOne(drag'), AtMostOne(ai'), loading' \in BOOLEAN
  PROVE  HistoryInv'
<1>1. /\ given' \in Value /\ Bounded(given.undo, given.redo)'
      /\ dirty' \subseteq {World, History} /\ rendered' = rendered
  BY Given
<1>2. /\ rendered \subseteq [of : Value, changed : SUBSET {World, History}]
      /\ \A r \in rendered : Bounded(r.of.undo, r.of.redo)
      /\ AtMostOne(rendered)
  BY DEF HistoryInv
<1>3. QED
  BY <1>1, <1>2 DEF HistoryInv, Bounded, AtMostOne

\* What Commit leaves of the stacks.
LEMMA Committed ==
  ASSUME HistoryInv, NEW before \in Documents, NEW after, NEW what \in SUBSET {World, History},
         Commit(before, after, what)
  PROVE  /\ undo' \in Seq(Documents) /\ redo' \in Seq(Documents) /\ Bounded(undo, redo)'
         /\ \E set \in SUBSET {World, History} : Give(set)
<1>1. /\ undo \in Seq(Documents) /\ redo \in Seq(Documents)
      /\ Len(undo) \in Nat /\ Len(redo) \in Nat /\ Len(undo) + Len(redo) <= Limit
      /\ Limit \in Nat
  BY LenProperties, HistoryAssumption DEF HistoryInv, Bounded
<1>2. CASE before = after
  BY <1>1, <1>2 DEF Commit, Bounded
<1>3. CASE before # after
  <2>1. undo' = Latest(<<before>> \o undo) /\ redo' = << >> /\ Give(what \cup {History})
    BY <1>3 DEF Commit
  <2>2. undo' \in Seq(Documents) /\ Len(undo') <= Limit /\ Len(undo') \in Nat
    BY <1>1, <2>1, Pushed
  <2>3. redo' \in Seq(Documents) /\ Len(redo') = 0
    BY <2>1, EmptyStack
  <2>4. what \cup {History} \in SUBSET {World, History}
    OBVIOUS
  <2>5. QED
    BY <1>1, <2>1, <2>2, <2>3, <2>4 DEF Bounded
<1>4. QED
  BY <1>2, <1>3

\* The parts of the invariant that the actions take for granted.
LEMMA HistoryFacts ==
  ASSUME HistoryInv
  PROVE  /\ world \in Documents /\ undo \in Seq(Documents) /\ redo \in Seq(Documents)
         /\ Len(undo) \in Nat /\ Len(redo) \in Nat /\ Bounded(undo, redo)
         /\ drag \subseteq Documents /\ AtMostOne(drag)
         /\ ai \subseteq [before : Documents, edited : BOOLEAN] /\ AtMostOne(ai)
         /\ loading \in BOOLEAN
         /\ Limit \in Nat /\ Len(undo) <= Limit /\ Len(redo) <= Limit
BY LenProperties, HistoryAssumption DEF HistoryInv, Bounded

LEMMA Whats ==
  /\ {World} \in SUBSET {World, History} /\ {History} \in SUBSET {World, History}
  /\ {World, History} \in SUBSET {World, History} /\ {} \in SUBSET {World, History}
OBVIOUS

LEMMA RecordingInv ==
  ASSUME HistoryInv, NEW before \in Documents, NEW after, NEW what \in SUBSET {World, History},
         Commit(before, after, what), world' \in Documents,
         drag' \subseteq Documents, ai' \subseteq [before : Documents, edited : BOOLEAN],
         AtMostOne(drag'), AtMostOne(ai'), loading' = loading
  PROVE  HistoryInv'
<1>1. /\ undo' \in Seq(Documents) /\ redo' \in Seq(Documents) /\ Bounded(undo, redo)'
      /\ \E set \in SUBSET {World, History} : Give(set)
  BY Committed
<1>2. loading' \in BOOLEAN
  BY HistoryFacts
<1>3. QED
  BY <1>1, <1>2, GivenInv

LEMMA EditInv ==
  ASSUME HistoryInv, NEW d \in Documents, Edit(d)  PROVE HistoryInv'
<1>1. Commit(world, d, {World}) /\ world' = d /\ UNCHANGED <<drag, ai, loading>>
  BY DEF Edit
<1>2. QED
  BY <1>1, HistoryFacts, Whats, RecordingInv

LEMMA EndDragInv ==
  ASSUME HistoryInv, NEW d \in drag, EndDrag(d)  PROVE HistoryInv'
<1>1. Commit(d, world, {}) /\ drag' = {} /\ UNCHANGED <<world, ai, loading>>
  BY DEF EndDrag
<1>2. AtMostOne(drag') /\ drag' \subseteq Documents
  BY <1>1 DEF AtMostOne
<1>3. QED
  BY <1>1, <1>2, HistoryFacts, Whats, RecordingInv

LEMMA RollbackInv ==
  ASSUME HistoryInv, NEW i \in 1 .. Limit, Rollback(i)  PROVE HistoryInv'
<1>1. /\ Commit(world, undo[i], {World}) /\ world' = undo[i]
      /\ i \in DOMAIN undo /\ UNCHANGED <<drag, ai, loading>>
  BY DEF Rollback
<1>2. undo[i] \in Documents
  BY <1>1, HistoryFacts, LenProperties, ElementOfSeq
<1>3. QED
  BY <1>1, <1>2, HistoryFacts, Whats, RecordingInv

\* The run of the AI that ends
LEMMA AiDoneInv ==
  ASSUME HistoryInv, NEW r \in ai, AiDone(r)  PROVE HistoryInv'
<1>1. ai' = {} /\ UNCHANGED <<world, drag, loading>>
  BY DEF AiDone
<1>2. AtMostOne(ai') /\ ai' \subseteq [before : Documents, edited : BOOLEAN]
  BY <1>1 DEF AtMostOne
<1>3. CASE r.edited
  <2>1. Commit(r.before, world, {}) /\ r.before \in Documents
    BY <1>3, HistoryFacts DEF AiDone
  <2>2. QED
    BY <1>1, <1>2, <2>1, HistoryFacts, Whats, RecordingInv
<1>4. CASE ~r.edited
  <2>1. UNCHANGED <<undo, redo, given, dirty, rendered>>
    BY <1>4 DEF AiDone, reactVars
  <2>2. QED
    BY <1>1, <1>2, <2>1 DEF HistoryInv, Bounded, AtMostOne
<1>5. QED
  BY <1>3, <1>4

\* Where the stacks stay as they are
LEMMA AmendingInv ==
  ASSUME HistoryInv, NEW what \in SUBSET {World, History}, Give(what),
         world' \in Documents, UNCHANGED <<undo, redo, drag, loading>>,
         ai' \subseteq [before : Documents, edited : BOOLEAN], AtMostOne(ai')
  PROVE  HistoryInv'
<1>1. Bounded(undo, redo)'
  BY HistoryFacts DEF Bounded
<1>2. QED
  BY <1>1, HistoryFacts, GivenInv

LEMMA DragInv ==
  ASSUME HistoryInv, NEW d \in Documents, Drag(d)  PROVE HistoryInv'
BY HistoryFacts, Whats, AmendingInv DEF Drag

LEMMA AiEditInv ==
  ASSUME HistoryInv, NEW d \in Documents, NEW r \in ai, AiEdit(r, d)  PROVE HistoryInv'
<1>1. ai' = {[r EXCEPT !.edited = TRUE]} /\ world' = d /\ Give({World})
      /\ UNCHANGED <<undo, redo, drag, loading>>
  BY DEF AiEdit
<1>2. r \in [before : Documents, edited : BOOLEAN]
  BY HistoryFacts
<1>3. AtMostOne(ai') /\ ai' \subseteq [before : Documents, edited : BOOLEAN]
  BY <1>1, <1>2 DEF AtMostOne
<1>4. QED
  BY <1>1, <1>3, Whats, AmendingInv

LEMMA AiFailInv ==
  ASSUME HistoryInv, NEW r \in ai, AiFail(r)  PROVE HistoryInv'
<1>1. /\ ai' = {} /\ world' = IF r.edited THEN r.before ELSE world
      /\ UNCHANGED <<undo, redo, drag, loading>>
      /\ Give(IF r.edited THEN {World} ELSE {})
  BY DEF AiFail
<1>2. r \in [before : Documents, edited : BOOLEAN] /\ world \in Documents
  BY HistoryFacts
<1>3. world' \in Documents
  BY <1>1, <1>2
<1>4. AtMostOne(ai') /\ ai' \subseteq [before : Documents, edited : BOOLEAN]
  BY <1>1 DEF AtMostOne
<1>5. \E what \in SUBSET {World, History} : Give(what)
  BY <1>1, Whats
<1>6. QED
  BY <1>1, <1>3, <1>4, <1>5, AmendingInv

LEMMA BookmarkInv ==
  ASSUME HistoryInv, Bookmark  PROVE HistoryInv'
<1>1. /\ undo' = Latest(<<world>> \o undo) /\ redo' = << >>
      /\ UNCHANGED <<world, drag, ai, loading>> /\ Give({History})
  BY DEF Bookmark
<1>2. /\ undo' \in Seq(Documents) /\ Len(undo') <= Limit /\ Len(undo') \in Nat
      /\ redo' \in Seq(Documents) /\ Len(redo') = 0
  BY <1>1, HistoryFacts, Pushed, EmptyStack
<1>3. Bounded(undo, redo)'
  BY <1>2, HistoryFacts DEF Bounded
<1>4. QED
  BY <1>1, <1>2, <1>3, HistoryFacts, Whats, GivenInv

\* An entry goes from one stack to the other: nothing is cut off.
LEMMA Swapped ==
  ASSUME NEW from \in Seq(Documents), NEW to \in Seq(Documents), from # << >>,
         NEW d \in Documents, Len(from) + Len(to) <= Limit
  PROVE  /\ Head(from) \in Documents /\ Head(from) = from[1]
         /\ Tail(from) \in Seq(Documents) /\ Len(Tail(from)) = Len(from) - 1
         /\ \A k \in 1 .. Len(from) - 1 : Tail(from)[k] = from[k + 1]
         /\ Latest(<<d>> \o to) \in Seq(Documents)
         /\ Len(Latest(<<d>> \o to)) = Len(to) + 1
         /\ Latest(<<d>> \o to)[1] = d
         /\ \A k \in 2 .. Len(to) + 1 : Latest(<<d>> \o to)[k] = to[k - 1]
         /\ Len(Tail(from)) + Len(Latest(<<d>> \o to)) <= Limit
         /\ Len(from) \in Nat \ {0} /\ Len(to) \in Nat
<1>1. /\ Head(from) \in Documents /\ Head(from) = from[1] /\ Tail(from) \in Seq(Documents)
      /\ Len(from) \in Nat \ {0} /\ Len(Tail(from)) = Len(from) - 1
      /\ \A k \in 1 .. Len(from) - 1 : Tail(from)[k] = from[k + 1]
  BY Popped
<1>2. Len(to) \in Nat /\ Limit \in Nat
  BY LenProperties, HistoryAssumption
<1>3. Len(to) < Limit /\ Len(to) <= Limit
  BY <1>1, <1>2
<1> DEFINE t == Latest(<<d>> \o to)
<1>4. /\ t \in Seq(Documents) /\ t[1] = d
      /\ Len(t) = IF Len(to) = Limit THEN Limit ELSE Len(to) + 1
      /\ \A k \in 2 .. Len(t) : t[k] = to[k - 1]
  BY <1>3, Pushed
<1> HIDE DEF t
<1>5. Len(t) = Len(to) + 1
  BY <1>2, <1>3, <1>4
<1>6. Len(Tail(from)) + Len(t) <= Limit
  BY <1>1, <1>2, <1>5
<1>7. t \in Seq(Documents) /\ t[1] = d /\ \A k \in 2 .. Len(to) + 1 : t[k] = to[k - 1]
  BY <1>4, <1>5
<1>8. QED
  BY <1>1, <1>2, <1>5, <1>6, <1>7 DEF t

LEMMA UndoInv ==
  ASSUME HistoryInv, Undo, drag' = {}, UNCHANGED <<ai, loading>>  PROVE HistoryInv'
<1>1. /\ undo # << >> /\ world' = Head(undo) /\ undo' = Tail(undo)
      /\ redo' = Latest(<<world>> \o redo) /\ Give({World, History})
  BY DEF Undo
<1>2. /\ world' \in Documents /\ undo' \in Seq(Documents) /\ redo' \in Seq(Documents)
      /\ Bounded(undo, redo)'
  BY <1>1, HistoryFacts, Swapped DEF Bounded
<1>3. AtMostOne(drag') /\ drag' \subseteq Documents
  BY DEF AtMostOne
<1>4. QED
  BY <1>1, <1>2, <1>3, HistoryFacts, Whats, GivenInv

LEMMA RedoInv ==
  ASSUME HistoryInv, Redo, drag' = {}, UNCHANGED <<ai, loading>>  PROVE HistoryInv'
<1>1. /\ redo # << >> /\ world' = Head(redo) /\ redo' = Tail(redo)
      /\ undo' = Latest(<<world>> \o undo) /\ Give({World, History})
  BY DEF Redo
<1>2. Len(redo) + Len(undo) <= Limit
  BY HistoryFacts DEF Bounded
<1>3. /\ world' \in Documents /\ undo' \in Seq(Documents) /\ redo' \in Seq(Documents)
      /\ Len(redo') + Len(undo') <= Limit /\ Len(redo') \in Nat /\ Len(undo') \in Nat
  BY <1>1, <1>2, HistoryFacts, Swapped
<1>4. Bounded(undo, redo)'
  BY <1>3, HistoryFacts DEF Bounded
<1>5. AtMostOne(drag') /\ drag' \subseteq Documents
  BY DEF AtMostOne
<1>6. QED
  BY <1>1, <1>3, <1>4, <1>5, HistoryFacts, Whats, GivenInv

LEMMA UndoOrRedoInv ==
  ASSUME HistoryInv, UndoOrRedo  PROVE HistoryInv'
<1>1. drag' = {} /\ UNCHANGED <<ai, loading>>
  BY DEF UndoOrRedo
<1>2. CASE Undo
  BY <1>1, <1>2, UndoInv
<1>3. CASE Redo
  BY <1>1, <1>3, RedoInv
<1>4. CASE UNCHANGED <<refVars, reactVars>>
  BY <1>1, <1>4 DEF HistoryInv, Bounded, AtMostOne, refVars, reactVars
<1>5. QED
  BY <1>2, <1>3, <1>4 DEF UndoOrRedo

LEMMA LoadDraftInv ==
  ASSUME HistoryInv, NEW what \in SUBSET {World, History}, LoadDraft(what)  PROVE HistoryInv'
<1>1. /\ loading' = FALSE /\ world' \in Documents /\ undo' = << >> /\ redo' = << >>
      /\ UNCHANGED <<drag, ai>> /\ Give(what)
  BY DEF LoadDraft
<1>2. undo' \in Seq(Documents) /\ redo' \in Seq(Documents) /\ Len(undo') = 0 /\ Len(redo') = 0
  BY <1>1, EmptyStack
<1>3. Bounded(undo, redo)'
  <2>1. Len(undo') + Len(redo') <= Limit
    BY <1>2, HistoryAssumption
  <2>2. QED
    BY <2>1 DEF Bounded
<1>4. loading' \in BOOLEAN
  BY <1>1
<1>5. QED
  BY <1>1, <1>2, <1>3, <1>4, HistoryFacts, GivenInv

\* Where nothing is recorded and nothing set
LEMMA QuietInv ==
  ASSUME HistoryInv, BeginDrag \/ AiStart  PROVE HistoryInv'
<1>1. UNCHANGED <<world, undo, redo, given, dirty, rendered, loading>>
  BY DEF BeginDrag, AiStart, refVars, reactVars
<1>2. /\ AtMostOne(drag') /\ drag' \subseteq Documents
      /\ AtMostOne(ai') /\ ai' \subseteq [before : Documents, edited : BOOLEAN]
  <2>1. CASE BeginDrag
    BY <2>1, HistoryFacts DEF BeginDrag, AtMostOne
  <2>2. CASE AiStart
    BY <2>2, HistoryFacts DEF AiStart, AtMostOne
  <2>3. QED
    BY <2>1, <2>2
<1>3. /\ given \in Value /\ Bounded(given.undo, given.redo)
      /\ dirty \subseteq {World, History}
      /\ rendered \subseteq [of : Value, changed : SUBSET {World, History}]
      /\ \A r \in rendered : Bounded(r.of.undo, r.of.redo) /\ AtMostOne(rendered)
  BY DEF HistoryInv, AtMostOne
<1>4. QED
  BY <1>1, <1>2, <1>3, HistoryFacts DEF HistoryInv, Bounded, AtMostOne

LEMMA RenderInv ==
  ASSUME HistoryInv, Render  PROVE HistoryInv'
<1>1. /\ rendered' = {[of |-> given, changed |-> dirty]} /\ dirty' = {}
      /\ UNCHANGED <<world, undo, redo, given, drag, ai, loading>>
  BY DEF Render, refVars
<1>2. /\ rendered' \subseteq [of : Value, changed : SUBSET {World, History}]
      /\ \A r \in rendered' : Bounded(r.of.undo, r.of.redo)
      /\ AtMostOne(rendered')
  BY <1>1 DEF HistoryInv, AtMostOne
<1>3. QED
  BY <1>1, <1>2 DEF HistoryInv, Bounded, AtMostOne

LEMMA EffectsInv ==
  ASSUME HistoryInv, NEW r \in rendered, Effects(r)  PROVE HistoryInv'
<1>1. /\ rendered' = {}
      /\ world' = IF World \in r.changed THEN r.of.world ELSE world
      /\ undo' = IF History \in r.changed THEN r.of.undo ELSE undo
      /\ redo' = IF History \in r.changed THEN r.of.redo ELSE redo
      /\ UNCHANGED <<given, dirty, drag, ai, loading>>
  BY DEF Effects
<1>2. /\ r.of.world \in Documents /\ r.of.undo \in Seq(Documents) /\ r.of.redo \in Seq(Documents)
      /\ Bounded(r.of.undo, r.of.redo)
  BY DEF HistoryInv, Value
<1>3. /\ world' \in Documents /\ undo' \in Seq(Documents) /\ redo' \in Seq(Documents)
      /\ Bounded(undo', redo')
  BY <1>1, <1>2, HistoryFacts
<1>4. AtMostOne(rendered')
  BY <1>1 DEF AtMostOne
<1>5. QED
  BY <1>1, <1>3, <1>4 DEF HistoryInv, Bounded, AtMostOne

LEMMA HistoryStart ==
  ASSUME HistoryInit  PROVE HistoryInv
<1>1. << >> \in Seq(Documents) /\ Len(<< >>) + Len(<< >>) <= Limit
  BY EmptyStack, HistoryAssumption
<1>2. given \in Value /\ Bounded(given.undo, given.redo)
  BY <1>1 DEF HistoryInit, Value, Bounded
<1>3. QED
  BY <1>1, <1>2 DEF HistoryInit, HistoryInv, Bounded, AtMostOne

LEMMA HistoryPreserves ==
  ASSUME HistoryInv, [HistoryNext]_historyVars  PROVE HistoryInv'
<1>1. CASE HistoryNext
  BY <1>1, EditInv, DragInv, AiEditInv, QuietInv, EndDragInv, BookmarkInv,
     UndoOrRedoInv,
     AiFailInv, AiDoneInv, RollbackInv, LoadDraftInv, RenderInv, EffectsInv, Whats,
     HistoryFacts DEF HistoryNext
<1>2. CASE UNCHANGED historyVars
  BY <1>2 DEF HistoryInv, Bounded, AtMostOne, historyVars, refVars, reactVars
<1>3. QED
  BY <1>1, <1>2

\* The inductive invariant of the editor's history
THEOREM HistoryInvariance == HistorySpec => []HistoryInv
<1>1. HistoryInit => HistoryInv
  BY HistoryStart
<1>2. HistoryInv /\ [HistoryNext]_historyVars => HistoryInv'
  BY HistoryPreserves
<1>3. QED
  BY <1>1, <1>2, PTL DEF HistorySpec

\* The types of the history; the two stacks never hold more than the limit between
\* them, whatever an effect of an older render puts back.
THEOREM HistoryTypesHold == HistorySpec => []HistoryTypeOK
<1>1. HistoryInv => HistoryTypeOK
  BY HistoryTypes
<1>2. QED
  BY <1>1, HistoryInvariance, PTL

-----------------------------------------------------------------------------
\* The timeline

\* The line that two stacks and the world between them make.
Line(u, w, r) == Reverse(u) \o <<w>> \o r

\* What is at each place of it.
OnLine(line, u, w, r) ==
  /\ line \in Seq(Documents) /\ Len(line) = Len(u) + 1 + Len(r)
  /\ \A i \in 1 .. Len(u) : line[i] = u[Len(u) - i + 1]
  /\ line[Len(u) + 1] = w
  /\ \A k \in 1 .. Len(r) : line[Len(u) + 1 + k] = r[k]

LEMMA LineProperties ==
  ASSUME NEW u \in Seq(Documents), NEW w \in Documents, NEW r \in Seq(Documents)
  PROVE  OnLine(Line(u, w, r), u, w, r)
<1> DEFINE v == Reverse(u)
<1>1. PICK n \in Nat : n = Len(u)
  BY LenProperties
<1>2. PICK p \in Nat : p = Len(r)
  BY LenProperties
<1>3. v \in Seq(Documents) /\ Len(v) = n /\ \A i \in 1 .. n : v[i] = u[n - i + 1]
  <2>1. \A i \in 1 .. n : (n - i) + 1 \in 1 .. Len(u) /\ u[(n - i) + 1] \in Documents
    BY <1>1, ElementOfSeq
  <2>2. v = [i \in 1 .. n |-> u[(n - i) + 1]]
    BY <1>1 DEF Reverse
  <2>3. v \in [1 .. n -> Documents]
    BY <2>1, <2>2
  <2>4. v \in Seq(Documents)
    BY <2>3, SeqDef
  <2>5. \A i \in 1 .. n : v[i] = u[n - i + 1]
    BY <2>2
  <2> HIDE DEF v
  <2>6. Len(v) = n
    BY <1>1, <2>3, <2>4, LenProperties
  <2>7. QED
    BY <2>4, <2>5, <2>6
<1> HIDE DEF v
<1>4. <<w>> \in Seq(Documents) /\ Len(<<w>>) = 1 /\ <<w>>[1] = w
  OBVIOUS
<1>5. PICK x \in Seq(Documents) : x = v \o <<w>>
  BY <1>3, <1>4, ConcatProperties
<1>6. Len(x) = n + 1 /\ x[n + 1] = w /\ \A i \in 1 .. n : x[i] = v[i]
  BY <1>3, <1>4, <1>5, ConcatProperties
<1>7. PICK y \in Seq(Documents) : y = x \o r
  BY ConcatProperties
<1>8. /\ Len(y) = n + 1 + p /\ \A i \in 1 .. n + 1 : y[i] = x[i]
      /\ \A k \in 1 .. p : y[n + 1 + k] = r[k]
  <2>1. /\ Len(x \o r) = Len(x) + Len(r)
        /\ \A i \in 1 .. Len(x) + Len(r) :
             (x \o r)[i] = IF i <= Len(x) THEN x[i] ELSE r[i - Len(x)]
    BY ConcatProperties
  <2>2. /\ Len(y) = n + 1 + p
        /\ \A i \in 1 .. n + 1 + p : y[i] = IF i <= n + 1 THEN x[i] ELSE r[i - (n + 1)]
    BY <1>2, <1>6, <1>7, <2>1
  <2>3. ASSUME NEW k \in 1 .. p  PROVE y[n + 1 + k] = r[k]
    <3>1. /\ n + 1 + k \in 1 .. n + 1 + p /\ n + 1 + k > n + 1
          /\ (n + 1 + k) - (n + 1) = k
      OBVIOUS
    <3>2. QED
      BY <2>2, <3>1
  <2>4. QED
    BY <2>2, <2>3
<1>9. y = Line(u, w, r)
  BY <1>5, <1>7 DEF Line, v
<1>10. OnLine(y, u, w, r)
  BY <1>1, <1>2, <1>3, <1>6, <1>8 DEF OnLine
<1>11. QED
  BY <1>9, <1>10

\* A line is known by what is at its places.
LEMMA SameLine ==
  ASSUME NEW s \in Seq(Documents), NEW t \in Seq(Documents), NEW n \in Nat,
         Len(s) = n, Len(t) = n, \A i \in 1 .. n : s[i] = t[i]
  PROVE  s = t
BY SeqEqual

\* Undo moves back: what leaves the one stack is the world, and the world the top
\* of the other.
LEMMA LineMovesBack ==
  ASSUME NEW u \in Seq(Documents), NEW w \in Documents, NEW r \in Seq(Documents),
         u # << >>, Len(u) + Len(r) <= Limit
  PROVE  Line(Tail(u), Head(u), Latest(<<w>> \o r)) = Line(u, w, r)
<1> DEFINE u1 == Tail(u)
           r1 == Latest(<<w>> \o r)
<1>1. PICK n \in Nat \ {0}, p \in Nat : n = Len(u) /\ p = Len(r)
  BY Swapped
<1>2. /\ u1 \in Seq(Documents) /\ Len(u1) = n - 1 /\ \A k \in 1 .. n - 1 : u1[k] = u[k + 1]
      /\ Head(u) \in Documents /\ Head(u) = u[1]
      /\ r1 \in Seq(Documents) /\ Len(r1) = p + 1 /\ r1[1] = w
      /\ \A k \in 2 .. p + 1 : r1[k] = r[k - 1]
  BY <1>1, Swapped
<1> HIDE DEF u1, r1
<1> DEFINE s == Line(u1, Head(u), r1)
           t == Line(u, w, r)
<1>3. OnLine(s, u1, Head(u), r1)
  BY <1>2, LineProperties
<1>4. OnLine(t, u, w, r)
  BY LineProperties
<1> HIDE DEF s, t
<1>5. Len(s) = n + 1 + p /\ Len(t) = n + 1 + p
  BY <1>1, <1>2, <1>3, <1>4 DEF OnLine
<1>6. ASSUME NEW i \in 1 .. n + 1 + p  PROVE s[i] = t[i]
  <2>1. CASE i < n
    <3>1. n - 1 - i + 1 \in 1 .. n - 1 /\ n - 1 - i + 1 + 1 = n - i + 1
      BY <1>1, <2>1
    <3>2. s[i] = u1[n - 1 - i + 1] /\ u1[n - 1 - i + 1] = u[n - 1 - i + 1 + 1]
      <4>1. i \in 1 .. Len(u1)
        BY <1>1, <1>2, <2>1
      <4>2. s[i] = u1[n - 1 - i + 1]
        BY <1>2, <1>3, <4>1 DEF OnLine
      <4>3. QED
        BY <1>2, <3>1, <4>2
    <3>3. t[i] = u[n - i + 1]
      BY <1>1, <1>4, <2>1 DEF OnLine
    <3>4. QED
      BY <3>1, <3>2, <3>3
  <2>2. CASE i = n
    <3>1. s[i] = u[1]
      BY <1>1, <1>2, <1>3, <2>2 DEF OnLine
    <3>2. i \in 1 .. Len(u) /\ Len(u) - i + 1 = 1
      BY <1>1, <2>2
    <3>3. t[i] = u[Len(u) - i + 1]
      BY <1>4, <3>2 DEF OnLine
    <3>4. QED
      BY <3>1, <3>2, <3>3
  <2>3. CASE i = n + 1
    <3>1. s[n - 1 + 1 + 1] = r1[1] /\ n - 1 + 1 + 1 = i
      BY <1>1, <1>2, <1>3, <2>3 DEF OnLine
    <3>2. t[i] = w
      BY <1>1, <1>4, <2>3 DEF OnLine
    <3>3. QED
      BY <1>2, <3>1, <3>2
  <2>4. CASE i > n + 1
    <3>1. PICK k \in 1 .. p : i = n + 1 + k
      <4>1. i - (n + 1) \in 1 .. p /\ i = n + 1 + (i - (n + 1))
        BY <2>4
      <4>2. QED
        BY <4>1
    <3>2. s[n - 1 + 1 + (k + 1)] = r1[k + 1] /\ n - 1 + 1 + (k + 1) = i
      BY <1>1, <1>2, <1>3, <3>1 DEF OnLine
    <3>3. r1[k + 1] = r[k]
      <4>1. k + 1 \in 2 .. p + 1 /\ (k + 1) - 1 = k
        OBVIOUS
      <4>2. QED
        BY <1>2, <4>1
    <3>4. t[i] = r[k]
      BY <1>1, <1>4, <3>1 DEF OnLine
    <3>5. QED
      BY <3>2, <3>3, <3>4
  <2>5. QED
    BY <2>1, <2>2, <2>3, <2>4
<1>7. s \in Seq(Documents) /\ t \in Seq(Documents)
  BY <1>3, <1>4 DEF OnLine
<1>8. s = t
  BY <1>1, <1>5, <1>6, <1>7, SameLine
<1>9. QED
  BY <1>8 DEF s, t, u1, r1

\* Redo moves on: it undoes an undo.
LEMMA LineMovesOn ==
  ASSUME NEW u \in Seq(Documents), NEW w \in Documents, NEW r \in Seq(Documents),
         r # << >>, Len(u) + Len(r) <= Limit
  PROVE  Line(Latest(<<w>> \o u), Head(r), Tail(r)) = Line(u, w, r)
<1> DEFINE u1 == Latest(<<w>> \o u)
           w1 == Head(r)
           r1 == Tail(r)
<1>1. PICK n \in Nat, p \in Nat \ {0} : n = Len(u) /\ p = Len(r)
  BY LenProperties, Popped
<1>2. p + n <= Limit /\ Limit \in Nat
  BY <1>1, HistoryAssumption
<1>3. /\ w1 \in Documents /\ w1 = r[1]
      /\ r1 \in Seq(Documents) /\ Len(r1) = p - 1 /\ \A k \in 1 .. p - 1 : r1[k] = r[k + 1]
      /\ u1 \in Seq(Documents) /\ Len(u1) = n + 1 /\ u1[1] = w
      /\ \A k \in 2 .. n + 1 : u1[k] = u[k - 1]
  BY <1>1, <1>2, Swapped
<1> HIDE DEF u1, w1, r1
<1>4. u1 # << >> /\ Len(u1) + Len(r1) <= Limit /\ Len(r1) < Limit
  <2>1. u1 # << >>
    BY <1>1, <1>3, EmptyStack
  <2>2. QED
    BY <1>1, <1>2, <1>3, <2>1
<1>5. /\ Head(u1) = w /\ Tail(u1) \in Seq(Documents) /\ Len(Tail(u1)) = n
      /\ \A k \in 1 .. n : Tail(u1)[k] = u1[k + 1]
  BY <1>1, <1>3, <1>4, Popped
<1>6. Tail(u1) = u
  <2>1. \A k \in 1 .. n : Tail(u1)[k] = u[k]
    BY <1>1, <1>3, <1>5
  <2>2. QED
    BY <1>1, <1>5, <2>1, SameLine
<1>7. Latest(<<w1>> \o r1) = r
  <2> DEFINE q == Latest(<<w1>> \o r1)
  <2>1. /\ q \in Seq(Documents) /\ Len(q) = p /\ q[1] = w1
        /\ \A k \in 2 .. p : q[k] = r1[k - 1]
    <3>1. /\ q \in Seq(Documents) /\ q[1] = w1
          /\ Len(q) = IF Len(r1) = Limit THEN Limit ELSE Len(r1) + 1
          /\ \A k \in 2 .. Len(q) : q[k] = r1[k - 1]
      <4>1. Len(r1) <= Limit
        BY <1>1, <1>2, <1>3
      <4>2. QED
        BY <1>3, <4>1, Pushed
    <3>2. Len(q) = p
      BY <1>1, <1>2, <1>3, <1>4, <3>1
    <3>3. QED
      BY <3>1, <3>2
  <2> HIDE DEF q
  <2>2. ASSUME NEW k \in 1 .. p  PROVE q[k] = r[k]
    <3>1. CASE k = 1
      BY <1>3, <2>1, <3>1
    <3>2. CASE k # 1
      <4>1. k \in 2 .. p /\ k - 1 \in 1 .. p - 1 /\ (k - 1) + 1 = k
        BY <3>2
      <4>2. QED
        BY <1>3, <2>1, <4>1
    <3>3. QED
      BY <3>1, <3>2
  <2>3. q = r
    BY <1>1, <2>1, <2>2, SameLine
  <2>4. QED
    BY <2>3 DEF q
<1>8. Line(Tail(u1), Head(u1), Latest(<<w1>> \o r1)) = Line(u1, w1, r1)
  BY <1>3, <1>4, LineMovesBack
<1>9. QED
  BY <1>5, <1>6, <1>7, <1>8 DEF u1, w1, r1

\* A change that is not recorded puts another document in the place.
LEMMA LineAmended ==
  ASSUME NEW u \in Seq(Documents), NEW w \in Documents, NEW r \in Seq(Documents),
         NEW d \in Documents
  PROVE  Line(u, d, r) = [Line(u, w, r) EXCEPT ![Len(u) + 1] = d]
<1> DEFINE s == Line(u, d, r)
           t == Line(u, w, r)
<1>1. PICK n \in Nat, p \in Nat : n = Len(u) /\ p = Len(r)
  BY LenProperties
<1>2. OnLine(s, u, d, r) /\ OnLine(t, u, w, r)
  BY LineProperties
<1> HIDE DEF s, t
<1>3. /\ s \in Seq(Documents) /\ Len(s) = n + 1 + p
      /\ t \in Seq(Documents) /\ Len(t) = n + 1 + p
  BY <1>1, <1>2 DEF OnLine
<1>4. n + 1 \in 1 .. Len(t)
  BY <1>1, <1>3
<1> DEFINE v == [t EXCEPT ![n + 1] = d]
<1>5. /\ v \in Seq(Documents) /\ Len(v) = Len(t)
      /\ \A j \in 1 .. Len(t) : v[j] = IF j = n + 1 THEN d ELSE t[j]
  BY <1>3, <1>4, ExceptSeq
<1> HIDE DEF v
<1>6. ASSUME NEW i \in 1 .. n + 1 + p  PROVE s[i] = v[i]
  <2>1. CASE i < n + 1
    <3>1. i \in 1 .. n /\ v[i] = t[i]
      BY <1>3, <1>5, <2>1
    <3>2. s[i] = u[n - i + 1] /\ t[i] = u[n - i + 1]
      BY <1>1, <1>2, <3>1 DEF OnLine
    <3>3. QED
      BY <3>1, <3>2
  <2>2. CASE i = n + 1
    BY <1>1, <1>2, <1>3, <1>5, <2>2 DEF OnLine
  <2>3. CASE i > n + 1
    <3>1. PICK k \in 1 .. p : i = n + 1 + k
      <4>1. i - (n + 1) \in 1 .. p /\ i = n + 1 + (i - (n + 1))
        BY <2>3
      <4>2. QED
        BY <4>1
    <3>2. v[i] = t[i]
      BY <1>3, <1>5, <2>3
    <3>3. s[n + 1 + k] = r[k] /\ t[n + 1 + k] = r[k]
      BY <1>1, <1>2 DEF OnLine
    <3>4. QED
      BY <3>1, <3>2, <3>3
  <2>4. QED
    BY <2>1, <2>2, <2>3
<1>7. s = v
  BY <1>1, <1>3, <1>5, <1>6, SameLine
<1>8. QED
  BY <1>1, <1>7 DEF s, t, v

LEMMA LineRestarted ==
  ASSUME NEW d \in Documents  PROVE Line(<< >>, d, << >>) = <<d>>
<1> DEFINE s == Line(<< >>, d, << >>)
<1>1. << >> \in Seq(Documents) /\ Len(<< >>) = 0
  BY EmptyStack
<1>2. OnLine(s, << >>, d, << >>)
  BY <1>1, LineProperties
<1> HIDE DEF s
<1>3. s \in Seq(Documents) /\ Len(s) = 1 /\ s[1] = d
  BY <1>1, <1>2 DEF OnLine
<1>4. <<d>> \in Seq(Documents) /\ Len(<<d>>) = 1 /\ <<d>>[1] = d
  OBVIOUS
<1>5. \A i \in 1 .. 1 : s[i] = <<d>>[i]
  BY <1>3, <1>4
<1>6. s = <<d>>
  BY <1>3, <1>4, <1>5, SameLine
<1>7. QED
  BY <1>6 DEF s

\* An edit cuts off what lies ahead and adds to the end.
LEMMA LineRecorded ==
  ASSUME NEW u \in Seq(Documents), NEW w \in Documents, NEW r \in Seq(Documents),
         Len(u) <= Limit, NEW before \in Documents, NEW next \in Documents
  PROVE  Line(Latest(<<before>> \o u), next, << >>)
           = Timeline!Newest(SubSeq(Line(u, w, r), 1, Len(u)) \o <<before, next>>)
<1> DEFINE u1 == Latest(<<before>> \o u)
           s == Line(u1, next, << >>)
           t == Line(u, w, r)
           c == SubSeq(t, 1, Len(u))
           x == c \o <<before, next>>
<1>1. PICK n \in Nat : n = Len(u) /\ Limit \in Nat \ {0}
  BY LenProperties, HistoryAssumption
<1>2. /\ u1 \in Seq(Documents) /\ Len(u1) = (IF n = Limit THEN Limit ELSE n + 1)
      /\ u1[1] = before /\ \A k \in 2 .. Len(u1) : u1[k] = u[k - 1]
  BY <1>1, Pushed
<1>3. OnLine(t, u, w, r)
  BY LineProperties
<1> HIDE DEF u1
<1>4. << >> \in Seq(Documents) /\ Len(<< >>) = 0
  BY EmptyStack
<1>5. OnLine(s, u1, next, << >>)
  BY <1>2, <1>4, LineProperties
<1> HIDE DEF s, t
<1>6. /\ s \in Seq(Documents) /\ Len(s) = Len(u1) + 1 /\ s[Len(u1) + 1] = next
      /\ \A i \in 1 .. Len(u1) : s[i] = u1[Len(u1) - i + 1]
  <2>1. Len(s) = Len(u1) + 1 + 0
    BY <1>4, <1>5 DEF OnLine
  <2>2. QED
    BY <1>1, <1>2, <1>5, <2>1 DEF OnLine
<1>7. c \in Seq(Documents) /\ Len(c) = n /\ \A i \in 1 .. n : c[i] = u[n - i + 1]
  <2>1. /\ t \in Seq(Documents) /\ Len(t) \in Nat /\ Len(t) >= n
        /\ \A i \in 1 .. n : t[i] = u[n - i + 1]
    BY <1>1, <1>3, LenProperties DEF OnLine
  <2>2. \A i \in 1 .. n : t[i] \in Documents
    BY <1>1, <2>1, ElementOfSeq
  <2>3. /\ SubSeq(t, 1, n) \in Seq(Documents)
        /\ Len(SubSeq(t, 1, n)) = IF 1 <= n THEN n - 1 + 1 ELSE 0
        /\ \A i \in 1 .. n - 1 + 1 : SubSeq(t, 1, n)[i] = t[1 + i - 1]
    BY <1>1, <2>2, SubSeqProperties
  <2>4. Len(SubSeq(t, 1, n)) = n /\ \A i \in 1 .. n : SubSeq(t, 1, n)[i] = t[i]
    BY <1>1, <2>3
  <2>5. QED
    BY <1>1, <2>1, <2>3, <2>4
<1> HIDE DEF c
<1>8. /\ <<before, next>> \in Seq(Documents) /\ Len(<<before, next>>) = 2
      /\ <<before, next>>[1] = before /\ <<before, next>>[2] = next
  OBVIOUS
<1>9. /\ x \in Seq(Documents) /\ Len(x) = n + 2 /\ x[n + 1] = before /\ x[n + 2] = next
      /\ \A i \in 1 .. n : x[i] = u[n - i + 1]
  <2>1. /\ x \in Seq(Documents) /\ Len(x) = n + 2
        /\ \A i \in 1 .. n + 2 : x[i] = IF i <= n THEN c[i] ELSE <<before, next>>[i - n]
    BY <1>1, <1>7, <1>8, ConcatProperties
  <2> HIDE DEF x
  <2>2. /\ n + 1 \in 1 .. n + 2 /\ ~(n + 1 <= n) /\ (n + 1) - n = 1
        /\ n + 2 \in 1 .. n + 2 /\ ~(n + 2 <= n) /\ (n + 2) - n = 2
    BY <1>1
  <2>3. x[n + 1] = before /\ x[n + 2] = next
    BY <1>8, <2>1, <2>2
  <2>4. \A i \in 1 .. n : x[i] = u[n - i + 1]
    <3>1. \A i \in 1 .. n : i \in 1 .. n + 2 /\ i <= n
      BY <1>1
    <3>2. QED
      BY <1>7, <2>1, <3>1
  <2>5. QED
    BY <2>1, <2>3, <2>4
<1> HIDE DEF x
<1>10. CASE n = Limit
  <2> DEFINE y == SubSeq(x, 2, n + 2)
  <2>1. Timeline!Newest(x) = y
    BY <1>1, <1>9, <1>10 DEF Timeline!Newest
  <2>2. \A i \in 2 .. n + 2 : x[i] \in Documents
    BY <1>1, <1>9, ElementOfSeq
  <2>3. /\ y \in Seq(Documents) /\ Len(y) = n + 1 /\ \A i \in 1 .. n + 1 : y[i] = x[i + 1]
    <3>1. /\ y \in Seq(Documents) /\ Len(y) = IF 2 <= n + 2 THEN n + 2 - 2 + 1 ELSE 0
          /\ \A i \in 1 .. n + 2 - 2 + 1 : y[i] = x[2 + i - 1]
      BY <1>1, <2>2, SubSeqProperties
    <3> HIDE DEF y
    <3>2. QED
      BY <1>1, <3>1
  <2> HIDE DEF y
  <2>4. ASSUME NEW i \in 1 .. n + 1  PROVE s[i] = y[i]
    <3>1. CASE i = n + 1
      BY <1>1, <1>2, <1>6, <1>9, <1>10, <2>3, <3>1
    <3>2. CASE i = n
      <4>1. n \in 1 .. Len(u1) /\ Len(u1) - n + 1 = 1 /\ n \in 1 .. n + 1
        BY <1>1, <1>2, <1>10
      <4>2. s[n] = u1[1] /\ y[n] = x[n + 1]
        BY <1>6, <2>3, <4>1
      <4>3. QED
        BY <1>2, <1>9, <3>2, <4>2
    <3>3. CASE i < n
      <4>1. /\ i \in 1 .. Len(u1) /\ Len(u1) - i + 1 = n - i + 1
            /\ n - i + 1 \in 2 .. Len(u1) /\ (n - i + 1) - 1 = n - i
            /\ i + 1 \in 1 .. n /\ n - (i + 1) + 1 = n - i
        BY <1>1, <1>2, <1>10, <3>3
      <4>2. s[i] = u[n - i]
        BY <1>2, <1>6, <4>1
      <4>3. y[i] = u[n - i]
        BY <1>9, <2>3, <4>1
      <4>4. QED
        BY <4>2, <4>3
    <3>4. QED
      BY <3>1, <3>2, <3>3
  <2>5. Len(s) = n + 1 /\ n + 1 \in Nat
    BY <1>1, <1>2, <1>6, <1>10
  <2>6. s = y
    BY <1>6, <2>3, <2>4, <2>5, SameLine
  <2>7. QED
    BY <2>1, <2>6 DEF s, u1, x, c, t
<1>11. CASE n # Limit
  <2>1. Timeline!Newest(x) = x
    BY <1>1, <1>9, <1>11 DEF Timeline!Newest
  <2>2. Len(u1) = n + 1 /\ Len(s) = n + 2 /\ n + 2 \in Nat
    BY <1>1, <1>2, <1>6, <1>11
  <2>3. ASSUME NEW i \in 1 .. n + 2  PROVE s[i] = x[i]
    <3>1. CASE i = n + 2
      BY <1>1, <1>6, <1>9, <2>2, <3>1
    <3>2. CASE i = n + 1
      <4>1. i \in 1 .. Len(u1) /\ Len(u1) - i + 1 = 1
        BY <1>1, <2>2, <3>2
      <4>2. s[i] = before
        BY <1>2, <1>6, <4>1
      <4>3. QED
        BY <1>9, <3>2, <4>2
    <3>3. CASE i < n + 1
      <4>1. /\ i \in 1 .. Len(u1) /\ i \in 1 .. n
            /\ Len(u1) - i + 1 \in 2 .. Len(u1) /\ (Len(u1) - i + 1) - 1 = n - i + 1
        BY <1>1, <2>2, <3>3
      <4>2. s[i] = u[n - i + 1]
        BY <1>2, <1>6, <4>1
      <4>3. QED
        BY <1>9, <4>1, <4>2
    <3>4. QED
      BY <3>1, <3>2, <3>3
  <2>4. s = x
    BY <1>6, <1>9, <2>2, <2>3, SameLine
  <2>5. QED
    BY <2>1, <2>4 DEF s, u1, x, c, t
<1>12. QED
  BY <1>10, <1>11

-----------------------------------------------------------------------------
\* Every step on the timeline

TheLine == Reverse(undo) \o <<world>> \o redo

LEMMA LineIsThere ==
  ASSUME HistoryInv
  PROVE  /\ TheLine = Line(undo, world, redo) /\ OnLine(TheLine, undo, world, redo)
         /\ Len(TheLine) = Len(undo) + 1 + Len(redo)
<1>1. TheLine = Line(undo, world, redo)
  BY DEF TheLine, Line
<1>2. OnLine(Line(undo, world, redo), undo, world, redo)
  BY HistoryFacts, LineProperties
<1>3. QED
  BY <1>1, <1>2 DEF OnLine

\* What the actions of the timeline say of the line.
LEMMA TimelineSteps ==
  /\ Timeline!Record <=> \E before, next \in Documents :
       /\ TheLine' = Timeline!Newest(SubSeq(TheLine, 1, Len(undo) + 1 - 1) \o <<before, next>>)
       /\ Len(undo') + 1 = Len(TheLine')
  /\ Timeline!Move <=>
       /\ TheLine' = TheLine
       /\ Len(undo') + 1 \in {Len(undo) + 1 - 1, Len(undo) + 1 + 1} \cap 1 .. Len(TheLine)
  /\ Timeline!Amend <=> \E d \in Documents :
       /\ TheLine' = [TheLine EXCEPT ![Len(undo) + 1] = d] /\ Len(undo') + 1 = Len(undo) + 1
  /\ Timeline!Restart <=> \E d \in Documents : TheLine' = <<d>> /\ Len(undo') + 1 = 1
  /\ (UNCHANGED Timeline!timeVars) <=> TheLine' = TheLine /\ Len(undo') + 1 = Len(undo) + 1
BY DEF Timeline!Record, Timeline!Move, Timeline!Amend, Timeline!Restart, Timeline!timeVars,
   TheLine

LEMMA Recorded ==
  ASSUME HistoryInv, HistoryInv', NEW before \in Documents,
         undo' = Latest(<<before>> \o undo), redo' = << >>
  PROVE  Timeline!Record
<1>1. /\ TheLine = Line(undo, world, redo) /\ TheLine' = Line(undo', world', redo')
      /\ Len(TheLine') = Len(undo') + 1 + Len(redo')
  <2>1. TheLine = Line(undo, world, redo) /\ TheLine' = Line(undo', world', redo')
    BY DEF TheLine, Line
  <2>2. undo' \in Seq(Documents) /\ redo' \in Seq(Documents) /\ world' \in Documents
    BY DEF HistoryInv
  <2>3. OnLine(Line(undo', world', redo'), undo', world', redo')
    BY <2>2, LineProperties
  <2>4. QED
    BY <2>1, <2>3 DEF OnLine
<1>2. Line(undo', world', redo')
        = Timeline!Newest(SubSeq(Line(undo, world, redo), 1, Len(undo)) \o <<before, world'>>)
  <2>1. world' \in Documents
    BY DEF HistoryInv
  <2>2. Line(Latest(<<before>> \o undo), world', << >>)
          = Timeline!Newest(SubSeq(Line(undo, world, redo), 1, Len(undo))
                              \o <<before, world'>>)
    BY <2>1, HistoryFacts, LineRecorded
  <2>3. QED
    BY <2>2
<1>3. Len(undo) + 1 - 1 = Len(undo)
  BY HistoryFacts
<1>4. Len(undo') + 1 = Len(TheLine')
  <2>1. undo' \in Seq(Documents) /\ Len(redo') = 0
    BY EmptyStack DEF HistoryInv
  <2>2. Len(undo') \in Nat
    BY <2>1, LenProperties
  <2>3. QED
    BY <1>1, <2>1, <2>2
<1>5. world' \in Documents
  BY DEF HistoryInv
<1>6. QED
  BY <1>1, <1>2, <1>3, <1>4, <1>5, TimelineSteps

LEMMA CommitKeeps ==
  ASSUME HistoryInv, HistoryInv', NEW before \in Documents, NEW after, before # after, NEW what,
         Commit(before, after, what)
  PROVE  Timeline!Record
BY Recorded DEF Commit

\* With neither the world nor a stack changed, nothing moves.
LEMMA Unmoved ==
  ASSUME UNCHANGED <<world, undo, redo>>
  PROVE  UNCHANGED Timeline!timeVars
BY TimelineSteps DEF TheLine

LEMMA UndoMoves ==
  ASSUME HistoryInv, Undo  PROVE Timeline!Move
<1>1. /\ undo # << >> /\ world' = Head(undo) /\ undo' = Tail(undo)
      /\ redo' = Latest(<<world>> \o redo)
  BY DEF Undo
<1>2. Line(undo', world', redo') = Line(undo, world, redo)
  BY <1>1, HistoryFacts, LineMovesBack DEF Bounded
<1>3. TheLine' = TheLine
  BY <1>2 DEF TheLine, Line
<1>4. /\ Len(undo') = Len(undo) - 1 /\ Len(undo) \in Nat \ {0} /\ Len(redo) \in Nat
      /\ Len(TheLine) = Len(undo) + 1 + Len(redo)
  BY <1>1, HistoryFacts, Popped, LineIsThere
<1>5. Len(undo') + 1 \in {Len(undo) + 1 - 1, Len(undo) + 1 + 1} \cap 1 .. Len(TheLine)
  BY <1>4
<1>6. QED
  BY <1>3, <1>5, TimelineSteps

LEMMA RedoMoves ==
  ASSUME HistoryInv, Redo  PROVE Timeline!Move
<1>1. /\ redo # << >> /\ world' = Head(redo) /\ redo' = Tail(redo)
      /\ undo' = Latest(<<world>> \o undo)
  BY DEF Redo
<1>2. Line(undo', world', redo') = Line(undo, world, redo)
  BY <1>1, HistoryFacts, LineMovesOn DEF Bounded
<1>3. TheLine' = TheLine
  BY <1>2 DEF TheLine, Line
<1>4. Len(redo) + Len(undo) <= Limit
  BY HistoryFacts DEF Bounded
<1>5. /\ Len(undo') = Len(undo) + 1 /\ Len(undo) \in Nat /\ Len(redo) \in Nat \ {0}
      /\ Len(TheLine) = Len(undo) + 1 + Len(redo)
  BY <1>1, <1>4, HistoryFacts, Swapped, LineIsThere
<1>6. Len(undo') + 1 \in {Len(undo) + 1 - 1, Len(undo) + 1 + 1} \cap 1 .. Len(TheLine)
  BY <1>5
<1>7. QED
  BY <1>3, <1>6, TimelineSteps

LEMMA Amended ==
  ASSUME HistoryInv, world' \in Documents, UNCHANGED <<undo, redo>>
  PROVE  Timeline!Amend
<1>1. Line(undo, world', redo) = [Line(undo, world, redo) EXCEPT ![Len(undo) + 1] = world']
  BY HistoryFacts, LineAmended
<1>2. TheLine' = [TheLine EXCEPT ![Len(undo) + 1] = world']
  BY <1>1 DEF TheLine, Line
<1>3. QED
  BY <1>2, TimelineSteps

LEMMA Restarted ==
  ASSUME world' \in Documents, undo' = << >>, redo' = << >>
  PROVE  Timeline!Restart
<1>1. TheLine' = <<world'>>
  BY LineRestarted DEF TheLine, Line
<1>2. Len(undo') + 1 = 1
  BY EmptyStack
<1>3. QED
  BY <1>1, <1>2, TimelineSteps

\* A step of the editor, where no effect sets a reference back
LEMMA StepKeeps ==
  ASSUME HistoryInv, HistoryInv', [HistoryNext]_historyVars, InStep, InStep'
  PROVE  Timeline!TimeNext \/ UNCHANGED Timeline!timeVars
<1>1. ASSUME NEW d \in Documents, Edit(d)  PROVE Timeline!Record
  <2>1. Commit(world, d, {World}) /\ world # d /\ world \in Documents
    BY <1>1, HistoryFacts DEF Edit
  <2>2. QED
    BY <2>1, CommitKeeps
<1>2. ASSUME NEW d \in Documents, Drag(d)  PROVE Timeline!Amend
  BY <1>2, Amended DEF Drag
<1>3. ASSUME NEW d \in Documents, NEW r \in ai, AiEdit(r, d)  PROVE Timeline!Amend
  BY <1>3, Amended DEF AiEdit
<1>4. ASSUME BeginDrag \/ AiStart \/ Render  PROVE UNCHANGED Timeline!timeVars
  BY <1>4, Unmoved DEF BeginDrag, AiStart, Render, refVars
<1>5. ASSUME NEW d \in drag, EndDrag(d)
      PROVE  Timeline!Record \/ UNCHANGED Timeline!timeVars
  <2>1. Commit(d, world, {}) /\ d \in Documents /\ world' = world
    BY <1>5, HistoryFacts DEF EndDrag
  <2>2. CASE d # world
    BY <2>1, <2>2, CommitKeeps
  <2>3. CASE d = world
    <3>1. UNCHANGED <<undo, redo>>
      BY <2>1, <2>3 DEF Commit
    <3>2. QED
      BY <2>1, <3>1, Unmoved
  <2>4. QED
    BY <2>2, <2>3
<1>6. ASSUME Bookmark  PROVE Timeline!Record
  BY <1>6, HistoryFacts, Recorded DEF Bookmark
<1>7. ASSUME NEW r \in ai, AiFail(r)  PROVE Timeline!Amend
  <2>1. world' \in Documents
    BY DEF HistoryInv
  <2>2. QED
    BY <1>7, <2>1, Amended DEF AiFail
<1>8. ASSUME NEW r \in ai, AiDone(r)
      PROVE  Timeline!Record \/ UNCHANGED Timeline!timeVars
  <2>1. world' = world /\ r.before \in Documents
    BY <1>8, HistoryFacts DEF AiDone
  <2>2. CASE r.edited /\ r.before # world
    <3>1. Commit(r.before, world, {})
      BY <1>8, <2>2 DEF AiDone
    <3>2. QED
      BY <2>1, <2>2, <3>1, CommitKeeps
  <2>3. CASE ~(r.edited /\ r.before # world)
    <3>1. UNCHANGED <<undo, redo>>
      BY <1>8, <2>3 DEF AiDone, Commit
    <3>2. QED
      BY <2>1, <3>1, Unmoved
  <2>4. QED
    BY <2>2, <2>3
<1>9. ASSUME NEW i \in 1 .. Limit, Rollback(i)  PROVE Timeline!Record
  <2>1. Commit(world, undo[i], {World}) /\ world # undo[i] /\ world \in Documents
    BY <1>9, HistoryFacts DEF Rollback
  <2>2. QED
    BY <2>1, CommitKeeps
<1>10. ASSUME NEW what, LoadDraft(what)  PROVE Timeline!Restart
  BY <1>10, Restarted DEF LoadDraft
<1>11. ASSUME given' = given  PROVE UNCHANGED Timeline!timeVars
  <2>1. /\ given.world = world /\ given.undo = undo /\ given.redo = redo
        /\ given'.world = world' /\ given'.undo = undo' /\ given'.redo = redo'
    BY DEF InStep
  <2>2. QED
    BY <1>11, <2>1, Unmoved
<1>12. ASSUME NEW r \in rendered, Effects(r)  PROVE given' = given
  BY <1>12 DEF Effects
<1>13. ASSUME UndoOrRedo  PROVE Timeline!Move \/ UNCHANGED Timeline!timeVars
  <2>1. CASE Undo \/ Redo
    BY <2>1, UndoMoves, RedoMoves
  <2>2. CASE UNCHANGED <<refVars, reactVars>>
    BY <2>2, Unmoved DEF refVars
  <2>3. QED
    BY <1>13, <2>1, <2>2 DEF UndoOrRedo
<1>14. CASE UNCHANGED historyVars
  BY <1>11, <1>14 DEF historyVars, reactVars
<1>15. CASE HistoryNext
  BY <1>1, <1>2, <1>3, <1>4, <1>5, <1>6, <1>7, <1>8, <1>9, <1>10, <1>11, <1>12, <1>13,
     <1>15 DEF HistoryNext, Timeline!TimeNext
<1>16. QED
  BY <1>14, <1>15

\* Where no effect sets a reference back to something older, every change keeps to
\* one timeline, whatever edits, drags, runs of the AI and rollbacks cross.
THEOREM HistoryKeepsToTimeline == HistorySpec => KeepsToTimeline
<1>1. HistoryInv /\ HistoryInv' /\ [HistoryNext]_historyVars
        => [InStep /\ InStep' => Timeline!TimeNext \/ UNCHANGED Timeline!timeVars]_historyVars
  BY StepKeeps
<1>2. QED
  BY <1>1, HistoryInvariance, PTL DEF HistorySpec, KeepsToTimeline

(***************************************************************************)
(* Drafts                                                                  *)
(***************************************************************************)

\* A save and a read carry one world; a write has a world, and no more than are kept.
Shaped(r) ==
  /\ r \in [op : Ops, worlds : Seq(Drafts)]
  /\ r.op \in {"save", "read"} => Len(r.worlds) = 1
  /\ r.op = "write" => Len(r.worlds) \in 1 .. MaxRevisions

DraftInv ==
  /\ edited \in Drafts /\ stale \in BOOLEAN /\ ready \in BOOLEAN /\ wiped \in BOOLEAN
  /\ timer \subseteq Drafts /\ draft \subseteq Drafts
  /\ requests \in Seq([op : Ops, worlds : Seq(Drafts)])
  /\ \A k \in 1 .. Len(requests) : Shaped(requests[k])
  /\ revisions \in Seq(Drafts) /\ Len(revisions) <= MaxRevisions
  /\ listed \in Seq(Drafts) /\ Len(listed) <= MaxRevisions

\* A queue of such requests
Queue(s) == s \in Seq([op : Ops, worlds : Seq(Drafts)])
              /\ \A k \in 1 .. Len(s) : Shaped(s[k])

LEMMA DraftTypes ==
  ASSUME DraftInv  PROVE DraftTypeOK
BY DEF DraftInv, DraftTypeOK

LEMMA RequestShape ==
  ASSUME NEW op \in Ops, NEW worlds \in Seq(Drafts),
         op \in {"save", "read"} => Len(worlds) = 1,
         op = "write" => Len(worlds) \in 1 .. MaxRevisions
  PROVE  Shaped(Request(op, worlds))
BY DEF Shaped, Request

LEMMA NoWorlds == << >> \in Seq(Drafts) /\ Len(<< >>) = 0 /\ Len(<< >>) <= MaxRevisions
BY EmptySeq, DraftAssumption

LEMMA OneWorld ==
  ASSUME NEW w \in Drafts  PROVE <<w>> \in Seq(Drafts) /\ Len(<<w>>) = 1
OBVIOUS

LEMMA Queued ==
  ASSUME NEW s, Queue(s), NEW r, Shaped(r)  PROVE Queue(Append(s, r))
<1> DEFINE R == [op : Ops, worlds : Seq(Drafts)]
<1>1. s \in Seq(R) /\ r \in R /\ Len(s) \in Nat
  BY LenProperties DEF Queue, Shaped
<1>2. /\ Append(s, r) \in Seq(R) /\ Len(Append(s, r)) = Len(s) + 1
      /\ \A k \in 1 .. Len(s) : Append(s, r)[k] = s[k]
      /\ Append(s, r)[Len(s) + 1] = r
  BY <1>1, AppendProperties
<1>3. ASSUME NEW k \in 1 .. Len(s) + 1  PROVE Shaped(Append(s, r)[k])
  <2>1. CASE k = Len(s) + 1
    BY <1>2, <2>1
  <2>2. CASE k # Len(s) + 1
    <3>1. k \in 1 .. Len(s)
      BY <1>1, <2>2
    <3>2. QED
      BY <1>2, <3>1 DEF Queue
  <2>3. QED
    BY <2>1, <2>2
<1>4. QED
  BY <1>2, <1>3 DEF Queue

LEMMA Dequeued ==
  ASSUME NEW s, Queue(s), s # << >>
  PROVE  Shaped(Head(s)) /\ Queue(Tail(s))
<1> DEFINE R == [op : Ops, worlds : Seq(Drafts)]
<1>1. s \in Seq(R)
  BY DEF Queue
<1>2. /\ Len(s) \in Nat \ {0} /\ Head(s) = s[1]
      /\ Tail(s) \in Seq(R) /\ Len(Tail(s)) = Len(s) - 1
      /\ \A k \in 1 .. Len(s) - 1 : Tail(s)[k] = s[k + 1]
  BY <1>1, HeadTailProperties, EmptySeq
<1>3. \A k \in 1 .. Len(s) - 1 : k + 1 \in 1 .. Len(s)
  BY <1>2
<1>4. 1 \in 1 .. Len(s)
  BY <1>2
<1>5. QED
  BY <1>2, <1>3, <1>4 DEF Queue

LEMMA QueuedTwo ==
  ASSUME NEW s, Queue(s), NEW r, Shaped(r), NEW q, Shaped(q)
  PROVE  Queue(s \o <<r, q>>)
<1> DEFINE R == [op : Ops, worlds : Seq(Drafts)]
<1>1. s \in Seq(R) /\ r \in R /\ q \in R
  BY DEF Queue, Shaped
<1>2. Queue(Append(Append(s, r), q))
  BY Queued
<1>3. s \o <<r, q>> = Append(Append(s, r), q)
  <2>1. PICK n \in Nat : n = Len(s)
    BY <1>1, LenProperties
  <2>2. /\ <<r, q>> \in Seq(R) /\ Len(<<r, q>>) = 2 /\ <<r, q>>[1] = r /\ <<r, q>>[2] = q
    BY <1>1
  <2>3. /\ s \o <<r, q>> \in Seq(R) /\ Len(s \o <<r, q>>) = n + 2
        /\ \A i \in 1 .. n + 2 : (s \o <<r, q>>)[i] = IF i <= n THEN s[i] ELSE <<r, q>>[i - n]
    BY <1>1, <2>1, <2>2, ConcatProperties
  <2>4. /\ Append(s, r) \in Seq(R) /\ Len(Append(s, r)) = n + 1
        /\ \A k \in 1 .. n : Append(s, r)[k] = s[k]
        /\ Append(s, r)[n + 1] = r
    BY <1>1, <2>1, AppendProperties
  <2>5. /\ Append(Append(s, r), q) \in Seq(R) /\ Len(Append(Append(s, r), q)) = n + 2
        /\ \A k \in 1 .. n + 1 : Append(Append(s, r), q)[k] = Append(s, r)[k]
        /\ Append(Append(s, r), q)[n + 2] = q
    BY <1>1, <2>4, AppendProperties
  <2> DEFINE x == s \o <<r, q>>
             y == Append(s, r)
             z == Append(y, q)
  <2> HIDE DEF x, y, z
  <2>6. ASSUME NEW i \in 1 .. n + 2  PROVE x[i] = z[i]
    <3>1. CASE i <= n
      <4>1. i \in 1 .. n /\ i \in 1 .. n + 1
        BY <3>1
      <4>2. x[i] = s[i] /\ y[i] = s[i] /\ z[i] = y[i]
        BY <2>3, <2>4, <2>5, <3>1, <4>1 DEF x, y, z
      <4>3. QED
        BY <4>2
    <3>2. CASE i = n + 1
      <4>1. ~(i <= n) /\ i - n = 1 /\ i \in 1 .. n + 1
        BY <3>2
      <4>2. x[i] = r /\ y[i] = r /\ z[i] = y[i]
        BY <2>2, <2>3, <2>4, <2>5, <3>2, <4>1 DEF x, y, z
      <4>3. QED
        BY <4>2
    <3>3. CASE i = n + 2
      <4>1. ~(i <= n) /\ i - n = 2
        BY <3>3
      <4>2. x[i] = q /\ z[i] = q
        BY <2>2, <2>3, <2>5, <3>3, <4>1 DEF x, y, z
      <4>3. QED
        BY <4>2
    <3>4. QED
      BY <3>1, <3>2, <3>3
  <2>7. x = z
    <3>1. x \in Seq(R) /\ Len(x) = n + 2 /\ z \in Seq(R) /\ Len(z) = n + 2
      BY <2>3, <2>5 DEF x, y, z
    <3>2. QED
      BY <2>6, <3>1, SeqEqual
  <2>8. QED
    BY <2>7 DEF x, y, z
<1>4. QED
  BY <1>2, <1>3

\* The revisions that are kept of a list with one on top.
LEMMA KeptShape ==
  ASSUME NEW s \in Seq(Drafts), Len(s) = 1, NEW t \in Seq(Drafts)
  PROVE  Kept(s \o t) \in Seq(Drafts) /\ Len(Kept(s \o t)) \in 1 .. MaxRevisions
<1> DEFINE u == s \o t
<1>1. u \in Seq(Drafts) /\ Len(u) = 1 + Len(t) /\ Len(t) \in Nat /\ MaxRevisions \in Nat \ {0}
  BY ConcatProperties, LenProperties, DraftAssumption
<1> HIDE DEF u
<1>2. CASE Len(u) > MaxRevisions
  <2>1. \A i \in 1 .. MaxRevisions : u[i] \in Drafts
    BY <1>1, <1>2, ElementOfSeq
  <2>2. /\ SubSeq(u, 1, MaxRevisions) \in Seq(Drafts)
        /\ Len(SubSeq(u, 1, MaxRevisions)) = MaxRevisions
    BY <1>1, <2>1, SubSeqProperties
  <2>3. Kept(u) = SubSeq(u, 1, MaxRevisions)
    BY <1>2 DEF Kept
  <2>4. Kept(u) \in Seq(Drafts) /\ Len(Kept(u)) \in 1 .. MaxRevisions
    BY <1>1, <2>2, <2>3
  <2>5. QED
    BY <2>4 DEF u
<1>3. CASE ~(Len(u) > MaxRevisions)
  BY <1>1, <1>3 DEF Kept, u
<1>4. QED
  BY <1>2, <1>3

LEMMA ShortenedShape ==
  ASSUME NEW s \in Seq(Drafts), Len(s) \in 1 .. MaxRevisions, Len(s) # 1
  PROVE  Shortened(s) \in Seq(Drafts) /\ Len(Shortened(s)) \in 1 .. MaxRevisions
<1>1. Len(s) \in Nat /\ MaxRevisions \in Nat \ {0}
  BY LenProperties, DraftAssumption
<1>2. Len(s) - 1 \in 1 .. MaxRevisions /\ Len(s) - 1 \in Nat /\ MaxRevisions \in Nat
  BY <1>1
<1>3. \A i \in 1 .. Len(s) - 1 : s[i] \in Drafts
  BY <1>2, ElementOfSeq
<1>4. /\ SubSeq(s, 1, Len(s) - 1) \in Seq(Drafts)
      /\ Len(SubSeq(s, 1, Len(s) - 1)) = Len(s) - 1
  BY <1>2, <1>3, SubSeqProperties
<1>5. QED
  BY <1>2, <1>4 DEF Shortened

-----------------------------------------------------------------------------

LEMMA DraftStart ==
  ASSUME DraftInit  PROVE DraftInv
<1>1. Queue(<<Request("load", << >>)>>)
  <2>1. Shaped(Request("load", << >>))
    BY NoWorlds, RequestShape DEF Ops
  <2>2. Request("load", << >>) \in [op : Ops, worlds : Seq(Drafts)]
    BY <2>1 DEF Shaped
  <2>3. QED
    BY <2>1, <2>2 DEF Queue
<1>2. DefaultWorld \in Drafts
  BY DraftAssumption
<1>3. QED
  BY <1>1, <1>2, NoWorlds DEF DraftInit, DraftInv, Queue

\* What a person does, and the timer
LEMMA PersonStep ==
  ASSUME DraftInv,
         \/ \E w \in Drafts : Change(w) \/ Import(w)
         \/ \E i \in 1 .. MaxRevisions : RestoreRevision(i)
         \/ \E w \in {DefaultWorld, EmptyWorld} : Wipe(w)
         \/ Reopen \/ Show \/ Autosave
  PROVE  DraftInv'
<1>1. Queue(requests)
  BY DEF DraftInv, Queue
<1>2. DefaultWorld \in Drafts /\ EmptyWorld \in Drafts
  BY DraftAssumption
<1>3. ASSUME NEW op \in {"load", "clear", "drop"}  PROVE Shaped(Request(op, << >>))
  BY NoWorlds, RequestShape DEF Ops
<1>4. ASSUME NEW w \in Drafts, NEW op \in {"read", "save"}
      PROVE  Shaped(Request(op, <<w>>))
  BY OneWorld, RequestShape DEF Ops
<1>5. ASSUME NEW w \in Drafts, Change(w)  PROVE DraftInv'
  BY <1>5 DEF Change, DraftInv, storeVars
<1>6. ASSUME NEW w \in Drafts, Import(w)  PROVE DraftInv'
  <2>1. Queue(requests')
    BY <1>1, <1>4, <1>6, Queued DEF Import
  <2>2. stale' \in BOOLEAN
    BY <1>6 DEF Import, DraftInv
  <2>3. QED
    BY <1>6, <2>1, <2>2 DEF Import, DraftInv, Queue, storeVars
<1>7. ASSUME NEW i \in 1 .. MaxRevisions, RestoreRevision(i)  PROVE DraftInv'
  <2>1. listed[i] \in Drafts
    BY <1>7, LenProperties, ElementOfSeq DEF RestoreRevision, DraftInv
  <2>2. QED
    BY <1>7, <2>1 DEF RestoreRevision, DraftInv, storeVars
<1>8. ASSUME NEW w \in {DefaultWorld, EmptyWorld}, Wipe(w)  PROVE DraftInv'
  <2>1. Queue(requests')
    <3>1. requests' = requests \o <<Request("clear", << >>), Request("drop", << >>)>>
      BY <1>8 DEF Wipe
    <3>2. QED
      BY <1>1, <1>3, <3>1, QueuedTwo
  <2>2. stale' \in BOOLEAN /\ wiped' \in BOOLEAN
    BY <1>8 DEF Wipe, DraftInv
  <2>3. edited' \in Drafts /\ listed' \in Seq(Drafts) /\ Len(listed') <= MaxRevisions
    BY <1>2, <1>8, NoWorlds DEF Wipe
  <2>4. UNCHANGED <<ready, timer, draft, revisions>>
    BY <1>8 DEF Wipe, storeVars
  <2>5. QED
    BY <2>1, <2>2, <2>3, <2>4 DEF DraftInv, Queue
<1>9. ASSUME Reopen  PROVE DraftInv'
  <2>1. Queue(requests')
    <3>1. requests' = <<Request("load", << >>)>> /\ Shaped(Request("load", << >>))
      BY <1>3, <1>9 DEF Reopen
    <3>2. Request("load", << >>) \in [op : Ops, worlds : Seq(Drafts)]
      BY <3>1 DEF Shaped
    <3>3. QED
      BY <3>1, <3>2 DEF Queue
  <2>2. QED
    BY <1>2, <1>9, <2>1, NoWorlds DEF Reopen, DraftInv, Queue, storeVars
<1>10. ASSUME Show  PROVE DraftInv'
  BY <1>10 DEF Show, DraftInv, storeVars
<1>11. ASSUME Autosave  PROVE DraftInv'
  <2>1. PICK w \in timer :
          requests' \in {Append(requests, Request("save", <<w>>)),
                         Append(Append(requests, Request("save", <<w>>)),
                                Request("read", <<w>>))}
    BY <1>11 DEF Autosave
  <2>2. w \in Drafts
    BY DEF DraftInv
  <2>3. Queue(requests')
    BY <1>1, <1>4, <2>1, <2>2, Queued
  <2>4. QED
    BY <1>11, <2>3 DEF Autosave, DraftInv, Queue, storeVars
<1>12. QED
  BY <1>5, <1>6, <1>7, <1>8, <1>9, <1>10, <1>11

LEMMA PerformStep ==
  ASSUME DraftInv, Perform  PROVE DraftInv'
<1> DEFINE r == Head(requests)
           rest == Tail(requests)
<1>1. requests # << >> /\ Queue(requests) /\ UNCHANGED <<timer, wiped>>
  BY DEF Perform, DraftInv, Queue
<1>2. Shaped(r) /\ Queue(rest)
  BY <1>1, Dequeued
<1>3. r.worlds \in Seq(Drafts) /\ r.op \in Ops
  BY <1>2 DEF Shaped
<1>4. CASE r.op = "load" /\ Loaded /\ requests' = rest /\ UNCHANGED storeVars
  BY <1>1, <1>2, <1>4 DEF Loaded, storeVars, DraftInv, Queue
<1>5. CASE /\ r.op = "save" /\ draft' = {Head(r.worlds)}
           /\ requests' = rest /\ UNCHANGED <<edited, stale, ready, revisions, listed>>
  <2>1. Head(r.worlds) \in Drafts
    <3>1. Len(r.worlds) = 1
      BY <1>2, <1>5 DEF Shaped
    <3>2. r.worlds # << >>
      BY <3>1, NoWorlds
    <3>3. QED
      BY <1>3, <3>2, HeadTailProperties
  <2>2. QED
    BY <1>1, <1>2, <1>5, <2>1 DEF DraftInv, Queue
<1>6. CASE /\ r.op = "clear" /\ draft' = {}
           /\ requests' = rest /\ UNCHANGED <<edited, stale, ready, revisions, listed>>
  BY <1>1, <1>2, <1>6 DEF DraftInv, Queue
<1>7. CASE /\ r.op = "read"
           /\ requests' = Append(rest, Request("write", Kept(r.worlds \o revisions)))
           /\ UNCHANGED <<edited, stale, ready, storeVars, listed>>
  <2>1. Len(r.worlds) = 1 /\ revisions \in Seq(Drafts)
    BY <1>2, <1>7 DEF Shaped, DraftInv
  <2>2. Shaped(Request("write", Kept(r.worlds \o revisions)))
    <3>1. /\ Kept(r.worlds \o revisions) \in Seq(Drafts)
          /\ Len(Kept(r.worlds \o revisions)) \in 1 .. MaxRevisions
      BY <1>3, <2>1, KeptShape
    <3>2. QED
      BY <3>1, RequestShape DEF Ops
  <2>3. Queue(requests')
    BY <1>2, <1>7, <2>2, Queued
  <2>4. UNCHANGED <<edited, stale, ready, draft, revisions, listed, timer, wiped>>
    BY <1>1, <1>7 DEF storeVars
  <2>5. QED
    BY <2>3, <2>4 DEF DraftInv, Queue
<1>8. CASE /\ r.op = "write" /\ revisions' = r.worlds /\ listed' = r.worlds
           /\ requests' = rest /\ UNCHANGED <<edited, stale, ready, draft>>
  <2>1. Len(r.worlds) <= MaxRevisions
    BY <1>2, <1>8, DraftAssumption DEF Shaped
  <2>2. QED
    BY <1>1, <1>2, <1>3, <1>8, <2>1 DEF DraftInv, Queue
<1>9. CASE /\ r.op = "write"
           /\ requests' = Append(rest, IF Len(r.worlds) = 1 THEN Request("drop", <<EmptyWorld>>)
                                       ELSE Request("write", Shortened(r.worlds)))
           /\ UNCHANGED <<edited, stale, ready, storeVars, listed>>
  <2>1. Shaped(Request("drop", <<EmptyWorld>>))
    BY OneWorld, RequestShape, DraftAssumption DEF Ops
  <2>2. ASSUME Len(r.worlds) # 1  PROVE Shaped(Request("write", Shortened(r.worlds)))
    <3>1. Len(r.worlds) \in 1 .. MaxRevisions
      BY <1>2, <1>9 DEF Shaped
    <3>2. /\ Shortened(r.worlds) \in Seq(Drafts)
          /\ Len(Shortened(r.worlds)) \in 1 .. MaxRevisions
      BY <1>3, <2>2, <3>1, ShortenedShape
    <3>3. QED
      BY <3>2, RequestShape DEF Ops
  <2>3. Queue(requests')
    BY <1>2, <1>9, <2>1, <2>2, Queued
  <2>4. UNCHANGED <<edited, stale, ready, draft, revisions, listed, timer, wiped>>
    BY <1>1, <1>9 DEF storeVars
  <2>5. QED
    BY <2>3, <2>4 DEF DraftInv, Queue
<1>10. CASE /\ r.op = "drop" /\ revisions' = << >>
            /\ listed' = IF r.worlds = << >> THEN listed ELSE << >>
            /\ requests' = rest /\ UNCHANGED <<edited, stale, ready, draft>>
  BY <1>1, <1>2, <1>10, NoWorlds DEF DraftInv, Queue
<1>11. QED
  BY <1>4, <1>5, <1>6, <1>7, <1>8, <1>9, <1>10 DEF Perform

LEMMA DraftPreserves ==
  ASSUME DraftInv, [DraftNext]_draftVars  PROVE DraftInv'
<1>1. CASE DraftNext
  BY <1>1, PersonStep, PerformStep DEF DraftNext, Background
<1>2. CASE UNCHANGED draftVars
  BY <1>2 DEF DraftInv, draftVars, storeVars
<1>3. QED
  BY <1>1, <1>2

\* The types of the drafts: a request always carries what its answer takes of it,
\* and there are never more revisions than are kept.
THEOREM DraftTypesHold == DraftSpec => []DraftTypeOK
<1>1. DraftInit => DraftInv
  BY DraftStart
<1>2. DraftInv /\ [DraftNext]_draftVars => DraftInv'
  BY DraftPreserves
<1>3. DraftInv => DraftTypeOK
  BY DraftTypes
<1>4. QED
  BY <1>1, <1>2, <1>3, PTL DEF DraftSpec

(***************************************************************************)
(* Publishing                                                              *)
(***************************************************************************)

\* Of the PUTs: the one that has written a file has left it whole, and the one
\* that has created it has left it there.
PutsLeave == \A p \in Puts :
  /\ put[p] \in {Closed, Fine} => FileOf(p) = Whole
  /\ put[p] = Opened => FileOf(p) # Nothing

\* A publication that has not begun to upload has sent nothing, and one that has
\* sent nothing has left no file.
NothingEarly == \A i \in Ids :
  /\ client[i] \in {Idle, Asking} => \A p \in Puts : p[1] = i => put[p] = Unsent
  /\ (\E t \in Targets : file[<<i, t>>] # Nothing) => \E p \in Puts : p[1] = i /\ put[p] # Unsent

\* Reservations are of the file system, and an upload to it has a meta file.
Reservations ==
  /\ reserved # {} => Local
  /\ \A i \in Ids : Local /\ client[i] \in {Uploading, Published} => i \in meta

\* While both files exist, somebody is still to look whether they do.
TidyAhead == \A i \in reserved \ died :
  (\A t \in Targets : file[<<i, t>>] # Nothing)
    => \E p \in Puts : p[1] = i /\ put[p] \in {Opened, Closed}

PublishInv ==
  /\ PublishTypeOK /\ PutsLeave /\ NothingEarly /\ Reservations /\ TidyAhead
  /\ PublishedIsWhole

\* The stages of a file, of a PUT and of publishWorld are different.
StagesOfPublishing ==
  /\ Nothing = 0 /\ Part = 1 /\ Whole = 2
  /\ Unsent = 0 /\ Sent = 1 /\ Admitted = 2 /\ Opened = 3 /\ Closed = 4 /\ Fine = 5
  /\ Refused = 6
  /\ Idle = 0 /\ Asking = 1 /\ Uploading = 2 /\ Published = 3 /\ Failed = 4

LEMMA PublishStages == StagesOfPublishing
BY DEF StagesOfPublishing, Nothing, Part, Whole, Unsent, Sent, Admitted, Opened, Closed,
   Fine, Refused, Idle, Asking, Uploading, Published, Failed

-----------------------------------------------------------------------------

LEMMA PublishStart ==
  ASSUME PublishInit  PROVE PublishInv
<1> USE PublishStages DEF StagesOfPublishing, PublishInit
<1>1. PublishTypeOK
  BY DEF PublishTypeOK
<1>2. PutsLeave
  BY DEF PutsLeave
<1>3. NothingEarly
  BY DEF NothingEarly
<1>4. Reservations /\ TidyAhead
  BY DEF Reservations, TidyAhead
<1>5. PublishedIsWhole
  BY DEF PublishedIsWhole
<1>6. QED
  BY <1>1, <1>2, <1>3, <1>4, <1>5 DEF PublishInv

\* Where no file and no PUT changes, and no reservation is made.
LEMMA ClientStep ==
  ASSUME PublishInv, NEW i \in Ids,
         Ask(i) \/ NoReservation(i) \/ Expire(i) \/ Succeed(i) \/ Fail(i)
  PROVE  PublishInv'
<1> USE PublishStages DEF StagesOfPublishing, PublishInv
<1>1. /\ UNCHANGED <<kind, reserved, file, put, died>>
      /\ client \in [Ids -> Idle .. Failed]
      /\ client' \in [Ids -> Idle .. Failed]
      /\ meta \subseteq meta' /\ meta' \subseteq Ids /\ late' \subseteq Ids
      /\ \A j \in Ids \ {i} : client'[j] = client[j]
  BY DEF Ask, NoReservation, Expire, Succeed, Fail, PublishTypeOK
<1>2. PublishTypeOK'
  BY <1>1 DEF PublishTypeOK
<1>3. PutsLeave' /\ TidyAhead'
  BY <1>1 DEF PutsLeave, TidyAhead, FileOf
<1>4. NothingEarly'
  <2>1. client'[i] \in {Idle, Asking} => client[i] \in {Idle, Asking}
    BY <1>1 DEF Ask, NoReservation, Expire, Succeed, Fail
  <2>2. QED
    BY <1>1, <2>1 DEF NothingEarly
<1>5. Reservations'
  <2>1. client'[i] \in {Uploading, Published} => client[i] \in {Uploading, Published}
    BY <1>1 DEF Ask, NoReservation, Expire, Succeed, Fail
  <2>2. Local' = Local
    BY <1>1 DEF Local
  <2>3. QED
    BY <1>1, <2>1, <2>2 DEF Reservations
<1>6. PublishedIsWhole'
  <2>1. CASE client'[i] = Published /\ client[i] # Published
    <3>1. Succeed(i)
      BY <1>1, <2>1 DEF Ask, NoReservation, Expire, Succeed, Fail
    <3>2. ASSUME NEW t \in Targets PROVE file[<<i, t>>] = Whole
      <4>1. PICK n \in Tries : put[<<i, t, n>>] = Fine
        BY <3>1 DEF Succeed, Heard
      <4>2. <<i, t, n>> \in Puts /\ FileOf(<<i, t, n>>) = file[<<i, t>>]
        BY DEF Puts, FileOf
      <4>3. QED
        BY <4>1, <4>2 DEF PutsLeave
    <3>3. Local => i \in meta
      BY <3>1 DEF Succeed, Reservations
    <3>4. QED
      BY <1>1, <3>2, <3>3 DEF PublishedIsWhole, Local
  <2>2. CASE ~(client'[i] = Published /\ client[i] # Published)
    BY <1>1, <2>2 DEF PublishedIsWhole, Local
  <2>3. QED
    BY <2>1, <2>2
<1>7. QED
  BY <1>2, <1>3, <1>4, <1>5, <1>6

\* A reservation is made before anything is sent.
LEMMA ReserveStep ==
  ASSUME PublishInv, NEW i \in Ids, Reserve(i)  PROVE PublishInv'
<1> USE PublishStages DEF StagesOfPublishing, PublishInv
<1>1. /\ UNCHANGED <<kind, meta, late, file, put, client, died>> /\ Local /\ i \in meta
      /\ reserved' = reserved \cup {i} /\ \A p \in Puts : p[1] = i => put[p] = Unsent
  BY DEF Reserve
<1>2. PublishTypeOK' /\ PutsLeave' /\ NothingEarly' /\ Reservations' /\ PublishedIsWhole'
  BY <1>1 DEF PublishTypeOK, PutsLeave, FileOf, NothingEarly, Reservations,
     PublishedIsWhole, Local
<1>3. TidyAhead'
  <2>1. \A t \in Targets : file[<<i, t>>] = Nothing
    BY <1>1 DEF NothingEarly
  <2>2. QED
    BY <1>1, <2>1 DEF TidyAhead, Targets
<1>4. QED
  BY <1>2, <1>3

LEMMA BeginStep ==
  ASSUME PublishInv, NEW i \in Ids, Begin(i)  PROVE PublishInv'
<1> USE PublishStages DEF StagesOfPublishing, PublishInv
<1>1. /\ UNCHANGED <<kind, meta, reserved, late, file, died>>
      /\ client[i] = Asking /\ client' = [client EXCEPT ![i] = Uploading]
      /\ Local => i \in reserved
      /\ put' = [p \in Puts |-> IF p[1] = i /\ p[3] = 1 THEN Sent ELSE put[p]]
  BY DEF Begin
<1>2. /\ client \in [Ids -> Idle .. Failed] /\ put \in [Puts -> Unsent .. Refused]
      /\ \A p \in Puts : p[1] = i => put[p] = Unsent
  BY <1>1 DEF PublishTypeOK, NothingEarly
<1>3. PublishTypeOK'
  BY <1>1, <1>2 DEF PublishTypeOK
<1>4. \A p \in Puts : put'[p] \notin {Unsent, Sent} \/ put[p] \notin {Unsent, Sent}
                        => put'[p] = put[p]
  BY <1>1, <1>2
<1>5. PutsLeave' /\ TidyAhead'
  BY <1>1, <1>4 DEF PutsLeave, FileOf, TidyAhead
<1>6. NothingEarly'
  BY <1>1, <1>2, <1>4 DEF NothingEarly
<1>7. Reservations' /\ PublishedIsWhole'
  BY <1>1, <1>2 DEF Reservations, PublishedIsWhole, Local, PublishTypeOK
<1>8. QED
  BY <1>3, <1>5, <1>6, <1>7

-----------------------------------------------------------------------------
\* The handling of a PUT

\* A PUT goes on, and files are not touched.
LEMMA QuietPut ==
  ASSUME PublishInv, NEW p \in Puts, NEW from \in Unsent .. Refused,
         NEW to \in (Unsent .. Refused) \ {Unsent, Opened},
         Step(p, from, to), from # Unsent \/ client[p[1]] \notin {Idle, Asking},
         to \in {Closed, Fine} => FileOf(p) = Whole,
         UNCHANGED <<kind, meta, late, file, client>>,
         died \subseteq died' /\ died' \subseteq Ids,
         reserved' \subseteq reserved,
         from \in {Opened, Closed} /\ to # Closed =>
           p[1] \in died' \/ p[1] \notin reserved' \/ ~Consumed(p[1])
  PROVE  PublishInv'
<1> USE PublishStages DEF StagesOfPublishing, PublishInv
<1>1. /\ put \in [Puts -> Unsent .. Refused] /\ put[p] = from
      /\ put' \in [Puts -> Unsent .. Refused] /\ put'[p] = to
      /\ \A q \in Puts \ {p} : put'[q] = put[q]
      /\ p[1] \in Ids
  BY DEF Step, PublishTypeOK, Puts
<1>2. PublishTypeOK'
  BY <1>1 DEF PublishTypeOK
<1>3. PutsLeave'
  BY <1>1 DEF PutsLeave, FileOf
<1>4. NothingEarly'
  BY <1>1 DEF NothingEarly
<1>5. Reservations' /\ PublishedIsWhole'
  BY <1>1 DEF Reservations, PublishedIsWhole, Local
<1>6. TidyAhead'
  <2> SUFFICES ASSUME NEW i \in reserved' \ died', \A t \in Targets : file[<<i, t>>] # Nothing
               PROVE  \E q \in Puts : q[1] = i /\ put'[q] \in {Opened, Closed}
    BY DEF TidyAhead
  <2>1. PICK q \in Puts : q[1] = i /\ put[q] \in {Opened, Closed}
    BY DEF TidyAhead
  <2>2. CASE q # p
    BY <1>1, <2>1, <2>2
  <2>3. CASE q = p
    <3>1. Consumed(p[1])
      BY <2>1, <2>3 DEF Consumed
    <3>2. to = Closed
      BY <1>1, <2>1, <2>3, <3>1
    <3>3. QED
      BY <1>1, <2>1, <2>3, <3>2
  <2>4. QED
    BY <2>2, <2>3
<1>7. QED
  BY <1>2, <1>3, <1>4, <1>5, <1>6

LEMMA ResendStep ==
  ASSUME PublishInv, NEW p \in Puts, Resend(p)  PROVE PublishInv'
<1> USE PublishStages DEF StagesOfPublishing
<1>1. /\ Step(p, Unsent, Sent) /\ client[p[1]] = Uploading
      /\ UNCHANGED <<kind, meta, reserved, late, file, client, died>>
  BY DEF Resend
<1>2. died' \subseteq Ids
  BY <1>1 DEF PublishInv, PublishTypeOK
<1>3. QED
  BY <1>1, <1>2, QuietPut

LEMMA AdmitStep ==
  ASSUME PublishInv, NEW p \in Puts, Admit(p)  PROVE PublishInv'
<1> USE PublishStages DEF StagesOfPublishing
<1>1. /\ Step(p, Sent, Admitted) \/ Step(p, Sent, Refused)
      /\ UNCHANGED <<kind, meta, reserved, late, file, client, died>>
  BY DEF Admit
<1>2. died' \subseteq Ids
  BY <1>1 DEF PublishInv, PublishTypeOK
<1>3. QED
  BY <1>1, <1>2, QuietPut

LEMMA TidyStep ==
  ASSUME PublishInv, NEW p \in Puts, Tidy(p)  PROVE PublishInv'
<1> USE PublishStages DEF StagesOfPublishing
<1>1. /\ Step(p, Closed, Fine)
      /\ reserved' = IF Consumed(p[1]) THEN reserved \ {p[1]} ELSE reserved
      /\ UNCHANGED <<kind, meta, late, file, client, died>>
  BY DEF Tidy
<1>2. died' \subseteq Ids /\ FileOf(p) = Whole
  BY <1>1 DEF PublishInv, PublishTypeOK, PutsLeave, Step
<1>3. QED
  BY <1>1, <1>2, QuietPut

LEMMA DieStep ==
  ASSUME PublishInv, NEW p \in Puts, Die(p)  PROVE PublishInv'
<1> USE PublishStages DEF StagesOfPublishing
<1>1. /\ put[p] \in {Admitted, Opened, Closed} /\ Step(p, put[p], Refused)
      /\ died' = died \cup {p[1]} /\ p[1] \in Ids
      /\ UNCHANGED <<kind, meta, reserved, late, file, client>>
  BY DEF Die, Puts
<1>2. died' \subseteq Ids
  BY <1>1 DEF PublishInv, PublishTypeOK
<1>3. QED
  BY <1>1, <1>2, QuietPut

\* A PUT creates or writes its file.
LEMMA WritingPut ==
  ASSUME PublishInv, NEW p \in Puts, NEW from \in {Sent, Admitted, Opened},
         NEW to \in {Opened, Closed, Fine}, NEW what \in {Part, Whole},
         Step(p, from, to), Put(p, what),
         what = Part => to = Opened /\ FileOf(p) = Nothing,
         to = Fine => ~Local,
         UNCHANGED <<kind, meta, reserved, late, client, died>>
  PROVE  PublishInv'
<1> USE PublishStages DEF StagesOfPublishing, PublishInv
<1>1. /\ put \in [Puts -> Unsent .. Refused] /\ put[p] = from
      /\ put' \in [Puts -> Unsent .. Refused] /\ put'[p] = to
      /\ \A q \in Puts \ {p} : put'[q] = put[q]
  BY DEF Step, PublishTypeOK
<1> DEFINE f == <<p[1], p[2]>>
<1>2. /\ f \in Ids \X Targets /\ p[1] \in Ids /\ p[2] \in Targets /\ FileOf(p) = file[f]
      /\ file \in [Ids \X Targets -> {Nothing, Part, Whole}]
      /\ file' = [file EXCEPT ![f] = what]
  BY DEF Puts, FileOf, Put, PublishTypeOK
<1>3. /\ file' \in [Ids \X Targets -> {Nothing, Part, Whole}] /\ file'[f] = what
      /\ \A g \in Ids \X Targets : g # f => file'[g] = file[g]
      /\ \A g \in Ids \X Targets : file[g] = Whole => file'[g] = Whole
      /\ \A g \in Ids \X Targets : file[g] # Nothing => file'[g] # Nothing
  BY <1>2
<1>4. \A q \in Puts : /\ <<q[1], q[2]>> \in Ids \X Targets
                      /\ FileOf(q) = file[<<q[1], q[2]>>]
                      /\ FileOf(q)' = file'[<<q[1], q[2]>>]
  BY DEF Puts, FileOf
<1>5. \A i \in Ids, t \in Targets : /\ <<i, t>> \in Ids \X Targets
                                    /\ file[<<i, t>>] = file[<<i, t>>]
                                    /\ file'[<<i, t>>] = file'[<<i, t>>]
  OBVIOUS
<1> HIDE DEF f
<1>6. PublishTypeOK'
  BY <1>1, <1>3 DEF PublishTypeOK
<1>7. PutsLeave'
  <2>1. ASSUME NEW q \in Puts, q # p
        PROVE  /\ put'[q] \in {Closed, Fine} => FileOf(q)' = Whole
               /\ put'[q] = Opened => FileOf(q)' # Nothing
    <3>1. /\ put[q] \in {Closed, Fine} => FileOf(q) = Whole
          /\ put[q] = Opened => FileOf(q) # Nothing
          /\ put'[q] = put[q]
      BY <1>1, <2>1 DEF PutsLeave
    <3>2. /\ FileOf(q) = Whole => FileOf(q)' = Whole
          /\ FileOf(q) # Nothing => FileOf(q)' # Nothing
      <4>1. PICK g \in Ids \X Targets : FileOf(q) = file[g] /\ FileOf(q)' = file'[g]
        BY <1>4
      <4>2. QED
        BY <1>3, <4>1
    <3>3. QED
      BY <3>1, <3>2
  <2>2. /\ to \in {Closed, Fine} => FileOf(p)' = Whole
        /\ FileOf(p)' # Nothing
    BY <1>3, <1>4 DEF f
  <2>3. QED
    BY <1>1, <2>1, <2>2 DEF PutsLeave
<1>8. NothingEarly'
  <2>1. put[p] # Unsent /\ put'[p] # Unsent
    BY <1>1
  <2>2. \A q \in Puts : put[q] # Unsent <=> put'[q] # Unsent
    BY <1>1, <2>1
  <2>3. ASSUME NEW i \in Ids, NEW t \in Targets, file'[<<i, t>>] # Nothing
        PROVE  \E q \in Puts : q[1] = i /\ put'[q] # Unsent
    <3>1. CASE <<i, t>> = f
      <4>1. p[1] = i
        BY <3>1 DEF f
      <4>2. QED
        BY <2>1, <4>1
    <3>2. CASE <<i, t>> # f
      <4>1. file[<<i, t>>] # Nothing
        BY <1>3, <1>5, <2>3, <3>2
      <4>2. QED
        BY <2>2, <4>1 DEF NothingEarly
    <3>3. QED
      BY <3>1, <3>2
  <2>4. QED
    BY <2>2, <2>3 DEF NothingEarly
<1>9. Reservations'
  BY DEF Reservations, Local
<1>10. PublishedIsWhole'
  BY <1>3, <1>5 DEF PublishedIsWhole, Local
<1>11. TidyAhead'
  <2> SUFFICES ASSUME NEW i \in reserved \ died, \A t \in Targets : file'[<<i, t>>] # Nothing
               PROVE  \E q \in Puts : q[1] = i /\ put'[q] \in {Opened, Closed}
    BY DEF TidyAhead
  <2>1. i \in Ids /\ Local
    BY DEF PublishTypeOK, Reservations
  <2>2. put'[p] \in {Opened, Closed}
    BY <1>1, <2>1
  <2>3. CASE p[1] = i
    BY <2>2, <2>3
  <2>4. CASE p[1] # i
    <3>1. \A t \in Targets : file[<<i, t>>] # Nothing
      BY <1>3, <1>5, <2>1, <2>4 DEF f
    <3>2. PICK q \in Puts : q[1] = i /\ put[q] \in {Opened, Closed}
      BY <3>1 DEF TidyAhead
    <3>3. QED
      BY <1>1, <2>4, <3>2
  <2>5. QED
    BY <2>3, <2>4
<1>12. QED
  BY <1>6, <1>7, <1>8, <1>9, <1>10, <1>11

LEMMA OpenStep ==
  ASSUME PublishInv, NEW p \in Puts, Open(p)  PROVE PublishInv'
<1> USE PublishStages DEF StagesOfPublishing
<1>1. UNCHANGED <<kind, meta, reserved, late, client, died>>
  BY DEF Open
<1>2. CASE Creates(p)
  <2>1. Step(p, Admitted, Opened) /\ Put(p, Part) /\ FileOf(p) = Nothing
    BY <1>2 DEF Open, Creates
  <2>2. QED
    BY <1>1, <2>1, WritingPut
<1>3. CASE ~Creates(p)
  <2>1. Step(p, Admitted, Refused) /\ UNCHANGED file
    BY <1>3 DEF Open
  <2>2. died' \subseteq Ids
    BY <1>1 DEF PublishInv, PublishTypeOK
  <2>3. QED
    BY <1>1, <2>1, <2>2, QuietPut
<1>4. QED
  BY <1>2, <1>3

LEMMA CloseStep ==
  ASSUME PublishInv, NEW p \in Puts, Close(p)  PROVE PublishInv'
<1> USE PublishStages DEF StagesOfPublishing
<1>1. /\ UNCHANGED <<kind, meta, reserved, late, client, died>>
      /\ Step(p, Opened, Closed) /\ Put(p, Whole)
  BY DEF Close
<1>2. QED
  BY <1>1, WritingPut

LEMMA StoreStep ==
  ASSUME PublishInv, NEW p \in Puts, Store(p)  PROVE PublishInv'
<1> USE PublishStages DEF StagesOfPublishing
<1>1. UNCHANGED <<kind, meta, reserved, late, client, died>> /\ ~Local
  BY DEF Store
<1>2. CASE Step(p, Sent, Fine) /\ Put(p, Whole)
  BY <1>1, <1>2, WritingPut
<1>3. CASE Step(p, Sent, Refused) /\ UNCHANGED file
  <2>1. died' \subseteq Ids
    BY <1>1 DEF PublishInv, PublishTypeOK
  <2>2. QED
    BY <1>1, <1>3, <2>1, QuietPut
<1>4. QED
  BY <1>2, <1>3 DEF Store

LEMMA PublishPreserves ==
  ASSUME PublishInv, [PublishNext]_publishVars  PROVE PublishInv'
<1>1. CASE PublishNext
  BY <1>1, ClientStep, ReserveStep, BeginStep, ResendStep, AdmitStep, OpenStep, CloseStep,
     TidyStep, DieStep, StoreStep DEF PublishNext, Handle
<1>2. CASE UNCHANGED publishVars
  <2>1. UNCHANGED <<kind, meta, reserved, late, file, put, client, died>>
    BY <1>2 DEF publishVars
  <2>2. PublishTypeOK' /\ PutsLeave' /\ NothingEarly'
    BY <2>1 DEF PublishInv, PublishTypeOK, PutsLeave, FileOf, NothingEarly
  <2>3. Reservations' /\ TidyAhead' /\ PublishedIsWhole'
    BY <2>1 DEF PublishInv, Reservations, TidyAhead, PublishedIsWhole, Local
  <2>4. QED
    BY <2>2, <2>3 DEF PublishInv
<1>3. QED
  BY <1>1, <1>2

\* The inductive invariant of publishing
THEOREM PublishInvariance == PublishSpec => []PublishInv
<1>1. PublishInit => PublishInv
  BY PublishStart
<1>2. PublishInv /\ [PublishNext]_publishVars => PublishInv'
  BY PublishPreserves
<1>3. QED
  BY <1>1, <1>2, PTL DEF PublishSpec

\* However often a PUT is sent, and whenever a handler dies or a client gives
\* up: a world recorded as published is there, whole, with its screenshot.
THEOREM PublishedStaysWhole == PublishSpec => []PublishedIsWhole
<1>1. PublishInv => PublishedIsWhole
  BY DEF PublishInv
<1>2. QED
  BY <1>1, PublishInvariance, PTL

LEMMA TidiedWhenLanded == PublishInv => LandedIsConsumed
<1> SUFFICES ASSUME PublishInv, NEW i \in Ids \ died, i \in reserved,
                    \A t \in Targets : file[<<i, t>>] = Whole
             PROVE  Busy(i)
  BY DEF LandedIsConsumed
<1>1. \E p \in Puts : p[1] = i /\ put[p] \in {Opened, Closed}
  BY PublishStages DEF PublishInv, TidyAhead, StagesOfPublishing
<1>2. QED
  BY <1>1, PublishStages DEF Busy, StagesOfPublishing

\* Of two uploads that end side by side, one takes the reservation away.
THEOREM ReservationsAreConsumed == PublishSpec => []LandedIsConsumed
  BY TidiedWhenLanded, PublishInvariance, PTL

(***************************************************************************)
(* Chats                                                                   *)
(***************************************************************************)

\* A turn is of one chat, wherever there is a message of it.
OfOwner(o, ms) == \A m \in ms : m.turn <= turns /\ m.of = o[m.turn]

OwnedBy(o) ==
  /\ OfOwner(o, messages) /\ OfOwner(o, runs)
  /\ \A c \in Chats : OfOwner(o, stored[c])
  /\ \A k \in 1 .. Len(waiting) : OfOwner(o, waiting[k].messages)

TurnsOwned == \E o \in [1 .. MaxTurns -> Chats] : OwnedBy(o)

\* What is loaded is the chat shown, and a request carries messages of its chat.
OneChat ==
  /\ loaded \subseteq {chat} /\ (messages # {} => loaded = {chat})
  /\ OwnMessages
  /\ \A k \in 1 .. Len(waiting) :
       /\ \A m \in waiting[k].messages : m.of = waiting[k].of
       /\ waiting[k].op = "load" /\ waiting[k].live => waiting[k].of = chat

\* The requests of the chat shown; the last one carries what is shown.
Pending(op) == {k \in 1 .. Len(waiting) : waiting[k].op = op /\ waiting[k].of = chat}

LastHolds(op) == \A k \in Pending(op) :
  (\A j \in Pending(op) : j <= k) => waiting[k].messages = messages

\* What is shown is in the last read, or else in the last write, or else stored
\* unless that write has failed.
SavedInOrder == ~unsaved /\ messages # {} =>
  /\ LastHolds("read")
  /\ Pending("read") = {} => LastHolds("write")
  /\ Pending("read") = {} /\ Pending("write") = {} /\ chat \notin failed
       => stored[chat] = messages

ChatInv == ChatTypeOK /\ OneChat /\ TurnsOwned /\ SavedInOrder

-----------------------------------------------------------------------------
\* Requests

\* What is asked of a request is unchanged by its turning from a read into a write.
LEMMA RequestFields ==
  ASSUME NEW w \in Waiting
  PROVE  /\ w.op \in {"load", "read", "write"} /\ w.of \in Chats
         /\ w.messages \subseteq Message /\ w.live \in BOOLEAN
         /\ [w EXCEPT !.op = "write"] \in Waiting
         /\ [w EXCEPT !.op = "write"].op = "write"
         /\ [w EXCEPT !.op = "write"].of = w.of
         /\ [w EXCEPT !.op = "write"].messages = w.messages
         /\ [w EXCEPT !.live = FALSE] \in Waiting
         /\ [w EXCEPT !.live = FALSE].op = w.op
         /\ [w EXCEPT !.live = FALSE].of = w.of
         /\ [w EXCEPT !.live = FALSE].messages = w.messages
         /\ [w EXCEPT !.live = FALSE].live = FALSE
BY DEF Waiting

\* The requests, by their places.
LEMMA Requests ==
  ASSUME ChatTypeOK
  PROVE  /\ Len(waiting) \in Nat /\ DOMAIN waiting = 1 .. Len(waiting)
         /\ \A k \in 1 .. Len(waiting) : waiting[k] \in Waiting
BY ElementOfSeq, LenProperties DEF ChatTypeOK

\* Cancelling a turn leaves which turns run, and of which chats.
LEMMA AbortedRuns ==
  ASSUME ChatTypeOK, NEW t
  PROVE  /\ Aborted(t) \subseteq [of : Chats, turn : 1 .. MaxTurns, aborted : BOOLEAN]
         /\ \A r \in Aborted(t) : \E s \in runs : s.of = r.of /\ s.turn = r.turn
<1> DEFINE Run == [of : Chats, turn : 1 .. MaxTurns, aborted : BOOLEAN]
<1>1. ASSUME NEW r \in Aborted(t)
      PROVE  r \in Run /\ \E s \in runs : s.of = r.of /\ s.turn = r.turn
  <2>1. PICK s \in runs : r = IF s.turn = t THEN [s EXCEPT !.aborted = TRUE] ELSE s
    BY DEF Aborted
  <2>2. s \in Run
    BY DEF ChatTypeOK
  <2>3. [s EXCEPT !.aborted = TRUE] \in Run
    BY <2>2
  <2>4. [s EXCEPT !.aborted = TRUE].of = s.of /\ [s EXCEPT !.aborted = TRUE].turn = s.turn
    BY <2>2
  <2>5. r \in Run /\ s.of = r.of /\ s.turn = r.turn
    BY <2>1, <2>2, <2>3, <2>4
  <2>6. QED
    BY <2>5
<1>2. QED
  BY <1>1

\* A request at the end of the queue.
LEMMA OneMore ==
  ASSUME ChatTypeOK, NEW w \in Waiting
  PROVE  /\ waiting \o <<w>> \in Seq(Waiting)
         /\ Len(waiting \o <<w>>) = Len(waiting) + 1
         /\ \A k \in 1 .. Len(waiting) : (waiting \o <<w>>)[k] = waiting[k]
         /\ (waiting \o <<w>>)[Len(waiting) + 1] = w
<1>1. <<w>> \in Seq(Waiting) /\ Len(<<w>>) = 1 /\ <<w>>[1] = w
  OBVIOUS
<1>2. waiting \in Seq(Waiting) /\ Len(waiting) \in Nat
  BY Requests DEF ChatTypeOK
<1>3. QED
  BY <1>1, <1>2, ConcatProperties

-----------------------------------------------------------------------------

\* The turns remain owned when nothing is said of a turn that was not said before.
LEMMA OwnersRemain ==
  ASSUME ChatInv, turns' = turns, UNCHANGED <<messages, stored>>,
         \A r \in runs' : \E s \in runs : s.of = r.of /\ s.turn = r.turn,
         \A k \in 1 .. Len(waiting') :
           \A m \in waiting'[k].messages :
             \/ m \in messages
             \/ \E j \in 1 .. Len(waiting) : m \in waiting[j].messages
  PROVE  TurnsOwned'
<1>1. PICK o \in [1 .. MaxTurns -> Chats] : OwnedBy(o)
  BY DEF ChatInv, TurnsOwned
<1>2. OwnedBy(o)'
  BY <1>1 DEF OwnedBy, OfOwner
<1>3. QED
  BY <1>2 DEF TurnsOwned

LEMMA ChatStart ==
  ASSUME ChatInit  PROVE ChatInv
<1> DEFINE w == [op |-> "load", of |-> chat, messages |-> {}, live |-> TRUE]
<1>1. /\ chat \in Chats /\ loaded = {} /\ messages = {} /\ streaming = FALSE
      /\ runs = {} /\ current = 0 /\ unsaved = FALSE /\ turns = 0 /\ waiting = <<w>>
      /\ stored = [c \in Chats |-> {}] /\ failed = {}
  BY DEF ChatInit
<1>2. w \in Waiting /\ w.messages = {} /\ w.of = chat
  BY <1>1 DEF Waiting
<1> HIDE DEF w
<1>3. waiting \in Seq(Waiting) /\ Len(waiting) = 1 /\ waiting[1] = w
  BY <1>1, <1>2
<1>4. ChatTypeOK
  <2>1. /\ chat \in Chats /\ loaded \subseteq Chats /\ messages \subseteq Message
        /\ streaming \in BOOLEAN /\ unsaved \in BOOLEAN
        /\ runs \subseteq [of : Chats, turn : 1 .. MaxTurns, aborted : BOOLEAN]
        /\ waiting \in Seq(Waiting) /\ stored \in [Chats -> SUBSET Message]
        /\ failed \subseteq Chats
    BY <1>1, <1>3
  <2>2. turns \in 0 .. MaxTurns /\ current \in 0 .. turns /\ current = 0
    BY <1>1, ChatAssumption
  <2>3. QED
    BY <2>1, <2>2 DEF ChatTypeOK
<1>5. OneChat
  BY <1>1, <1>2, <1>3 DEF OneChat, OwnMessages
<1>6. TurnsOwned
  <2>1. [n \in 1 .. MaxTurns |-> chat] \in [1 .. MaxTurns -> Chats]
    BY <1>1
  <2>2. \A o \in [1 .. MaxTurns -> Chats] : OwnedBy(o)
    BY <1>1, <1>2, <1>3 DEF OwnedBy, OfOwner
  <2>3. QED
    BY <2>1, <2>2 DEF TurnsOwned
<1>7. SavedInOrder
  BY <1>1 DEF SavedInOrder
<1>8. QED
  BY <1>4, <1>5, <1>6, <1>7 DEF ChatInv

LEMMA ChooseStep ==
  ASSUME ChatInv, NEW c \in Chats, Choose(c)  PROVE ChatInv'
<1> DEFINE quiet == [k \in DOMAIN waiting |-> [waiting[k] EXCEPT !.live = FALSE]]
           w == [op |-> "load", of |-> c, messages |-> {}, live |-> TRUE]
<1> USE DEF ChatInv
<1>1. /\ c # chat /\ chat' = c /\ loaded' = {} /\ messages' = {} /\ streaming' = FALSE
      /\ runs' = Aborted(current) /\ current' = 0 /\ unsaved' = FALSE
      /\ UNCHANGED <<stored, failed, turns>>
      /\ waiting' = quiet \o <<w>> \o StoreRequest(c)
  BY DEF Choose
<1>2. StoreRequest(c) = << >>
  BY <1>1 DEF StoreRequest, Stores, OneChat
<1>3. PICK n \in Nat : /\ n = Len(waiting) /\ DOMAIN waiting = 1 .. n
                       /\ \A k \in 1 .. n : waiting[k] \in Waiting
  BY Requests
<1>4. /\ quiet \in Seq(Waiting) /\ Len(quiet) = n
      /\ \A k \in 1 .. n : quiet[k] = [waiting[k] EXCEPT !.live = FALSE]
  <2>1. \A k \in 1 .. n : [waiting[k] EXCEPT !.live = FALSE] \in Waiting
    BY <1>3, RequestFields
  <2>2. quiet \in [1 .. n -> Waiting]
    BY <1>3, <2>1
  <2>3. quiet \in Seq(Waiting)
    BY <2>2, SeqDef
  <2>4. \A k \in 1 .. n : quiet[k] = [waiting[k] EXCEPT !.live = FALSE]
    BY <1>3
  <2> HIDE DEF quiet
  <2>5. Len(quiet) = n
    BY <2>2, <2>3, LenProperties
  <2>6. QED
    BY <2>3, <2>4, <2>5
<1>5. w \in Waiting /\ w.messages = {} /\ w.of = c
  BY DEF Waiting
<1> HIDE DEF quiet, w
<1>6. <<w>> \in Seq(Waiting) /\ Len(<<w>>) = 1 /\ <<w>>[1] = w
  BY <1>5
<1>7. /\ quiet \o <<w>> \in Seq(Waiting) /\ Len(quiet \o <<w>>) = n + 1
      /\ \A k \in 1 .. n : (quiet \o <<w>>)[k] = [waiting[k] EXCEPT !.live = FALSE]
      /\ (quiet \o <<w>>)[n + 1] = w
  BY <1>3, <1>4, <1>6, ConcatProperties
<1>8. waiting' = quiet \o <<w>>
  BY <1>1, <1>2, <1>7, ConcatEmptySeq
<1>9. /\ waiting' \in Seq(Waiting) /\ Len(waiting') = n + 1 /\ waiting'[n + 1] = w
      /\ \A k \in 1 .. n : /\ waiting'[k].op = waiting[k].op
                           /\ waiting'[k].of = waiting[k].of
                           /\ waiting'[k].messages = waiting[k].messages
                           /\ waiting'[k].live = FALSE
  <2>1. /\ waiting' \in Seq(Waiting) /\ Len(waiting') = n + 1 /\ waiting'[n + 1] = w
        /\ \A k \in 1 .. n : waiting'[k] = [waiting[k] EXCEPT !.live = FALSE]
    BY <1>7, <1>8
  <2>2. ASSUME NEW k \in 1 .. n
        PROVE  /\ waiting'[k].op = waiting[k].op
               /\ waiting'[k].of = waiting[k].of
               /\ waiting'[k].messages = waiting[k].messages
               /\ waiting'[k].live = FALSE
    <3>1. waiting[k] \in Waiting /\ waiting'[k] = [waiting[k] EXCEPT !.live = FALSE]
      BY <1>3, <2>1
    <3>2. QED
      BY <3>1, RequestFields
  <2>3. QED
    BY <2>1, <2>2
<1>10. /\ runs' \subseteq [of : Chats, turn : 1 .. MaxTurns, aborted : BOOLEAN]
       /\ \A r \in runs' : \E s \in runs : s.of = r.of /\ s.turn = r.turn
  BY <1>1, AbortedRuns
<1>11. ChatTypeOK'
  <2>1. /\ chat' \in Chats /\ loaded' \subseteq Chats /\ messages' \subseteq Message
        /\ streaming' \in BOOLEAN /\ unsaved' \in BOOLEAN
        /\ runs' \subseteq [of : Chats, turn : 1 .. MaxTurns, aborted : BOOLEAN]
        /\ waiting' \in Seq(Waiting) /\ stored' \in [Chats -> SUBSET Message]
        /\ failed' \subseteq Chats
    BY <1>1, <1>9, <1>10 DEF ChatTypeOK
  <2>2. turns' \in 0 .. MaxTurns /\ current' \in 0 .. turns' /\ current' = 0
    BY <1>1, ChatAssumption DEF ChatTypeOK
  <2>3. QED
    BY <2>1, <2>2 DEF ChatTypeOK
<1>12. \A k \in 1 .. Len(waiting') : k \in 1 .. n \/ k = n + 1
  BY <1>3, <1>9
<1>13. OneChat'
  <2>1. OwnMessages'
    BY <1>1 DEF OneChat, OwnMessages
  <2>2. QED
    <3>1. ASSUME NEW k \in 1 .. Len(waiting')
          PROVE  /\ \A m \in waiting'[k].messages : m.of = waiting'[k].of
                 /\ waiting'[k].live => waiting'[k].of = c
      <4>1. CASE k \in 1 .. n
        BY <1>3, <1>9, <4>1 DEF OneChat
      <4>2. CASE k = n + 1
        BY <1>5, <1>9, <4>2
      <4>3. QED
        BY <1>12, <4>1, <4>2
    <3>2. QED
      BY <1>1, <2>1, <3>1 DEF OneChat
<1>14. TurnsOwned'
  <2>1. PICK o \in [1 .. MaxTurns -> Chats] : OwnedBy(o)
    BY DEF TurnsOwned
  <2>2. OwnedBy(o)'
    <3>1. ASSUME NEW k \in 1 .. Len(waiting')  PROVE OfOwner(o, waiting'[k].messages)
      <4>1. CASE k \in 1 .. n
        BY <1>3, <1>9, <2>1, <4>1 DEF OwnedBy
      <4>2. CASE k = n + 1
        BY <1>5, <1>9, <4>2 DEF OfOwner
      <4>3. QED
        BY <1>12, <4>1, <4>2
    <3>2. OfOwner(o, runs')
      BY <1>10, <2>1 DEF OwnedBy, OfOwner
    <3>3. QED
      BY <1>1, <2>1, <3>1, <3>2 DEF OwnedBy, OfOwner
  <2>3. QED
    BY <2>2 DEF TurnsOwned
<1>15. SavedInOrder'
  BY <1>1 DEF SavedInOrder
<1>16. QED
  BY <1>11, <1>13, <1>14, <1>15

\* The messages change by what the user or a turn of the chat shown does, so that
\* they are unsaved.
LEMMA TakeStep ==
  ASSUME ChatInv, NEW kept \in 0 .. MaxTurns, Take(kept)  PROVE ChatInv'
<1> DEFINE m0 == [of |-> chat, turn |-> turns + 1, done |-> FALSE]
           r0 == [of |-> chat, turn |-> turns + 1, aborted |-> FALSE]
<1> USE DEF ChatInv
<1>1. /\ loaded = {chat} /\ turns < MaxTurns /\ turns' = turns + 1
      /\ messages' = {m \in messages : m.turn <= kept} \cup {m0}
      /\ streaming' = TRUE /\ current' = turns + 1 /\ unsaved' = TRUE
      /\ runs' = runs \cup {r0} /\ UNCHANGED <<chat, loaded, waiting, stored, failed>>
  BY DEF Take
<1>2. /\ m0 \in Message /\ m0.of = chat /\ m0.turn = turns + 1
      /\ r0 \in [of : Chats, turn : 1 .. MaxTurns, aborted : BOOLEAN]
      /\ r0.of = chat /\ r0.turn = turns + 1
      /\ MaxTurns \in Nat /\ turns \in 0 .. MaxTurns
  BY <1>1, ChatAssumption DEF ChatTypeOK, Message
<1> HIDE DEF m0, r0
<1>3. messages' \subseteq messages \cup {m0}
  BY <1>1
<1>4. ChatTypeOK'
  <2>1. /\ chat' \in Chats /\ loaded' \subseteq Chats /\ messages' \subseteq Message
        /\ streaming' \in BOOLEAN /\ unsaved' \in BOOLEAN
        /\ runs' \subseteq [of : Chats, turn : 1 .. MaxTurns, aborted : BOOLEAN]
        /\ waiting' \in Seq(Waiting) /\ stored' \in [Chats -> SUBSET Message]
        /\ failed' \subseteq Chats
    BY <1>1, <1>2 DEF ChatTypeOK
  <2>2. turns' \in 0 .. MaxTurns /\ current' \in 0 .. turns'
    BY <1>1, <1>2
  <2>3. \E r \in runs' : r.turn = current'
    BY <1>1, <1>2
  <2>4. QED
    BY <2>1, <2>2, <2>3 DEF ChatTypeOK
<1>5. OneChat'
  BY <1>1, <1>2, <1>3 DEF OneChat, OwnMessages
<1>6. TurnsOwned'
  <2>1. PICK o \in [1 .. MaxTurns -> Chats] : OwnedBy(o)
    BY DEF TurnsOwned
  <2>2. PICK p \in [1 .. MaxTurns -> Chats] :
          p[turns + 1] = chat /\ \A n \in 1 .. MaxTurns : n <= turns => p[n] = o[n]
    <3>1. /\ [o EXCEPT ![turns + 1] = chat] \in [1 .. MaxTurns -> Chats]
          /\ [o EXCEPT ![turns + 1] = chat][turns + 1] = chat
          /\ \A n \in 1 .. MaxTurns : n <= turns => [o EXCEPT ![turns + 1] = chat][n] = o[n]
      BY <1>1, <1>2 DEF ChatTypeOK
    <3>2. QED
      BY <3>1
  <2>3. ASSUME NEW ms, OfOwner(o, ms), \A m \in ms : m.turn \in 1 .. MaxTurns
        PROVE  \A m \in ms : m.turn <= turns' /\ m.of = p[m.turn]
    BY <1>1, <1>2, <2>2, <2>3 DEF OfOwner
  <2>4. \A ms \in SUBSET Message : OfOwner(o, ms) => OfOwner(p, ms)'
    BY <2>3 DEF OfOwner, Message
  <2>5. OfOwner(p, messages)' /\ OfOwner(p, runs)'
    <3>1. \A m \in messages : m.turn <= turns' /\ m.of = p[m.turn]
      BY <2>1, <2>3 DEF OwnedBy, ChatTypeOK, Message
    <3>2. \A m \in runs : m.turn <= turns' /\ m.of = p[m.turn]
      BY <2>1, <2>3 DEF OwnedBy, ChatTypeOK
    <3>3. QED
      BY <1>1, <1>2, <1>3, <2>2, <3>1, <3>2 DEF OfOwner
  <2>6. /\ \A c \in Chats : OfOwner(p, stored[c])'
        /\ \A k \in 1 .. Len(waiting') : OfOwner(p, waiting[k].messages)'
    <3>1. \A c \in Chats : stored[c] \in SUBSET Message
      BY DEF ChatTypeOK
    <3>2. \A k \in 1 .. Len(waiting) : waiting[k].messages \in SUBSET Message
      BY Requests, RequestFields
    <3>3. QED
      BY <1>1, <2>1, <2>4, <3>1, <3>2 DEF OwnedBy, OfOwner
  <2>7. QED
    BY <2>2, <2>5, <2>6 DEF TurnsOwned, OwnedBy
<1>7. SavedInOrder'
  BY <1>1 DEF SavedInOrder
<1>8. QED
  BY <1>4, <1>5, <1>6, <1>7

LEMMA SetMessagesStep ==
  ASSUME ChatInv, NEW kept \in 0 .. MaxTurns, SetMessages(kept)  PROVE ChatInv'
<1> USE DEF ChatInv
<1>1. /\ messages' \subseteq messages /\ unsaved' = TRUE
      /\ UNCHANGED <<chat, loaded, streaming, runs, current, waiting, stored, failed, turns>>
  BY DEF SetMessages
<1>2. ChatTypeOK'
  BY <1>1 DEF ChatTypeOK
<1>3. OneChat'
  BY <1>1 DEF OneChat, OwnMessages
<1>4. TurnsOwned'
  <2>1. PICK o \in [1 .. MaxTurns -> Chats] : OwnedBy(o)
    BY DEF TurnsOwned
  <2>2. OwnedBy(o)'
    BY <1>1, <2>1 DEF OwnedBy, OfOwner
  <2>3. QED
    BY <2>2 DEF TurnsOwned
<1>5. SavedInOrder'
  BY <1>1 DEF SavedInOrder
<1>6. QED
  BY <1>2, <1>3, <1>4, <1>5

LEMMA StopStep ==
  ASSUME ChatInv, Stop  PROVE ChatInv'
<1> USE DEF ChatInv
<1>1. /\ current' = 0 /\ runs' = Aborted(current)
      /\ UNCHANGED <<chat, loaded, messages, streaming, unsaved, waiting, stored, failed, turns>>
  BY DEF Stop
<1>2. /\ runs' \subseteq [of : Chats, turn : 1 .. MaxTurns, aborted : BOOLEAN]
      /\ \A r \in runs' : \E s \in runs : s.of = r.of /\ s.turn = r.turn
  BY <1>1, AbortedRuns
<1>3. ChatTypeOK'
  <2>1. current' \in 0 .. turns' /\ current' = 0
    BY <1>1, ChatAssumption DEF ChatTypeOK
  <2>2. QED
    BY <1>1, <1>2, <2>1 DEF ChatTypeOK
<1>4. OneChat' /\ SavedInOrder'
  BY <1>1 DEF OneChat, OwnMessages, SavedInOrder, LastHolds, Pending
<1>5. TurnsOwned'
  BY <1>1, <1>2, OwnersRemain
<1>6. QED
  BY <1>3, <1>4, <1>5

\* The answer is found by its turn, and the turn is of the chat shown.
LEMMA UpdateStep ==
  ASSUME ChatInv, NEW r \in runs, Update(r)  PROVE ChatInv'
<1> DEFINE m0 == [of |-> r.of, turn |-> r.turn, done |-> TRUE]
<1> USE DEF ChatInv
<1>1. /\ messages' = {m \in messages : m.turn # r.turn} \cup {m0} /\ unsaved' = TRUE
      /\ UNCHANGED <<chat, loaded, streaming, runs, current, waiting, stored, failed, turns>>
      /\ \E m \in messages : m.turn = r.turn
  BY DEF Update, Found
<1>2. PICK o \in [1 .. MaxTurns -> Chats] : OwnedBy(o)
  BY DEF TurnsOwned
<1>3. r.of = chat /\ loaded = {chat}
  BY <1>1, <1>2 DEF OwnedBy, OfOwner, OneChat, OwnMessages
<1>4. m0 \in Message /\ m0.of = r.of /\ m0.turn = r.turn
  BY DEF ChatTypeOK, Message
<1> HIDE DEF m0
<1>5. messages' \subseteq messages \cup {m0}
  BY <1>1
<1>6. ChatTypeOK'
  BY <1>1, <1>4, <1>5 DEF ChatTypeOK
<1>7. OneChat'
  BY <1>1, <1>3, <1>4, <1>5 DEF OneChat, OwnMessages
<1>8. TurnsOwned'
  <2>1. OwnedBy(o)'
    BY <1>1, <1>2, <1>4, <1>5 DEF OwnedBy, OfOwner
  <2>2. QED
    BY <2>1 DEF TurnsOwned
<1>9. SavedInOrder'
  BY <1>1 DEF SavedInOrder
<1>10. QED
  BY <1>6, <1>7, <1>8, <1>9

LEMMA FinishStep ==
  ASSUME ChatInv, NEW r \in runs, Finish(r)  PROVE ChatInv'
<1> USE DEF ChatInv
<1>1. /\ runs' = runs \ {r} /\ streaming' = FALSE
      /\ current' = IF current = r.turn THEN 0 ELSE current
      /\ UNCHANGED <<chat, loaded, messages, unsaved, waiting, stored, failed, turns>>
  BY DEF Finish
<1>2. ChatTypeOK'
  <2>1. current' \in 0 .. turns'
    BY <1>1, ChatAssumption DEF ChatTypeOK
  <2>2. current' # 0 => \E s \in runs' : s.turn = current'
    BY <1>1 DEF ChatTypeOK
  <2>3. QED
    BY <1>1, <2>1, <2>2 DEF ChatTypeOK
<1>3. OneChat' /\ SavedInOrder'
  BY <1>1 DEF OneChat, OwnMessages, SavedInOrder, LastHolds, Pending
<1>4. TurnsOwned'
  BY <1>1, OwnersRemain
<1>5. QED
  BY <1>2, <1>3, <1>4

-----------------------------------------------------------------------------
\* Renders and the storage

\* What is shown joins the queue, as its last read.
LEMMA PersistStep ==
  ASSUME ChatInv, Persist  PROVE ChatInv'
<1> DEFINE w == [op |-> "read", of |-> chat, messages |-> messages, live |-> TRUE]
<1> USE DEF ChatInv
<1>1. /\ unsaved' = FALSE /\ waiting' = waiting \o StoreRequest(chat)
      /\ UNCHANGED <<chat, loaded, messages, streaming, runs, current, stored, failed, turns>>
  BY DEF Persist
<1>2. CASE Stores(chat)
  <2>1. PICK n \in Nat : n = Len(waiting)
    BY Requests
  <2>2. PICK v \in Waiting : /\ v.op = "read" /\ v.of = chat /\ v.messages = messages
                             /\ waiting' = waiting \o <<v>>
    <3>1. /\ w \in Waiting /\ w.op = "read" /\ w.of = chat /\ w.messages = messages
      BY DEF Waiting, ChatTypeOK
    <3>2. waiting' = waiting \o <<w>>
      BY <1>1, <1>2 DEF StoreRequest
    <3>3. QED
      BY <3>1, <3>2
  <2>3. /\ waiting' \in Seq(Waiting) /\ Len(waiting') = n + 1 /\ waiting'[n + 1] = v
        /\ \A k \in 1 .. n : waiting'[k] = waiting[k]
    BY <2>1, <2>2, OneMore
  <2>4. \A k \in 1 .. Len(waiting') : k \in 1 .. n \/ k = n + 1
    BY <2>3
  <2>5. ChatTypeOK'
    BY <1>1, <2>3 DEF ChatTypeOK
  <2>6. OneChat'
    <3>1. ASSUME NEW k \in 1 .. Len(waiting')
          PROVE  /\ \A m \in waiting'[k].messages : m.of = waiting'[k].of
                 /\ waiting'[k].op = "load" /\ waiting'[k].live => waiting'[k].of = chat
      <4>1. CASE k \in 1 .. n
        BY <2>1, <2>3, <4>1 DEF OneChat
      <4>2. CASE k = n + 1
        BY <2>2, <2>3, <4>2 DEF OneChat, OwnMessages
      <4>3. QED
        BY <2>4, <4>1, <4>2
    <3>2. QED
      BY <1>1, <3>1 DEF OneChat, OwnMessages
  <2>7. TurnsOwned'
    <3>1. ASSUME NEW k \in 1 .. Len(waiting'), NEW m \in waiting'[k].messages
          PROVE  \/ m \in messages
                 \/ \E j \in 1 .. Len(waiting) : m \in waiting[j].messages
      <4>1. CASE k \in 1 .. n
        BY <2>1, <2>3, <4>1
      <4>2. CASE k = n + 1
        BY <2>2, <2>3, <4>2
      <4>3. QED
        BY <2>4, <4>1, <4>2
    <3>2. QED
      BY <1>1, <3>1, OwnersRemain
  <2>8. SavedInOrder'
    <3>1. n + 1 \in Pending("read")'
      BY <1>1, <2>2, <2>3 DEF Pending
    <3>2. ASSUME NEW k \in Pending("read")', \A j \in Pending("read")' : j <= k
          PROVE  waiting'[k].messages = messages'
      <4>1. k = n + 1
        BY <2>4, <3>1, <3>2 DEF Pending
      <4>2. QED
        BY <1>1, <2>2, <2>3, <4>1
    <3>3. QED
      BY <3>1, <3>2 DEF SavedInOrder, LastHolds
  <2>9. QED
    BY <2>5, <2>6, <2>7, <2>8
<1>3. CASE ~Stores(chat)
  <2>1. waiting' = waiting
    BY <1>1, <1>3, ConcatEmptySeq DEF StoreRequest, ChatTypeOK
  <2>2. messages' = {}
    BY <1>1, <1>3 DEF Stores, OneChat
  <2>3. ChatTypeOK' /\ OneChat'
    BY <1>1, <2>1 DEF ChatTypeOK, OneChat, OwnMessages
  <2>4. TurnsOwned'
    BY <1>1, <2>1, OwnersRemain
  <2>5. SavedInOrder'
    BY <2>2 DEF SavedInOrder
  <2>6. QED
    BY <2>3, <2>4, <2>5
<1>4. QED
  BY <1>2, <1>3

\* The storage takes the request at the head; the others move up.
LEMMA OneLess ==
  ASSUME ChatTypeOK, waiting # << >>
  PROVE  /\ Head(waiting) \in Waiting /\ Head(waiting) = waiting[1]
         /\ Len(waiting) \in Nat /\ Len(waiting) >= 1
         /\ Tail(waiting) \in Seq(Waiting) /\ Len(Tail(waiting)) = Len(waiting) - 1
         /\ \A k \in 1 .. Len(waiting) - 1 : Tail(waiting)[k] = waiting[k + 1]
<1>1. waiting \in Seq(Waiting)
  BY DEF ChatTypeOK
<1>2. QED
  BY <1>1, HeadTailProperties, EmptySeq

\* The requests that stay, by their new places.
MovedUp(n) == \A k \in 1 .. n - 1 : waiting'[k] = waiting[k + 1]

LEMMA PendingMovedUp ==
  ASSUME NEW n \in Nat, n = Len(waiting), MovedUp(n), Len(waiting') \in {n - 1, n}, chat' = chat,
         NEW op, n >= 1
  PROVE  \A k \in 1 .. n - 1 : k \in Pending(op)' <=> k + 1 \in Pending(op)
BY DEF MovedUp, Pending

LEMMA MessagesMovedUp ==
  ASSUME ChatInv, NEW n \in Nat, n = Len(waiting), MovedUp(n), n >= 1,
         Len(waiting') = n - 1 \/ (/\ Len(waiting') = n
                                   /\ waiting'[n].messages = waiting[1].messages)
  PROVE  \A k \in 1 .. Len(waiting') :
           \E j \in 1 .. Len(waiting) : waiting'[k].messages = waiting[j].messages
<1>1. ASSUME NEW k \in 1 .. n - 1
      PROVE  k + 1 \in 1 .. n /\ waiting'[k].messages = waiting[k + 1].messages
  BY DEF MovedUp
<1>2. 1 \in 1 .. n
  OBVIOUS
<1>3. \A k \in 1 .. Len(waiting') : k \in 1 .. n - 1 \/ (k = n /\ Len(waiting') = n)
  OBVIOUS
<1>4. QED
  BY <1>1, <1>2, <1>3

\* Where no request of a kind is added, the last of them stays the last.
LEMMA LastMovesUp ==
  ASSUME NEW n \in Nat, n = Len(waiting), n >= 1, MovedUp(n), Len(waiting') \in {n - 1, n},
         UNCHANGED <<chat, messages>>, NEW op, Pending(op)' \subseteq 1 .. n - 1, LastHolds(op)
  PROVE  LastHolds(op)'
<1> SUFFICES ASSUME NEW k \in Pending(op)', \A j \in Pending(op)' : j <= k
             PROVE  waiting'[k].messages = messages
  BY DEF LastHolds
<1>1. k \in 1 .. n - 1 /\ k + 1 \in Pending(op) /\ waiting'[k] = waiting[k + 1]
  BY PendingMovedUp DEF MovedUp
<1>2. ASSUME NEW j \in Pending(op)  PROVE j <= k + 1
  <2>1. j \in 1 .. n
    BY DEF Pending
  <2>2. CASE j = 1
    BY <1>1, <2>2
  <2>3. CASE j # 1
    <3>1. j - 1 \in 1 .. n - 1 /\ (j - 1) + 1 = j
      BY <2>1, <2>3
    <3>2. j - 1 \in Pending(op)'
      BY <3>1, PendingMovedUp
    <3>3. QED
      BY <1>1, <3>1, <3>2
  <2>4. QED
    BY <2>2, <2>3
<1>3. QED
  BY <1>1, <1>2 DEF LastHolds

\* And when none of them is left, there was one at most, at the head.
LEMMA NoneMovesUp ==
  ASSUME NEW n \in Nat, n = Len(waiting), n >= 1, MovedUp(n), Len(waiting') \in {n - 1, n},
         chat' = chat, NEW op, Pending(op)' = {}
  PROVE  Pending(op) \subseteq {1}
<1> SUFFICES ASSUME NEW j \in Pending(op), j # 1 PROVE FALSE
  OBVIOUS
<1>1. j - 1 \in 1 .. n - 1 /\ (j - 1) + 1 = j
  BY DEF Pending
<1>2. QED
  BY <1>1, PendingMovedUp

\* A request of another kind, or of another chat, leaves the order of the saves.
LEMMA OthersServed ==
  ASSUME ChatInv, NEW n \in Nat, n = Len(waiting), n >= 1, MovedUp(n), Len(waiting') = n - 1,
         waiting[1].op \notin {"read", "write"} \/ waiting[1].of # chat,
         UNCHANGED <<chat, messages, unsaved>>, stored'[chat] = stored[chat],
         chat \in failed => chat \in failed'
  PROVE  SavedInOrder'
<1> SUFFICES ASSUME ~unsaved, messages # {}
             PROVE  /\ LastHolds("read")'
                    /\ Pending("read")' = {} => LastHolds("write")'
                    /\ Pending("read")' = {} /\ Pending("write")' = {} /\ chat \notin failed'
                         => stored'[chat] = messages
  BY DEF SavedInOrder
<1>1. ASSUME NEW op \in {"read", "write"}
      PROVE  /\ LastHolds(op) => LastHolds(op)'
             /\ Pending(op)' = {} => Pending(op) = {}
  <2>1. 1 \notin Pending(op) /\ Pending(op)' \subseteq 1 .. n - 1
    BY DEF Pending
  <2>2. QED
    BY <2>1, LastMovesUp, NoneMovesUp
<1>2. /\ LastHolds("read") /\ (Pending("read") = {} => LastHolds("write"))
      /\ Pending("read") = {} /\ Pending("write") = {} /\ chat \notin failed
           => stored[chat] = messages
  BY DEF ChatInv, SavedInOrder
<1>3. "read" \in {"read", "write"} /\ "write" \in {"read", "write"}
  OBVIOUS
<1>4. QED
  BY <1>1, <1>2, <1>3

LEMMA LoadStep ==
  ASSUME ChatInv, waiting # << >>, Head(waiting).op = "load", waiting' = Tail(waiting),
         IF Wanted(Head(waiting))
         THEN /\ messages' \in {stored[Head(waiting).of], {}}
              /\ loaded' = {Head(waiting).of} /\ unsaved' = TRUE
         ELSE UNCHANGED <<messages, loaded, unsaved>>,
         UNCHANGED <<stored, failed, chat, streaming, runs, current, turns>>
  PROVE  ChatInv'
<1> USE DEF ChatInv
<1>1. PICK n \in Nat : /\ n = Len(waiting) /\ n >= 1 /\ Len(waiting') = n - 1
                       /\ waiting' \in Seq(Waiting) /\ MovedUp(n)
                       /\ Head(waiting) = waiting[1] /\ waiting[1] \in Waiting
  BY OneLess DEF MovedUp
<1>2. PICK o \in [1 .. MaxTurns -> Chats] : OwnedBy(o)
  BY DEF TurnsOwned
<1>3. \A k \in 1 .. Len(waiting') :
        \E j \in 1 .. Len(waiting) : waiting'[k].messages = waiting[j].messages
  BY <1>1, MessagesMovedUp
<1>4. \A k \in 1 .. Len(waiting') :
        /\ \A m \in waiting'[k].messages : m.of = waiting'[k].of
        /\ waiting'[k].op = "load" /\ waiting'[k].live => waiting'[k].of = chat
  <2>1. ASSUME NEW k \in 1 .. n - 1  PROVE k + 1 \in 1 .. n /\ waiting'[k] = waiting[k + 1]
    BY <1>1 DEF MovedUp
  <2>2. QED
    BY <1>1, <2>1 DEF OneChat
<1>5. CASE Wanted(Head(waiting))
  <2>1. waiting[1].of = chat
    BY <1>1, <1>5 DEF OneChat, Wanted
  <2>2. /\ messages' \in {stored[chat], {}} /\ loaded' = {chat} /\ unsaved' = TRUE
        /\ UNCHANGED <<stored, failed, chat, streaming, runs, current, turns>>
    BY <1>1, <1>5, <2>1
  <2>3. chat \in Chats /\ stored[chat] \subseteq Message
    BY DEF ChatTypeOK
  <2>4. ChatTypeOK'
    BY <1>1, <2>2, <2>3 DEF ChatTypeOK
  <2>5. OneChat'
    BY <1>4, <2>2, <2>3 DEF OneChat, OwnMessages
  <2>6. TurnsOwned'
    <3>1. OwnedBy(o)'
      BY <1>2, <1>3, <2>2, <2>3 DEF OwnedBy, OfOwner
    <3>2. QED
      BY <3>1 DEF TurnsOwned
  <2>7. SavedInOrder'
    BY <2>2 DEF SavedInOrder
  <2>8. QED
    BY <2>4, <2>5, <2>6, <2>7
<1>6. CASE ~Wanted(Head(waiting))
  <2>1. UNCHANGED <<messages, loaded, unsaved, stored, failed, chat, streaming, runs, current,
                    turns>>
    BY <1>6
  <2>2. ChatTypeOK'
    BY <1>1, <2>1 DEF ChatTypeOK
  <2>3. OneChat'
    BY <1>4, <2>1 DEF OneChat, OwnMessages
  <2>4. TurnsOwned'
    <3>1. OwnedBy(o)'
      BY <1>2, <1>3, <2>1 DEF OwnedBy, OfOwner
    <3>2. QED
      BY <3>1 DEF TurnsOwned
  <2>5. SavedInOrder'
    BY <1>1, <2>1, OthersServed DEF SavedInOrder
  <2>6. QED
    BY <2>2, <2>3, <2>4, <2>5
<1>7. QED
  BY <1>5, <1>6

\* The read of a save becomes its write, at the end of the queue.
LEMMA ReadStep ==
  ASSUME ChatInv, waiting # << >>, Head(waiting).op = "read",
         waiting' = Append(Tail(waiting), [Head(waiting) EXCEPT !.op = "write"]),
         UNCHANGED <<messages, loaded, unsaved, stored, failed, chat, streaming, runs, current,
                    turns>>
  PROVE  ChatInv'
<1> USE DEF ChatInv
<1>1. PICK n \in Nat : /\ n = Len(waiting) /\ n >= 1 /\ Len(Tail(waiting)) = n - 1
                       /\ Tail(waiting) \in Seq(Waiting)
                       /\ \A k \in 1 .. n - 1 : Tail(waiting)[k] = waiting[k + 1]
                       /\ Head(waiting) = waiting[1] /\ waiting[1] \in Waiting
  BY OneLess
<1>2. PICK w \in Waiting : /\ w.op = "write" /\ w.of = waiting[1].of
                           /\ w.messages = waiting[1].messages
                           /\ waiting' = Append(Tail(waiting), w)
  BY <1>1, RequestFields
<1>3. /\ waiting' \in Seq(Waiting) /\ Len(waiting') = n /\ waiting'[n] = w /\ MovedUp(n)
  <2>1. /\ waiting' \in Seq(Waiting) /\ Len(waiting') = n /\ waiting'[n] = w
        /\ \A k \in 1 .. n - 1 : waiting'[k] = Tail(waiting)[k]
    BY <1>1, <1>2, AppendProperties
  <2>2. QED
    BY <1>1, <2>1 DEF MovedUp
<1>4. ChatTypeOK'
  BY <1>3 DEF ChatTypeOK
<1>5. OneChat'
  <2>1. ASSUME NEW k \in 1 .. n
        PROVE  /\ \A m \in waiting'[k].messages : m.of = waiting'[k].of
               /\ waiting'[k].op = "load" /\ waiting'[k].live => waiting'[k].of = chat
    <3>1. CASE k = n
      BY <1>1, <1>2, <1>3, <3>1 DEF OneChat
    <3>2. CASE k # n
      <4>1. k + 1 \in 1 .. n /\ waiting'[k] = waiting[k + 1]
        BY <1>3, <3>2 DEF MovedUp
      <4>2. QED
        BY <1>1, <4>1 DEF OneChat
    <3>3. QED
      BY <3>1, <3>2
  <2>2. QED
    BY <1>3, <2>1 DEF OneChat, OwnMessages
<1>6. TurnsOwned'
  <2>1. PICK o \in [1 .. MaxTurns -> Chats] : OwnedBy(o)
    BY DEF TurnsOwned
  <2>2. \A k \in 1 .. Len(waiting') :
          \E j \in 1 .. Len(waiting) : waiting'[k].messages = waiting[j].messages
    BY <1>1, <1>2, <1>3, MessagesMovedUp
  <2>3. OwnedBy(o)'
    BY <2>1, <2>2 DEF OwnedBy, OfOwner
  <2>4. QED
    BY <2>3 DEF TurnsOwned
<1>7. SavedInOrder'
  <2> SUFFICES ASSUME ~unsaved, messages # {}
               PROVE  /\ LastHolds("read")'
                      /\ Pending("read")' = {} => LastHolds("write")'
                      /\ Pending("read")' = {} /\ Pending("write")' = {} /\ chat \notin failed
                           => stored[chat] = messages
    BY DEF SavedInOrder
  <2>1. /\ LastHolds("read") /\ (Pending("read") = {} => LastHolds("write"))
        /\ Pending("read") = {} /\ Pending("write") = {} /\ chat \notin failed
             => stored[chat] = messages
    BY DEF SavedInOrder
  <2>2. Pending("read")' \subseteq 1 .. n - 1 /\ 1 \notin Pending("write")
    BY <1>1, <1>2, <1>3 DEF Pending
  <2>3. LastHolds("read")'
    BY <1>1, <1>3, <2>1, <2>2, LastMovesUp
  <2>4. CASE w.of = chat
    <3>1. n \in Pending("write")' /\ Pending("write")' \subseteq 1 .. n
      <4>1. waiting'[n].op = "write" /\ waiting'[n].of = chat' /\ Len(waiting') = n
        BY <1>2, <1>3, <2>4
      <4>2. n \in 1 .. n
        BY <1>1
      <4>3. QED
        BY <4>1, <4>2 DEF Pending
    <3>2. ASSUME Pending("read")' = {}  PROVE LastHolds("write")'
      <4>1. Pending("read") = {1}
        <5>1. Pending("read") \subseteq {1}
          BY <1>1, <1>3, <3>2, NoneMovesUp
        <5>2. 1 \in Pending("read")
          <6>1. waiting[1].op = "read" /\ waiting[1].of = chat
            BY <1>1, <1>2, <2>4
          <6>2. 1 \in 1 .. Len(waiting)
            BY <1>1
          <6>3. QED
            BY <6>1, <6>2 DEF Pending
        <5>3. QED
          BY <5>1, <5>2
      <4>2. waiting[1].messages = messages
        BY <2>1, <4>1 DEF LastHolds
      <4>3. ASSUME NEW k \in Pending("write")', \A j \in Pending("write")' : j <= k
            PROVE  waiting'[k].messages = messages'
        <5>1. k = n
          BY <3>1, <4>3
        <5>2. QED
          BY <1>2, <1>3, <4>2, <5>1
      <4>4. QED
        BY <4>3 DEF LastHolds
    <3>3. QED
      BY <2>3, <3>1, <3>2
  <2>5. CASE w.of # chat
    <3>1. Pending("write")' \subseteq 1 .. n - 1 /\ 1 \notin Pending("read")
      BY <1>1, <1>2, <1>3, <2>5 DEF Pending
    <3>2. \A op : Pending(op)' = {} => Pending(op) \subseteq {1}
      BY <1>1, <1>3, NoneMovesUp
    <3>3. /\ Pending("read")' = {} => Pending("read") = {}
          /\ Pending("write")' = {} => Pending("write") = {}
      BY <2>2, <3>1, <3>2
    <3>4. LastHolds("write") => LastHolds("write")'
      BY <1>1, <1>3, <3>1, LastMovesUp
    <3>5. QED
      BY <2>1, <2>3, <3>3, <3>4
  <2>6. QED
    BY <2>4, <2>5
<1>8. QED
  BY <1>4, <1>5, <1>6, <1>7

\* Once the write at the head is served, the saves of the chat shown that are left
\* are in order.
LEMMA SavesServed ==
  ASSUME ChatInv, NEW n \in Nat, n = Len(waiting), n >= 1, MovedUp(n), Len(waiting') = n - 1,
         waiting[1].op = "write", UNCHANGED <<chat, messages, unsaved>>,
         ~unsaved /\ messages # {} /\ Pending("read") = {} /\ Pending("write") = {1}
           /\ chat \notin failed' => stored'[chat] = messages,
         1 \in Pending("write")
  PROVE  SavedInOrder'
<1> SUFFICES ASSUME ~unsaved, messages # {}
             PROVE  /\ LastHolds("read")'
                    /\ Pending("read")' = {} => LastHolds("write")'
                    /\ Pending("read")' = {} /\ Pending("write")' = {} /\ chat \notin failed'
                         => stored'[chat] = messages
  BY DEF SavedInOrder
<1>1. /\ LastHolds("read") /\ (Pending("read") = {} => LastHolds("write"))
  BY DEF ChatInv, SavedInOrder
<1>2. \A op : Pending(op)' \subseteq 1 .. n - 1
  BY DEF Pending
<1>3. LastHolds("read")' /\ (LastHolds("write") => LastHolds("write")')
  BY <1>1, <1>2, LastMovesUp
<1>4. Pending("read")' = {} => Pending("read") = {}
  <2>1. 1 \notin Pending("read")
    BY DEF Pending
  <2>2. QED
    BY <2>1, NoneMovesUp
<1>5. Pending("write")' = {} => Pending("write") = {1}
  BY NoneMovesUp
<1>6. QED
  BY <1>1, <1>3, <1>4, <1>5

\* A write stores what it carries.
LEMMA WrittenStep ==
  ASSUME ChatInv, waiting # << >>, Head(waiting).op = "write", waiting' = Tail(waiting),
         stored' = [stored EXCEPT ![Head(waiting).of] = Head(waiting).messages],
         failed' = failed \ {Head(waiting).of},
         UNCHANGED <<messages, loaded, unsaved, chat, streaming, runs, current, turns>>
  PROVE  ChatInv'
<1> USE DEF ChatInv
<1>1. PICK n \in Nat : /\ n = Len(waiting) /\ n >= 1 /\ Len(waiting') = n - 1
                       /\ waiting' \in Seq(Waiting) /\ MovedUp(n)
                       /\ Head(waiting) = waiting[1] /\ waiting[1] \in Waiting
  BY OneLess DEF MovedUp
<1>2. waiting[1].of \in Chats /\ waiting[1].messages \subseteq Message
  BY <1>1, RequestFields
<1>3. /\ stored \in [Chats -> SUBSET Message]
      /\ stored' = [stored EXCEPT ![waiting[1].of] = waiting[1].messages]
  BY <1>1 DEF ChatTypeOK
<1>4. /\ stored' \in [Chats -> SUBSET Message]
      /\ stored'[waiting[1].of] = waiting[1].messages
      /\ \A c \in Chats : c # waiting[1].of => stored'[c] = stored[c]
  BY <1>2, <1>3
<1>5. ChatTypeOK'
  BY <1>1, <1>4 DEF ChatTypeOK
<1>6. OneChat'
  <2>1. ASSUME NEW k \in 1 .. n - 1  PROVE k + 1 \in 1 .. n /\ waiting'[k] = waiting[k + 1]
    BY <1>1 DEF MovedUp
  <2>2. \A k \in 1 .. Len(waiting') :
          /\ \A m \in waiting'[k].messages : m.of = waiting'[k].of
          /\ waiting'[k].op = "load" /\ waiting'[k].live => waiting'[k].of = chat
    BY <1>1, <2>1 DEF OneChat
  <2>3. \A m \in waiting[1].messages : m.of = waiting[1].of
    BY <1>1 DEF OneChat
  <2>4. ASSUME NEW c \in Chats  PROVE \A m \in stored'[c] : m.of = c
    BY <1>4, <2>3 DEF OneChat, OwnMessages
  <2>5. QED
    BY <2>2, <2>4 DEF OneChat, OwnMessages
<1>7. TurnsOwned'
  <2>1. PICK o \in [1 .. MaxTurns -> Chats] : OwnedBy(o)
    BY DEF TurnsOwned
  <2>2. \A k \in 1 .. Len(waiting') :
          \E j \in 1 .. Len(waiting) : waiting'[k].messages = waiting[j].messages
    BY <1>1, MessagesMovedUp
  <2>3. OfOwner(o, waiting[1].messages)
    BY <1>1, <2>1 DEF OwnedBy
  <2>4. \A c \in Chats : OfOwner(o, stored'[c])
    BY <1>4, <2>1, <2>3 DEF OwnedBy
  <2>5. OwnedBy(o)'
    BY <2>1, <2>2, <2>4 DEF OwnedBy, OfOwner
  <2>6. QED
    BY <2>5 DEF TurnsOwned
<1>8. SavedInOrder'
  <2>1. CASE waiting[1].of # chat
    <3>1. stored'[chat] = stored[chat]
      BY <1>4, <2>1 DEF ChatTypeOK
    <3>2. QED
      BY <1>1, <2>1, <3>1, OthersServed
  <2>2. CASE waiting[1].of = chat
    <3>1. 1 \in Pending("write")
      BY <1>1, <2>2 DEF Pending
    <3>2. ASSUME ~unsaved, messages # {}, Pending("read") = {}, Pending("write") = {1}
          PROVE  stored'[chat] = messages
      <4>1. waiting[1].messages = messages
        BY <3>2 DEF SavedInOrder, LastHolds
      <4>2. QED
        BY <1>4, <2>2, <4>1
    <3>3. QED
      BY <1>1, <3>1, <3>2, SavesServed
  <2>3. QED
    BY <2>1, <2>2
<1>9. QED
  BY <1>5, <1>6, <1>7, <1>8

\* A write that fails leaves what is stored.
LEMMA FailedStep ==
  ASSUME ChatInv, waiting # << >>, Head(waiting).op = "write", waiting' = Tail(waiting),
         UNCHANGED stored, failed' = failed \cup {Head(waiting).of},
         UNCHANGED <<messages, loaded, unsaved, chat, streaming, runs, current, turns>>
  PROVE  ChatInv'
<1> USE DEF ChatInv
<1>1. PICK n \in Nat : /\ n = Len(waiting) /\ n >= 1 /\ Len(waiting') = n - 1
                       /\ waiting' \in Seq(Waiting) /\ MovedUp(n)
                       /\ Head(waiting) = waiting[1] /\ waiting[1] \in Waiting
  BY OneLess DEF MovedUp
<1>2. ChatTypeOK'
  <2>1. waiting[1].of \in Chats
    BY <1>1, RequestFields
  <2>2. failed' \subseteq Chats
    BY <1>1, <2>1 DEF ChatTypeOK
  <2>3. QED
    BY <1>1, <2>2 DEF ChatTypeOK
<1>3. OneChat'
  <2>1. ASSUME NEW k \in 1 .. n - 1  PROVE k + 1 \in 1 .. n /\ waiting'[k] = waiting[k + 1]
    BY <1>1 DEF MovedUp
  <2>2. QED
    BY <1>1, <2>1 DEF OneChat, OwnMessages
<1>4. TurnsOwned'
  <2>1. PICK o \in [1 .. MaxTurns -> Chats] : OwnedBy(o)
    BY DEF TurnsOwned
  <2>2. \A k \in 1 .. Len(waiting') :
          \E j \in 1 .. Len(waiting) : waiting'[k].messages = waiting[j].messages
    BY <1>1, MessagesMovedUp
  <2>3. OwnedBy(o)'
    BY <2>1, <2>2 DEF OwnedBy, OfOwner
  <2>4. QED
    BY <2>3 DEF TurnsOwned
<1>5. SavedInOrder'
  <2>1. CASE waiting[1].of # chat
    BY <1>1, <2>1, OthersServed
  <2>2. CASE waiting[1].of = chat
    <3>1. chat \in failed' /\ 1 \in Pending("write")
      BY <1>1, <2>2 DEF Pending
    <3>2. QED
      BY <1>1, <3>1, SavesServed
  <2>3. QED
    BY <2>1, <2>2
<1>6. QED
  BY <1>2, <1>3, <1>4, <1>5

LEMMA ServeStep ==
  ASSUME ChatInv, Serve  PROVE ChatInv'
<1>1. waiting # << >> /\ UNCHANGED <<chat, streaming, runs, current, turns>>
  BY DEF Serve
<1>2. CASE /\ Head(waiting).op = "load" /\ waiting' = Tail(waiting)
           /\ IF Wanted(Head(waiting))
              THEN /\ messages' \in {stored[Head(waiting).of], {}}
                   /\ loaded' = {Head(waiting).of} /\ unsaved' = TRUE
              ELSE UNCHANGED <<messages, loaded, unsaved>>
           /\ UNCHANGED <<stored, failed>>
  BY <1>1, <1>2, LoadStep
<1>3. CASE /\ Head(waiting).op = "read"
           /\ waiting' = Append(Tail(waiting), [Head(waiting) EXCEPT !.op = "write"])
           /\ UNCHANGED <<messages, loaded, unsaved, stored, failed>>
  BY <1>1, <1>3, ReadStep
<1>4. CASE /\ Head(waiting).op = "write" /\ waiting' = Tail(waiting)
           /\ \/ /\ stored' = [stored EXCEPT ![Head(waiting).of] = Head(waiting).messages]
                 /\ failed' = failed \ {Head(waiting).of}
              \/ UNCHANGED stored /\ failed' = failed \cup {Head(waiting).of}
           /\ UNCHANGED <<messages, loaded, unsaved>>
  BY <1>1, <1>4, WrittenStep, FailedStep
<1>5. QED
  BY <1>2, <1>3, <1>4 DEF Serve

LEMMA ChatPreserves ==
  ASSUME ChatInv, [ChatNext]_chatVars  PROVE ChatInv'
<1>1. CASE ChatNext
  BY <1>1, ChooseStep, TakeStep, SetMessagesStep, StopStep, PersistStep, ServeStep,
     UpdateStep, FinishStep DEF ChatNext
<1>2. CASE UNCHANGED chatVars
  <2>1. UNCHANGED <<chat, loaded, messages, streaming, runs, current, unsaved, waiting,
                    stored, failed, turns>>
    BY <1>2 DEF chatVars
  <2>2. ChatTypeOK' /\ OneChat'
    BY <2>1 DEF ChatInv, ChatTypeOK, OneChat, OwnMessages
  <2>3. TurnsOwned'
    BY <2>1, OwnersRemain
  <2>4. SavedInOrder'
    BY <2>1 DEF ChatInv, SavedInOrder, LastHolds, Pending
  <2>5. QED
    BY <2>2, <2>3, <2>4 DEF ChatInv
<1>3. QED
  BY <1>1, <1>2

\* The inductive invariant of the chats
THEOREM ChatInvariance == ChatSpec => []ChatInv
<1>1. ChatInit => ChatInv
  BY ChatStart
<1>2. ChatInv /\ [ChatNext]_chatVars => ChatInv'
  BY ChatPreserves
<1>3. QED
  BY <1>1, <1>2, PTL DEF ChatSpec

\* However chats are changed while loads, saves and turns are under way, a chat
\* shows and stores messages of its own only.
THEOREM ChatsKeepApart == ChatSpec => []OwnMessages
<1>1. ChatInv => OwnMessages
  BY DEF ChatInv, OneChat
<1>2. QED
  BY <1>1, ChatInvariance, PTL

LEMMA SavedWhenShown == ChatInv => ShownIsStored
<1> SUFFICES ASSUME ChatInv, waiting = << >>, ~unsaved, messages # {}, chat \notin failed
             PROVE  stored[chat] = messages
  BY DEF ShownIsStored
<1>1. Len(waiting) = 0
  BY EmptySeq
<1>2. Pending("read") = {} /\ Pending("write") = {}
  BY <1>1 DEF Pending
<1>3. QED
  BY <1>2 DEF ChatInv, SavedInOrder

\* What is shown of a chat is what the storage has of it once nothing is under way,
\* in whatever order the saves of that chat and of others were asked for, unless
\* the last write of it has failed.
THEOREM ChatsAreSaved == ChatSpec => []ShownIsStored
  BY SavedWhenShown, ChatInvariance, PTL

(***************************************************************************)
(* The editor                                                              *)
(***************************************************************************)

\* The four parts share no state: each keeps its invariant in every step of all.
EditorInv == HistoryInv /\ DraftInv /\ PublishInv /\ ChatInv

LEMMA EditorStep ==
  ASSUME [EditorNext]_editorVars
  PROVE  /\ [HistoryNext]_historyVars /\ [DraftNext]_draftVars
         /\ [PublishNext]_publishVars /\ [ChatNext]_chatVars
<1>1. CASE HistoryStep
  BY <1>1 DEF HistoryStep
<1>2. CASE DraftsStep
  BY <1>2 DEF DraftsStep
<1>3. CASE PublishStep
  BY <1>3 DEF PublishStep
<1>4. CASE ChatStep
  BY <1>4 DEF ChatStep
<1>5. CASE Over \/ UNCHANGED editorVars
  BY <1>5 DEF Over, editorVars
<1>6. QED
  BY <1>1, <1>2, <1>3, <1>4, <1>5 DEF EditorNext

LEMMA EditorInvariance == EditorSpec => []EditorInv
<1>1. EditorInit => EditorInv
  BY HistoryStart, DraftStart, PublishStart, ChatStart DEF EditorInit, EditorInv
<1>2. EditorInv /\ [EditorNext]_editorVars => EditorInv'
  BY EditorStep, HistoryPreserves, DraftPreserves, PublishPreserves, ChatPreserves
     DEF EditorInv
<1>3. QED
  BY <1>1, <1>2, PTL DEF EditorSpec

\* The types of the four parts.
THEOREM EditorTypesHold == EditorSpec => []EditorTypes
<1>1. EditorInv => EditorTypes
  BY HistoryTypes, DraftTypes DEF EditorInv, EditorTypes, PublishInv, ChatInv
<1>2. QED
  BY <1>1, EditorInvariance, PTL

\* Whichever part moves: what is published is whole and its reservation consumed,
\* and chats show and store their own messages.
THEOREM EditorIsSafe ==
  EditorSpec => [](PublishedIsWhole /\ LandedIsConsumed /\ OwnMessages /\ ShownIsStored)
<1>1. EditorInv => PublishedIsWhole /\ LandedIsConsumed
  BY TidiedWhenLanded DEF EditorInv, PublishInv
<1>2. EditorInv => OwnMessages /\ ShownIsStored
  BY SavedWhenShown DEF EditorInv, ChatInv, OneChat
<1>3. QED
  BY <1>1, <1>2, EditorInvariance, PTL

\* Nor does the undo history leave its timeline.
THEOREM EditorKeepsToTimeline == EditorSpec => KeepsToTimeline
<1>1. EditorInv /\ EditorInv' /\ [EditorNext]_editorVars
        => [InStep /\ InStep' => Timeline!TimeNext \/ UNCHANGED Timeline!timeVars]_historyVars
  BY EditorStep, StepKeeps DEF EditorInv
<1>2. QED
  BY <1>1, EditorInvariance, PTL DEF EditorSpec, KeepsToTimeline
=============================================================================
