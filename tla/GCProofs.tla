----------------------------- MODULE GCProofs -----------------------------
(***************************************************************************)
(* The safety properties of the collector for every number of slots, every *)
(* old age and any number of objects without write barrier.                *)
(*                                                                         *)
(* None of them is inductive.  IInv says for each phase why no reference   *)
(* is missed: while marking, what a marked object refers to is marked, or  *)
(* the object is in the mark stack, or it has no write barrier and will be *)
(* scanned once more (Marking); otherwise an old object is remembered, or  *)
(* what it refers to is old or remembered (Idle).  The objects that the    *)
(* lazy sweep will leave are closed under references (Heap(Kept)), and     *)
(* what was garbage is referred to by garbage only (Doomed).               *)
(***************************************************************************)
EXTENDS GCMarkProofs

-----------------------------------------------------------------------------
\* The objects that the lazy sweep is not going to free.
Kept == live \ (sweep_pages \ objspace.mark_bits)

\* The types of the other variables.
Typed ==
  /\ ref \in [Slots -> Slots \cup {0}]
  /\ live \subseteq Slots
  /\ stat \in {"none", "marking", "sweeping"}
  /\ sweep_pages \subseteq Slots

\* What the phase of the collection says of objspace.
Phases ==
  /\ objspace.during_incremental_marking <=> stat = "marking"
  /\ sweep_pages # {} <=> stat = "sweeping"
  /\ stat # "marking" => objspace.mark_stack = <<>>
  /\ stat = "marking" => ~objspace.during_minor_gc

\* Nothing is left of an object in a free slot, but perhaps its mark bit.
Blank ==
  \A o \in Slots \ live :
    ref[o] = 0 /\ objspace.age[o] = 0 /\ o \notin objspace.wb_unprotected_bits \cup objspace.long_lived_bits

\* In incremental marking a marked object that is not in the mark stack has been
\* scanned, unless no barrier watches it.
Marking ==
  stat = "marking" =>
    objspace.mark_bits \subseteq live /\ Todo(objspace, objspace.wb_unprotected_bits)

\* When no marking is on an old object is long-lived, and it or the young object it
\* refers to is remembered.
Idle ==
  stat # "marking" =>
    /\ objspace.mark_bits \ sweep_pages \subseteq objspace.long_lived_bits
    /\ \A o \in Kept : /\ RVALUE_OLD_P(objspace, o) => o \in objspace.long_lived_bits
                       /\ Recorded(objspace, o)

\* What was garbage is not marked, and nothing that was not refers to it.
Doomed ==
  /\ doomed \subseteq live
  /\ doomed \cap roots = {} /\ doomed \cap objspace.mark_bits = {}
  /\ \A o \in live \ doomed : ref[o] \notin doomed
  /\ stat # "marking" => doomed \subseteq sweep_pages

\* The inductive invariant.
IInv ==
  /\ Typed /\ Phases /\ Blank /\ Marking /\ Idle /\ Doomed
  /\ Sound(objspace, Slots) /\ Stacked(objspace, {}) /\ Heap(Kept)

\* The empty heap has it.
LEMMA InitIInv == Init => IInv
<1>. SUFFICES ASSUME Init PROVE IInv
  BY Zenon
<1>1. objspace \in Space /\ Olds(objspace) = {} /\ \A o \in Slots : Coherent(objspace, o)
  BY GCAssumption DEF Init, Space, Olds, Coherent, RVALUE_OLD_P
<1>2. Sound(objspace, Slots)
  BY <1>1, FS_EmptySet, Zenon DEF Init, Sound
<1>3. Typed /\ Phases /\ Blank /\ Marking /\ Doomed /\ Heap(Kept)
  BY Zenon DEF Init, Typed, Phases, Blank, Marking, Doomed, Heap, Kept
<1>4. Idle
  BY Zenon DEF Init, Idle, Kept
<1>5. Stacked(objspace, {})
  <2>1. Range(objspace.mark_stack) = {}
    BY DEF Init, Range
  <2>. QED BY <2>1, Zenon DEF Init, Stacked
<1>. QED BY <1>2, <1>3, <1>4, <1>5, Zenon DEF IInv

\* The mutator reads a reference.
LEMMA LoadKeeps ==
  ASSUME IInv, NEW o \in Slots, Load(o)
  PROVE  IInv'
<1>1. Kept' = Kept /\ objspace' = objspace /\ Sound(objspace', Slots) /\ Stacked(objspace', {})
  BY Zenon DEF Load, Kept, IInv
<1>2. Heap(Kept)'
  BY <1>1, Zenon DEF IInv, Load, Heap
<1>3. Doomed'
  <2>1. o \in live \ doomed
    BY Zenon DEF IInv, Load, Heap, Kept, Doomed
  <2>. QED BY <2>1, Zenon DEF IInv, Load, Doomed
<1>4. Marking'
  BY Zenon DEF IInv, Load, Marking, Todo, Scanned, Recorded, NoYoung
<1>5. Idle'
  BY <1>1, Zenon DEF IInv, Load, Idle, Recorded, NoYoung
<1>. QED BY <1>1, <1>2, <1>3, <1>4, <1>5, Zenon DEF IInv, Load, Typed, Phases, Blank

\* The mutator forgets a reference.
LEMMA DropKeeps ==
  ASSUME IInv, NEW o \in Slots, Drop(o)
  PROVE  IInv'
<1>1. Kept' = Kept /\ objspace' = objspace /\ Sound(objspace', Slots) /\ Stacked(objspace', {})
  BY Zenon DEF Drop, Kept, IInv
<1>2. Heap(Kept)'
  BY <1>1, Zenon DEF IInv, Drop, Heap
<1>3. Doomed'
  BY Zenon DEF IInv, Drop, Doomed
<1>4. Marking'
  BY Zenon DEF IInv, Drop, Marking, Todo, Scanned, Recorded, NoYoung
<1>5. Idle'
  BY <1>1, Zenon DEF IInv, Drop, Idle, Recorded, NoYoung
<1>. QED BY <1>1, <1>2, <1>3, <1>4, <1>5, Zenon DEF IInv, Drop, Typed, Phases, Blank

\* The mutator overwrites a reference with no reference.
LEMMA EraseKeeps ==
  ASSUME IInv, NEW o \in Slots, Erase(o)
  PROVE  IInv'
<1>1. Kept' = Kept /\ objspace' = objspace /\ Sound(objspace', Slots) /\ Stacked(objspace', {})
  BY Zenon DEF Erase, Kept, IInv
<1>2. \A x \in Slots : ref'[x] \in {ref[x], 0}
  BY Zenon DEF IInv, Typed, Erase
<1>3. live \subseteq Slots /\ objspace.mark_bits \subseteq Slots /\ ref' \in [Slots -> Slots \cup {0}]
  BY Parts, Zenon DEF IInv, Typed, Sound, Erase
<1>4. Heap(Kept)'
  BY <1>1, <1>2, <1>3, Zenon DEF IInv, Erase, Heap, Kept
<1>5. Doomed'
  <2>1. 0 \notin doomed
    BY <1>3 DEF IInv, Doomed, Slots
  <2>. QED BY <1>2, <1>3, <2>1, Zenon DEF IInv, Erase, Doomed
<1>6. \A x \in Slots : /\ Scanned(objspace, x) => Scanned(objspace, x)'
                       /\ Recorded(objspace, x) => Recorded(objspace, x)'
  BY <1>1, <1>2, Zenon DEF Scanned, Recorded, NoYoung
<1>7. Marking'
  BY <1>1, <1>3, <1>6, Zenon DEF IInv, Erase, Marking, Todo
<1>8. Idle'
  BY <1>1, <1>3, <1>6, Zenon DEF IInv, Erase, Idle, Kept
<1>9. Blank'
  BY <1>1, <1>2, Zenon DEF IInv, Erase, Blank
<1>. QED BY <1>1, <1>3, <1>4, <1>5, <1>7, <1>8, <1>9, Zenon DEF IInv, Erase, Typed, Phases

\* t differs from s only in the objects without write barrier.
Unprotected(t, s, w) ==
  /\ t \in Space /\ t.wb_unprotected_bits = w
  /\ t.mark_bits = s.mark_bits /\ t.marking_bits = s.marking_bits
  /\ t.long_lived_bits = s.long_lived_bits /\ t.age = s.age
  /\ t.mark_stack = s.mark_stack /\ t.old_objects = s.old_objects
  /\ t.during_minor_gc = s.during_minor_gc
  /\ t.during_incremental_marking = s.during_incremental_marking

\* Replacing the set of objects without write barrier changes nothing else.
LEMMA UnprotectedIs ==
  ASSUME NEW s \in Space, NEW w \in SUBSET Slots
  PROVE  Unprotected([s EXCEPT !.wb_unprotected_bits = w], s, w)
BY Zenon DEF Space, Unprotected

\* A new object is white and refers to nothing.
LEMMA NewobjKeeps ==
  ASSUME IInv, NEW o \in Slots, NEW wb_protected \in BOOLEAN, newobj_of(o, wb_protected)
  PROVE  IInv'
<1>. DEFINE s == objspace
            t == objspace'
            W == s.wb_unprotected_bits
<1>1. s \in Space /\ W \in SUBSET Slots /\ live \subseteq Slots /\ s.mark_bits \subseteq Slots
  BY Parts, Zenon DEF IInv, Sound, Typed
<1>2. PICK w \in {W, W \cup {o}} : Unprotected(t, s, w)
  <2>1. CASE wb_protected
    BY <1>1, <2>1, Zenon DEF newobj_of, Unprotected
  <2>2. CASE ~wb_protected
    <3>1. t = [s EXCEPT !.wb_unprotected_bits = W \cup {o}]
      BY <2>2, Zenon DEF newobj_of
    <3>. QED BY <1>1, <3>1, UnprotectedIs, Zenon
  <2>. QED BY <2>1, <2>2, Zenon
<1>3. ref[o] = 0 /\ s.age[o] = 0 /\ o \notin s.long_lived_bits /\ o \notin live /\ o \notin sweep_pages
  BY Zenon DEF IInv, Blank, newobj_of
<1>4. o \notin s.mark_bits
  BY <1>3, Zenon DEF IInv, Marking, Idle
<1>5. /\ live' = live \cup {o} /\ roots' = roots \cup {o} /\ ref' = ref
      /\ stat' = stat /\ sweep_pages' = sweep_pages /\ doomed' = doomed
  BY Zenon DEF newobj_of
<1>6. Kept' = Kept \cup {o}
  BY <1>2, <1>3, <1>5, Zenon DEF Kept, Unprotected
<1>7. Sound(t, Slots)
  <2>1. Olds(t) = Olds(s)
    BY <1>2, Zenon DEF Olds, Unprotected, RVALUE_OLD_P
  <2>2. \A x \in Slots : Coherent(t, x)
    BY <1>2, <1>3, Zenon DEF IInv, Sound, Coherent, Unprotected, RVALUE_OLD_P
  <2>. QED BY <1>1, <1>2, <2>1, <2>2, Zenon DEF IInv, Sound, Unprotected
<1>8. Stacked(t, {})
  BY <1>2, Zenon DEF IInv, Stacked, Unprotected
<1>9. Heap(Kept)'
  BY <1>3, <1>5, <1>6, Zenon DEF IInv, Heap
<1>10. \A x : /\ Scanned(s, x) => Scanned(objspace, x)'
              /\ Recorded(s, x) => Recorded(objspace, x)'
              /\ RVALUE_OLD_P(t, x) <=> RVALUE_OLD_P(s, x)
  BY <1>2, <1>5, Zenon DEF Unprotected, Scanned, Recorded, NoYoung, RVALUE_OLD_P
<1>11. Marking'
  BY <1>2, <1>5, <1>10, Zenon DEF IInv, Marking, Todo, Unprotected
<1>12. Idle'
  <2>1. Recorded(objspace, o)'
    BY <1>3, <1>5, Zenon DEF Recorded, NoYoung
  <2>2. ~RVALUE_OLD_P(t, o)
    BY <1>3, <1>10, GCAssumption, Zenon DEF RVALUE_OLD_P
  <2>. QED BY <1>2, <1>5, <1>6, <1>10, <2>1, <2>2, Zenon DEF IInv, Idle, Unprotected
<1>13. Doomed'
  <2>1. 0 \notin doomed /\ o \notin doomed
    BY <1>1, <1>3 DEF IInv, Doomed, Slots
  <2>. QED BY <1>2, <1>3, <1>5, <2>1, Zenon DEF IInv, Doomed, Unprotected
<1>14. Blank'
  BY <1>2, <1>5, Zenon DEF IInv, Blank, Unprotected
<1>15. Typed' /\ Phases'
  BY <1>2, <1>5, Zenon DEF IInv, Typed, Phases, Unprotected
<1>. QED BY <1>7, <1>8, <1>9, <1>11, <1>12, <1>13, <1>14, <1>15, Zenon DEF IInv

\* Incremental marking goes on after a step that marks no garbage, and in which objects
\* come to refer only to what the mutator has at hand.
LEMMA MarkingOn ==
  ASSUME IInv, stat = "marking", UNCHANGED <<live, roots, stat, sweep_pages, doomed>>,
         Sound(objspace', live \ doomed), Stacked(objspace', {}),
         Todo(objspace, objspace.wb_unprotected_bits)',
         objspace'.wb_unprotected_bits = objspace.wb_unprotected_bits,
         objspace'.during_incremental_marking = objspace.during_incremental_marking,
         objspace'.during_minor_gc = objspace.during_minor_gc,
         \A x \in Slots \ live : objspace'.age[x] = objspace.age[x] /\ ref'[x] = ref[x],
         ref' \in [Slots -> Slots \cup {0}], \A x \in live : ref'[x] = ref[x] \/ ref'[x] \in roots
  PROVE  IInv'
<1>1. sweep_pages = {} /\ Kept = live /\ Kept' = live /\ live \subseteq Slots
  BY Zenon DEF IInv, Phases, Kept, Typed
<1>2. objspace'.mark_bits \subseteq live \ doomed
  BY Zenon DEF Sound
<1>3. Sound(objspace', Slots)
  BY <1>1, <1>2, SoundMore, Zenon
<1>4. Heap(Kept)'
  BY <1>1, Zenon DEF IInv, Heap
<1>5. Doomed'
  BY <1>2, Zenon DEF IInv, Doomed
<1>6. Blank'
  <2>1. \A x \in Slots : x \in objspace'.long_lived_bits => x \in live
    BY <1>2, <1>3, Zenon DEF Sound, Coherent
  <2>. QED BY <2>1, Zenon DEF IInv, Blank
<1>7. Typed' /\ Phases' /\ Marking' /\ Idle'
  BY <1>2, Zenon DEF IInv, Typed, Phases, Marking, Idle
<1>. QED BY <1>3, <1>4, <1>5, <1>6, <1>7, Zenon DEF IInv

\* Outside marking, a write to an old object leaves it in the remember set unless the
\* object it now refers to is old.
LEMMA GenerationalKeeps ==
  ASSUME IInv, stat # "marking", NEW a \in Slots, NEW b \in Slots, {a, b} \subseteq roots,
         ref' = [ref EXCEPT ![a] = b], UNCHANGED <<live, roots, stat, sweep_pages, doomed>>,
         NEW p \in BOOLEAN, p \/ RVALUE_OLD_P(objspace, b),
         objspace' = IF RVALUE_OLD_P(objspace, a) /\ p THEN rgengc_remember(objspace, a) ELSE objspace
  PROVE  IInv'
<1>. DEFINE s == objspace
            t == objspace'
<1>1. /\ s \in Space /\ s.mark_bits \subseteq Slots /\ s.marking_bits \subseteq Slots
      /\ live \subseteq Slots /\ a \in Kept /\ b \in Kept /\ a \in live /\ b \in live \ doomed
  BY Parts, Zenon DEF IInv, Sound, Typed, Heap, Kept, Doomed
<1>2. ref' \in [Slots -> Slots \cup {0}] /\ ref'[a] = b /\ \A x \in Slots \ {a} : ref'[x] = ref[x]
  BY Zenon DEF IInv, Typed
<1>3. PICK g : /\ g = IF RVALUE_OLD_P(s, a) /\ p THEN s.marking_bits \cup {a} ELSE s.marking_bits
               /\ Is(t, s, s.mark_bits, g, s.long_lived_bits, s.age, s.mark_stack, s.old_objects)
  <2>1. CASE RVALUE_OLD_P(s, a) /\ p
    BY <1>1, <2>1, RememberIs, Zenon
  <2>2. CASE ~(RVALUE_OLD_P(s, a) /\ p)
    BY <1>1, <2>2, Zenon DEF Is
  <2>. QED BY <2>1, <2>2, Zenon
<1>4. RVALUE_OLD_P(s, a) => a \in s.long_lived_bits /\ a \in s.mark_bits
  BY <1>1, Zenon DEF IInv, Idle, Sound, Coherent
<1>5. Sound(t, Slots)
  <2>1. Olds(t) = Olds(s)
    BY <1>3, Zenon DEF Is, Olds, RVALUE_OLD_P
  <2>2. \A x \in Slots : Coherent(t, x)
    BY <1>3, <1>4, Zenon DEF Is, IInv, Sound, Coherent, RVALUE_OLD_P
  <2>. QED BY <1>1, <1>3, <2>1, <2>2, Zenon DEF Is, IInv, Sound
<1>6. Stacked(t, {})
  <2>1. ~s.during_incremental_marking /\ ~t.during_incremental_marking
    BY <1>3, Zenon DEF Is, IInv, Phases
  <2>. QED BY <1>3, <1>4, <2>1, Zenon DEF Is, IInv, Stacked
<1>7. Kept' = Kept
  BY <1>3, Zenon DEF Is, Kept
<1>8. Heap(Kept)'
  BY <1>1, <1>2, <1>7, Zenon DEF IInv, Heap
<1>9. ASSUME NEW x \in Kept PROVE Recorded(objspace, x)'
  <2>1. CASE x = a
    BY <1>2, <1>3, <2>1, Zenon DEF Is, Recorded, NoYoung, RVALUE_OLD_P
  <2>2. CASE x # a
    <3>1. x \in Slots /\ Recorded(s, x)
      BY <1>1, <1>9, Zenon DEF IInv, Idle, Kept
    <3>. QED BY <1>2, <1>3, <2>2, <3>1, Zenon DEF Is, Recorded, NoYoung, RVALUE_OLD_P
  <2>. QED BY <2>1, <2>2, Zenon
<1>10. Idle'
  BY <1>3, <1>7, <1>9, Zenon DEF Is, IInv, Idle, RVALUE_OLD_P
<1>11. Doomed'
  BY <1>1, <1>2, <1>3, Zenon DEF Is, IInv, Doomed
<1>12. Blank'
  BY <1>1, <1>2, <1>3 DEF Is, IInv, Blank
<1>13. Typed' /\ Phases' /\ Marking'
  BY <1>2, <1>3, Zenon DEF Is, IInv, Typed, Phases, Marking
<1>. QED BY <1>5, <1>6, <1>8, <1>10, <1>11, <1>12, <1>13, Zenon DEF IInv

\* In incremental marking a marked object that the mutator writes to is not black any
\* more, or what it refers to has been marked.
LEMMA WriteKeeps ==
  ASSUME IInv, NEW a \in Slots, NEW b \in Slots, rb_obj_write(a, b)
  PROVE  IInv'
<1>. DEFINE s == objspace
            t == objspace'
            old == RVALUE_OLD_P(s, a)
            W == s.wb_unprotected_bits
            K == live \ doomed
<1>1. /\ {a, b} \subseteq roots /\ ref' = [ref EXCEPT ![a] = b]
      /\ UNCHANGED <<live, roots, stat, sweep_pages, doomed>>
      /\ t = rb_obj_written(s, a, b)
  BY Zenon DEF rb_obj_write
<1>2. /\ ref \in [Slots -> Slots \cup {0}] /\ ref' \in [Slots -> Slots \cup {0}]
      /\ ref'[a] = b /\ \A x \in Slots \ {a} : ref'[x] = ref[x]
  BY <1>1, Zenon DEF IInv, Typed
<1>3. CASE stat = "marking"
  <2>1. /\ s.during_incremental_marking /\ K \in SUBSET Slots /\ a \in K /\ b \in K
        /\ s \in Space /\ s.mark_bits \subseteq K
    BY <1>1, <1>3, Zenon DEF IInv, Phases, Typed, Heap, Kept, Doomed, Sound, Marking
  <2>2. Sound(s, K) /\ Stacked(s, {}) /\ Todo(s, W)
    BY <1>3, <2>1, SoundMore, Zenon DEF IInv, Marking
  <2>3. t = IF RVALUE_BLACK_P(s, a) /\ (b \in s.mark_bits \/ a \notin W)
              THEN gc_mark_ptr(s, old, b) ELSE s
    <3>1. t = rb_gc_writebarrier_incremental(s, a, b) /\ Coherent(s, b)
      BY <1>1, <2>1, <2>2, Zenon DEF rb_obj_written, Sound
    <3>. HIDE DEF t, s
    <3>. QED BY <2>1, <3>1, BarrierIs, Zenon
  <2>4. CASE RVALUE_BLACK_P(s, a) /\ (b \in s.mark_bits \/ a \notin W)
    <3>1. old \in BOOLEAN
      BY Zenon DEF RVALUE_OLD_P
    <3>2. Marks(s, t, old, b) /\ Sound(t, K) /\ Stacked(t, {}) /\ Todo(t, W)
      <4>1. t = gc_mark_ptr(s, old, b)
        BY <2>3, <2>4, Zenon
      <4>. HIDE DEF t, s, W, K, old
      <4>. QED BY <1>2, <2>1, <2>2, <3>1, <4>1, MarkKeeps, Zenon
    <3>3. Todo(objspace, objspace.wb_unprotected_bits)'
      <4>1. a \in Slots /\ (a # b /\ RVALUE_OLD_P(t, a) => old)
        BY <3>2, Zenon DEF Marks, RVALUE_OLD_P
      <4>2. Scanned(objspace, a)'
        BY <1>2, <3>2, Zenon DEF Marks, Scanned
      <4>3. Recorded(objspace, a)'
        BY <1>2, <3>2, <4>1, Zenon DEF Marks, Recorded, NoYoung
      <4>4. ASSUME NEW x \in t.mark_bits, x # a, Scanned(t, x), Recorded(t, x)
            PROVE  Scanned(objspace, x)' /\ Recorded(objspace, x)'
        <5>1. x \in Slots /\ ref'[x] = ref[x]
          BY <1>2, <2>1, <3>2, <4>4, Zenon DEF Sound
        <5>. QED BY <4>4, <5>1, Zenon DEF Scanned, Recorded, NoYoung
      <4>5. t.wb_unprotected_bits = W
        BY <3>2, Zenon DEF Marks
      <4>. QED BY <3>2, <4>2, <4>3, <4>4, <4>5, Zenon DEF Todo
    <3>4. \A x \in Slots \ live : t.age[x] = s.age[x] /\ ref'[x] = ref[x]
      BY <1>2, <2>1, <3>2, Zenon DEF Marks
    <3>5. \A x \in live : ref'[x] = ref[x] \/ ref'[x] \in roots
      BY <1>1, <1>2, Zenon DEF IInv, Typed
    <3>. QED BY <1>1, <1>2, <1>3, <3>2, <3>3, <3>4, <3>5, MarkingOn DEF Marks
  <2>5. CASE ~(RVALUE_BLACK_P(s, a) /\ (b \in s.mark_bits \/ a \notin W))
    <3>1. t = s
      BY <2>3, <2>5, Zenon
    <3>2. Todo(objspace, objspace.wb_unprotected_bits)'
      <4>1. a \notin s.mark_bits \/ a \in Range(s.mark_stack) \/ a \in W
        BY <2>1, <2>2, <2>5, Zenon DEF RVALUE_BLACK_P, Stacked
      <4>2. ASSUME NEW x \in s.mark_bits, x # a, Scanned(s, x), Recorded(s, x)
            PROVE  Scanned(objspace, x)' /\ Recorded(objspace, x)'
        <5>1. x \in Slots /\ ref'[x] = ref[x]
          BY <1>2, <2>1, <4>2, Zenon
        <5>. QED BY <3>1, <4>2, <5>1, Zenon DEF Scanned, Recorded, NoYoung
      <4>. QED BY <2>2, <3>1, <4>1, <4>2, Zenon DEF Todo
    <3>3. \A x \in Slots \ live : t.age[x] = s.age[x] /\ ref'[x] = ref[x]
      BY <1>2, <2>1, <3>1, Zenon
    <3>4. \A x \in live : ref'[x] = ref[x] \/ ref'[x] \in roots
      BY <1>1, <1>2, Zenon DEF IInv, Typed
    <3>. QED BY <1>1, <1>2, <1>3, <2>2, <3>1, <3>2, <3>3, <3>4, MarkingOn, Zenon
  <2>. QED BY <2>4, <2>5, Zenon
<1>4. CASE stat # "marking"
  <2>. DEFINE p == ~RVALUE_OLD_P(s, b)
  <2>1. t = IF old /\ p THEN rgengc_remember(s, a) ELSE s
    BY <1>1, <1>4, Zenon DEF rb_obj_written, IInv, Phases
  <2>2. p \in BOOLEAN /\ (p \/ RVALUE_OLD_P(s, b))
    BY Zenon DEF RVALUE_OLD_P
  <2>. HIDE DEF p
  <2>. QED BY <1>1, <1>4, <2>1, <2>2, GenerationalKeeps, Zenon
<1>. QED BY <1>3, <1>4, Zenon

\* What was written without barriers is scanned again, or remembered.
LEMMA RememberKeeps ==
  ASSUME IInv, NEW a \in Slots, NEW b \in Slots, rb_gc_writebarrier_remember(a, b)
  PROVE  IInv'
<1>. DEFINE s == objspace
            t == objspace'
            W == s.wb_unprotected_bits
            K == live \ doomed
<1>1. /\ {a, b} \subseteq roots /\ ref' = [ref EXCEPT ![a] = b]
      /\ UNCHANGED <<live, roots, stat, sweep_pages, doomed>>
  BY Zenon DEF rb_gc_writebarrier_remember
<1>2. /\ ref \in [Slots -> Slots \cup {0}] /\ ref' \in [Slots -> Slots \cup {0}]
      /\ ref'[a] = b /\ \A x \in Slots \ {a} : ref'[x] = ref[x]
  BY <1>1, Zenon DEF IInv, Typed
<1>3. CASE stat = "marking"
  <2>1. /\ s.during_incremental_marking /\ K \in SUBSET Slots /\ a \in K
        /\ s \in Space /\ s.mark_bits \subseteq K /\ s.mark_stack \in Seq(Slots)
    BY <1>1, <1>3, Parts, Zenon DEF IInv, Phases, Typed, Heap, Kept, Doomed, Sound, Marking
  <2>2. Sound(s, K) /\ Stacked(s, {}) /\ Todo(s, W)
    BY <1>3, <2>1, SoundMore, Zenon DEF IInv, Marking
  <2>3. PICK g, k :
          /\ Is(t, s, s.mark_bits, g, s.long_lived_bits, s.age, k, s.old_objects)
          /\ IF RVALUE_BLACK_P(s, a)
               THEN g = s.marking_bits \cup {a} /\ k = Append(s.mark_stack, a)
               ELSE g = s.marking_bits /\ k = s.mark_stack
    <3>1. CASE RVALUE_BLACK_P(s, a)
      <4>1. t = gc_grey(s, a)
        BY <2>1, <3>1, Zenon DEF rb_gc_writebarrier_remember
      <4>. QED BY <2>1, <3>1, <4>1, GreyIs, Zenon
    <3>2. CASE ~RVALUE_BLACK_P(s, a)
      <4>1. t = s
        BY <2>1, <3>2, Zenon DEF rb_gc_writebarrier_remember
      <4>. QED BY <2>1, <3>2, <4>1, Zenon DEF Is
    <3>. QED BY <3>1, <3>2, Zenon
  <2>4. /\ Range(Append(s.mark_stack, a)) = Range(s.mark_stack) \cup {a}
        /\ IsInjective(s.mark_stack) /\ a \notin Range(s.mark_stack) => IsInjective(Append(s.mark_stack, a))
    BY <2>1, Pushed, Zenon
  <2>5. RVALUE_BLACK_P(s, a) => a \in s.mark_bits /\ a \notin s.marking_bits
    BY Zenon DEF RVALUE_BLACK_P
  <2>6. Range(k) = g /\ IsInjective(k) /\ (a \in s.mark_bits => a \in Range(k)) /\ Range(s.mark_stack) \subseteq Range(k)
    BY <2>1, <2>2, <2>3, <2>4, <2>5, Zenon DEF Stacked, RVALUE_BLACK_P
  <2>7. Sound(t, K) /\ Stacked(t, {})
    <3>1. Olds(t) = Olds(s) /\ \A x \in Slots : Coherent(t, x)
      BY <2>2, <2>3, <2>5, Zenon DEF Is, Sound, Olds, Coherent, RVALUE_OLD_P
    <3>2. Sound(t, K)
      BY <2>2, <2>3, <3>1, Zenon DEF Is, Sound
    <3>. QED BY <2>1, <2>3, <2>6, <3>2, Zenon DEF Is, Stacked
  <2>8. Todo(objspace, objspace.wb_unprotected_bits)'
    <3>1. ASSUME NEW x \in s.mark_bits, x # a, Scanned(s, x), Recorded(s, x)
          PROVE  Scanned(objspace, x)' /\ Recorded(objspace, x)'
      <4>1. x \in Slots /\ ref'[x] = ref[x]
        BY <1>2, <2>1, <3>1, Zenon
      <4>. QED BY <2>3, <3>1, <4>1, Zenon DEF Is, Scanned, Recorded, NoYoung, RVALUE_OLD_P
    <3>. QED BY <2>2, <2>3, <2>6, <3>1, Zenon DEF Is, Todo
  <2>9. \A x \in Slots \ live : t.age[x] = s.age[x] /\ ref'[x] = ref[x]
    BY <1>2, <2>1, <2>3, Zenon DEF Is
  <2>10. \A x \in live : ref'[x] = ref[x] \/ ref'[x] \in roots
    BY <1>1, <1>2, Zenon DEF IInv, Typed
  <2>. QED BY <1>1, <1>2, <1>3, <2>3, <2>7, <2>8, <2>9, <2>10, MarkingOn DEF Is
<1>4. CASE stat # "marking"
  <2>1. t = IF RVALUE_OLD_P(s, a) /\ TRUE THEN rgengc_remember(s, a) ELSE s
    BY <1>4, Zenon DEF rb_gc_writebarrier_remember, IInv, Phases
  <2>. QED BY <1>1, <1>4, <2>1, GenerationalKeeps, Zenon
<1>. QED BY <1>3, <1>4, Zenon

\* An object that loses its barriers is young, and marked and remembered if it was old.
LEMMA UnprotectIs ==
  ASSUME IInv, NEW o \in Slots, rb_gc_writebarrier_unprotect(o)
  PROVE  LET s == objspace
             t == objspace'
         IN /\ t \in Space /\ t.wb_unprotected_bits = s.wb_unprotected_bits \cup {o}
            /\ t.age = [s.age EXCEPT ![o] = 0] /\ t.marking_bits = s.marking_bits
            /\ t.mark_stack = s.mark_stack /\ t.during_minor_gc = s.during_minor_gc
            /\ t.during_incremental_marking = s.during_incremental_marking
            /\ IF RVALUE_OLD_P(s, o)
                 THEN /\ t.mark_bits = s.mark_bits \cup {o}
                      /\ t.long_lived_bits = s.long_lived_bits \cup {o}
                      /\ t.old_objects = IF o \in s.mark_bits THEN s.old_objects - 1 ELSE s.old_objects
                 ELSE /\ t.mark_bits = s.mark_bits /\ t.long_lived_bits = s.long_lived_bits
                      /\ t.old_objects = s.old_objects
<1>. DEFINE s == objspace
            t == objspace'
            W == s.wb_unprotected_bits
            a == [s.age EXCEPT ![o] = 0]
<1>1. s \in Space /\ W \in SUBSET Slots /\ s.long_lived_bits \in SUBSET Slots
  BY Parts, Zenon DEF IInv, Sound
<1>2. CASE RVALUE_OLD_P(s, o)
  <2>. DEFINE d == RVALUE_DEMOTE(s, o)
              m == [d EXCEPT !.mark_bits = @ \cup {o}]
              r == gc_remember_unprotected(m, o)
  <2>1. o \in s.mark_bits => s.old_objects # 0
    <3>1. o \in s.mark_bits => o \in Olds(s)
      BY <1>2, Zenon DEF IInv, Sound, Coherent, Olds
    <3>2. IsFiniteSet(Olds(s)) /\ s.old_objects = Cardinality(Olds(s))
      BY <1>1, SlotsCounted, Zenon DEF IInv, Sound, Olds
    <3>. QED BY <3>1, <3>2, FS_EmptySet, Zenon
  <2>2. Is(d, s, s.mark_bits, s.marking_bits, s.long_lived_bits \ {o}, a, s.mark_stack,
           IF o \in s.mark_bits THEN s.old_objects - 1 ELSE s.old_objects)
    BY <1>1, <2>1, DemoteIs, Zenon
  <2>3. t = [r EXCEPT !.wb_unprotected_bits = r.wb_unprotected_bits \cup {o}]
    BY <1>2, Zenon DEF rb_gc_writebarrier_unprotect
  <2>. HIDE DEF d
  <2>4. Is(m, d, d.mark_bits \cup {o}, d.marking_bits, d.long_lived_bits, d.age, d.mark_stack, d.old_objects)
    BY <2>2, MarkIs, Zenon DEF Is
  <2>. HIDE DEF m
  <2>5. Is(r, m, m.mark_bits, m.marking_bits, m.long_lived_bits \cup {o}, m.age, m.mark_stack, m.old_objects)
    BY <2>4, RememberUnprotectedIs, Zenon DEF Is
  <2>. HIDE DEF r
  <2>6. r.wb_unprotected_bits = W /\ r \in Space
    BY <2>2, <2>4, <2>5, Zenon DEF Is
  <2>7. Unprotected(t, r, W \cup {o})
    BY <1>1, <2>3, <2>6, UnprotectedIs, Zenon
  <2>. HIDE DEF s, t, a
  <2>8. (s.long_lived_bits \ {o}) \cup {o} = s.long_lived_bits \cup {o}
    BY Zenon
  <2>9. t.mark_bits = s.mark_bits \cup {o} /\ t.long_lived_bits = s.long_lived_bits \cup {o}
    BY <2>2, <2>4, <2>5, <2>7, <2>8, Zenon DEF Is, Unprotected
  <2>. QED BY <1>2, <2>2, <2>4, <2>5, <2>7, <2>9, Zenon DEF Is, Unprotected, s, t, a
<1>3. CASE ~RVALUE_OLD_P(s, o)
  <2>. DEFINE r == [s EXCEPT !.age[o] = 0]
  <2>1. 0 \in 0 .. RVALUE_OLD_AGE
    BY GCAssumption
  <2>2. Is(r, s, s.mark_bits, s.marking_bits, s.long_lived_bits, a, s.mark_stack, s.old_objects)
    BY <1>1, <2>1, AgeIs, Zenon
  <2>3. t = [r EXCEPT !.wb_unprotected_bits = r.wb_unprotected_bits \cup {o}]
    BY <1>3, Zenon DEF rb_gc_writebarrier_unprotect
  <2>. HIDE DEF r
  <2>4. Unprotected(t, r, W \cup {o})
    BY <1>1, <2>2, <2>3, UnprotectedIs, Zenon DEF Is
  <2>. HIDE DEF s, t, a
  <2>. QED BY <1>3, <2>2, <2>4, Zenon DEF Is, Unprotected, s, t, a
<1>. QED BY <1>2, <1>3, Zenon

\* An old object may lose its barriers in the middle of a collection.
LEMMA UnprotectKeeps ==
  ASSUME IInv, NEW o \in Slots, rb_gc_writebarrier_unprotect(o)
  PROVE  IInv'
<1>. DEFINE s == objspace
            t == objspace'
            W == s.wb_unprotected_bits
            old == RVALUE_OLD_P(s, o)
<1>1. /\ s \in Space /\ s.mark_bits \subseteq Slots /\ s.long_lived_bits \subseteq Slots
      /\ o \in roots /\ o \notin W /\ o \in Kept /\ o \in live /\ o \notin doomed
      /\ Coherent(s, o) /\ live \subseteq Slots
  BY Parts, Zenon DEF IInv, Sound, Heap, Kept, Doomed, Typed, rb_gc_writebarrier_unprotect
<1>2. UNCHANGED <<ref, live, roots, stat, sweep_pages, doomed>>
  BY Zenon DEF rb_gc_writebarrier_unprotect
<1>3. /\ t \in Space /\ t.wb_unprotected_bits = W \cup {o}
      /\ t.marking_bits = s.marking_bits
      /\ t.mark_stack = s.mark_stack /\ t.during_minor_gc = s.during_minor_gc
      /\ t.during_incremental_marking = s.during_incremental_marking
  BY UnprotectIs, Zenon
<1>4. IF old
        THEN /\ t.mark_bits = s.mark_bits \cup {o} /\ t.long_lived_bits = s.long_lived_bits \cup {o}
             /\ t.old_objects = IF o \in s.mark_bits THEN s.old_objects - 1 ELSE s.old_objects
        ELSE /\ t.mark_bits = s.mark_bits /\ t.long_lived_bits = s.long_lived_bits
             /\ t.old_objects = s.old_objects
  BY UnprotectIs, Zenon
<1>5. t.age[o] = 0 /\ \A x \in Slots \ {o} : t.age[x] = s.age[x]
  BY <1>1, Parts, UnprotectIs, ZenonT(20)
<1>6. ~RVALUE_OLD_P(t, o) /\ \A x \in Slots \ {o} : RVALUE_OLD_P(t, x) <=> RVALUE_OLD_P(s, x)
  BY <1>5, GCAssumption, Zenon DEF RVALUE_OLD_P
<1>7. o \in s.long_lived_bits <=> old /\ o \in s.mark_bits
  BY <1>1, Zenon DEF Coherent
<1>. HIDE DEF s, t, W, old
<1>8. Sound(t, Slots)
  <2>1. \A x \in Slots : Coherent(s, x)
    BY Zenon DEF IInv, Sound, s
  <2>2. ASSUME NEW x \in Slots PROVE Coherent(t, x)
    <3>1. CASE x = o
      BY <1>1, <1>3, <1>4, <1>5, <1>6, <1>7, <3>1, Zenon DEF Coherent, W
    <3>2. CASE x # o
      BY <1>3, <1>4, <1>5, <1>6, <2>1, <3>2, Zenon DEF Coherent, W
    <3>. QED BY <3>1, <3>2, Zenon
  <2>3. Olds(t) = Olds(s) \ {o} /\ (o \in Olds(s) <=> old /\ o \in s.mark_bits)
    BY <1>1, <1>4, <1>6, <1>7, Zenon DEF Olds, old
  <2>4. IsFiniteSet(Olds(s)) /\ s.old_objects = Cardinality(Olds(s)) /\ Cardinality(Olds(s)) \in Nat
    BY <1>1, SlotsCounted DEF IInv, Sound, Olds, s
  <2>5. t.old_objects = Cardinality(Olds(t))
    <3>1. CASE o \in Olds(s)
      BY <1>4, <2>3, <2>4, <3>1, FS_RemoveElement, Zenon
    <3>2. CASE o \notin Olds(s)
      <4>1. Olds(t) = Olds(s)
        BY <2>3, <3>2, Zenon
      <4>. QED BY <1>4, <2>3, <2>4, <3>2, <4>1, Zenon
    <3>. QED BY <3>1, <3>2, Zenon
  <2>. QED BY <1>1, <1>3, <1>4, <2>2, <2>5, Zenon DEF Sound
<1>9. Stacked(t, {})
  <2>1. Stacked(s, {})
    BY Zenon DEF IInv, s
  <2>. QED BY <1>3, <1>4, <2>1, Zenon DEF Stacked
<1>10. s.mark_bits \subseteq t.mark_bits /\ t.mark_bits \subseteq s.mark_bits \cup {o}
       /\ s.long_lived_bits \subseteq t.long_lived_bits
  BY <1>4, Zenon
<1>11. Kept' = Kept
  BY <1>1, <1>2, <1>10, Zenon DEF Kept, s, t
<1>12. Heap(Kept)'
  BY <1>2, <1>11, Zenon DEF IInv, Heap
<1>13. ASSUME NEW x \in Slots, x # o, Recorded(s, x) PROVE Recorded(objspace, x)'
  <2>1. x \in t.marking_bits \/ NoYoung(s, x)
    BY <1>3, <1>13, Zenon DEF Recorded
  <2>2. RVALUE_OLD_P(t, x) /\ NoYoung(s, x) /\ ref[x] = o => o \in t.long_lived_bits
    BY <1>1, <1>4, <1>6, <1>13 DEF NoYoung, old, W, Slots
  <2>3. NoYoung(s, x) => NoYoung(objspace, x)'
    <3>1. ref[x] = 0 \/ ref[x] \in Slots
      BY Zenon DEF IInv, Typed
    <3>. QED BY <1>2, <1>3, <1>6, <1>10, <1>13, <2>2, <3>1, Zenon DEF NoYoung, t, W
  <2>. QED BY <2>1, <2>3, Zenon DEF Recorded, t
<1>14. Recorded(objspace, o)'
  BY <1>6, Zenon DEF Recorded, NoYoung, t
<1>15. Marking'
  <2>. SUFFICES ASSUME stat = "marking"
                PROVE  t.mark_bits \subseteq live /\ Todo(objspace, objspace.wb_unprotected_bits)'
    BY <1>2, Zenon DEF Marking, t
  <2>1. s.mark_bits \subseteq live /\ Todo(s, W)
    BY Zenon DEF IInv, Marking, s, W
  <2>2. \A x : Scanned(s, x) => Scanned(objspace, x)'
    BY <1>2, <1>10, Zenon DEF Scanned, t
  <2>3. Todo(objspace, objspace.wb_unprotected_bits)'
    BY <1>1, <1>3, <1>10, <1>13, <1>14, <2>1, <2>2, Zenon DEF Todo, t
  <2>. QED BY <1>1, <1>10, <2>1, <2>3, Zenon
<1>16. Idle'
  <2>. SUFFICES ASSUME stat # "marking"
                PROVE  /\ t.mark_bits \ sweep_pages \subseteq t.long_lived_bits
                       /\ \A x \in Kept : /\ RVALUE_OLD_P(t, x) => x \in t.long_lived_bits
                                          /\ Recorded(objspace, x)'
    BY <1>2, <1>11, Zenon DEF Idle, t
  <2>1. /\ s.mark_bits \ sweep_pages \subseteq s.long_lived_bits
        /\ \A x \in Kept : /\ RVALUE_OLD_P(s, x) => x \in s.long_lived_bits
                           /\ Recorded(s, x)
    BY Zenon DEF IInv, Idle, s
  <2>2. t.mark_bits \ sweep_pages \subseteq t.long_lived_bits
    BY <1>4, <2>1, Zenon
  <2>3. ASSUME NEW x \in Kept
        PROVE  (RVALUE_OLD_P(t, x) => x \in t.long_lived_bits) /\ Recorded(objspace, x)'
    <3>1. x \in Slots
      BY <1>1, Zenon DEF Kept
    <3>. QED BY <1>6, <1>10, <1>13, <1>14, <2>1, <3>1, Zenon
  <2>. QED BY <2>2, <2>3, Zenon
<1>17. Doomed'
  BY <1>1, <1>2, <1>10, Zenon DEF IInv, Doomed, s, t
<1>18. Blank'
  <2>1. \A x \in Slots \ live : x # o /\ t.age[x] = s.age[x] /\ (x \in t.long_lived_bits => x \in s.long_lived_bits)
    BY <1>1, <1>4, <1>5, Zenon
  <2>. QED BY <1>2, <1>3, <2>1, Zenon DEF IInv, Blank, s, t, W
<1>19. Typed' /\ Phases'
  BY <1>2, <1>3, Zenon DEF IInv, Typed, Phases, s, t
<1>. QED BY <1>8, <1>9, <1>12, <1>15, <1>16, <1>17, <1>18, <1>19 DEF IInv, t

\* rb_gc_force_recycle takes the object's bits, and perhaps its mark bit.
LEMMA RecycleIs ==
  ASSUME IInv, NEW o \in Slots, rb_gc_force_recycle(o)
  PROVE  LET s == objspace
             t == objspace'
         IN /\ t \in Space
            /\ t.age = [s.age EXCEPT ![o] = 0]
            /\ t.old_objects = IF RVALUE_OLD_P(s, o) /\ o \in s.mark_bits
                                 THEN s.old_objects - 1 ELSE s.old_objects
            /\ t.long_lived_bits = s.long_lived_bits \ {o}
            /\ t.wb_unprotected_bits = s.wb_unprotected_bits \ {o}
            /\ t.mark_stack = invalidate_mark_stack(s.mark_stack, o)
            /\ t.marking_bits = s.marking_bits \ {o}
            /\ t.mark_bits \in {s.mark_bits, s.mark_bits \ {o}}
            /\ s.during_incremental_marking \/ o \notin sweep_pages => t.mark_bits = s.mark_bits \ {o}
            /\ t.during_minor_gc = s.during_minor_gc
            /\ t.during_incremental_marking = s.during_incremental_marking
<1>. DEFINE s == objspace
            t == objspace'
            cleared == s.during_incremental_marking \/ RVALUE_OLD_P(s, o) \/ o \notin sweep_pages
            a == [s.age EXCEPT ![o] = 0]
            n == IF RVALUE_OLD_P(s, o) /\ o \in s.mark_bits THEN s.old_objects - 1 ELSE s.old_objects
            l == s.long_lived_bits \ {o}
            w == s.wb_unprotected_bits \ {o}
            k == invalidate_mark_stack(s.mark_stack, o)
            m == IF cleared THEN s.mark_bits \ {o} ELSE s.mark_bits
            g == s.marking_bits \ {o}
<1>1. t = [s EXCEPT !.age = a, !.old_objects = n, !.long_lived_bits = l, !.wb_unprotected_bits = w,
                    !.mark_stack = k, !.mark_bits = m, !.marking_bits = g]
  BY Zenon DEF rb_gc_force_recycle
<1>2. s \in Space
  BY Zenon DEF IInv, Sound
<1>3. RVALUE_OLD_P(s, o) /\ o \in s.mark_bits => s.old_objects # 0
  <2>1. RVALUE_OLD_P(s, o) /\ o \in s.mark_bits => o \in Olds(s)
    BY Zenon DEF IInv, Sound, Coherent, Olds
  <2>2. IsFiniteSet(Olds(s)) /\ s.old_objects = Cardinality(Olds(s))
    BY <1>2, Parts, SlotsCounted, Zenon DEF IInv, Sound, Olds
  <2>. QED BY <2>1, <2>2, FS_EmptySet, Zenon
<1>4. n \in Nat /\ l \in SUBSET Slots /\ w \in SUBSET Slots /\ m \in SUBSET Slots /\ g \in SUBSET Slots
  BY <1>2, <1>3, Parts
<1>5. a \in [Slots -> 0 .. RVALUE_OLD_AGE] /\ k \in Seq(Slots)
  <2>1. 0 \in 0 .. RVALUE_OLD_AGE
    BY GCAssumption
  <2>2. a \in [Slots -> 0 .. RVALUE_OLD_AGE]
    BY <1>2, <2>1, Parts, Zenon
  <2>. QED BY <1>2, <2>2, Parts, Invalidated, Zenon
<1>6. m \in {s.mark_bits, s.mark_bits \ {o}} /\ (cleared => m = s.mark_bits \ {o})
  BY Zenon
<1>. HIDE DEF s, t, a, n, l, w, k, m, g
<1>7. t \in Space
  BY <1>1, <1>2, <1>4, <1>5, Zenon DEF Space
<1>8. /\ t.age = a /\ t.old_objects = n /\ t.long_lived_bits = l /\ t.wb_unprotected_bits = w
      /\ t.mark_stack = k /\ t.mark_bits = m /\ t.marking_bits = g
      /\ t.during_minor_gc = s.during_minor_gc
      /\ t.during_incremental_marking = s.during_incremental_marking
  BY <1>1, <1>2, Zenon DEF Space
<1>. QED BY <1>6, <1>7, <1>8, Zenon DEF s, t, a, n, l, w, k, g

\* Recycling the only object nothing refers to takes nothing away that is in use.
LEMMA RecycleKeeps ==
  ASSUME IInv, NEW o \in Slots, rb_gc_force_recycle(o)
  PROVE  IInv'
<1>. DEFINE s == objspace
            t == objspace'
<1>1. /\ s \in Space /\ s.mark_bits \subseteq Slots /\ s.long_lived_bits \subseteq Slots
      /\ o \in roots /\ o \in Kept /\ o \in live /\ o \notin doomed /\ live \subseteq Slots
      /\ s.mark_stack \in Seq(Slots)
  BY Parts, Zenon DEF IInv, Sound, Heap, Kept, Doomed, Typed, rb_gc_force_recycle
<1>2. /\ live' = live \ {o} /\ roots' = roots \ {o} /\ \A x \in live : ref[x] # o
      /\ UNCHANGED <<stat, sweep_pages, doomed>>
  BY Zenon DEF rb_gc_force_recycle
<1>3. ref' \in [Slots -> Slots \cup {0}] /\ ref'[o] = 0 /\ \A x \in Slots \ {o} : ref'[x] = ref[x]
  BY Zenon DEF IInv, Typed, rb_gc_force_recycle
<1>4. /\ t \in Space
      /\ t.long_lived_bits = s.long_lived_bits \ {o}
      /\ t.wb_unprotected_bits = s.wb_unprotected_bits \ {o}
      /\ t.marking_bits = s.marking_bits \ {o}
      /\ t.mark_bits \in {s.mark_bits, s.mark_bits \ {o}}
      /\ s.during_incremental_marking \/ o \notin sweep_pages => t.mark_bits = s.mark_bits \ {o}
      /\ t.during_minor_gc = s.during_minor_gc
      /\ t.during_incremental_marking = s.during_incremental_marking
  BY RecycleIs, Zenon
<1>5. /\ t.old_objects = IF RVALUE_OLD_P(s, o) /\ o \in s.mark_bits
                           THEN s.old_objects - 1 ELSE s.old_objects
  BY RecycleIs, Zenon
<1>6. (IsInjective(s.mark_stack) => IsInjective(t.mark_stack) /\ Range(t.mark_stack) = Range(s.mark_stack) \ {o})
      /\ (s.mark_stack = <<>> => t.mark_stack = <<>>)
  <2>1. t.mark_stack = invalidate_mark_stack(s.mark_stack, o)
    BY RecycleIs, Zenon
  <2>. HIDE DEF s, t
  <2>. QED BY <1>1, <2>1, Invalidated, Zenon
<1>8. t.age[o] = 0 /\ \A x \in Slots \ {o} : t.age[x] = s.age[x]
  <2>1. t.age = [s.age EXCEPT ![o] = 0]
    BY RecycleIs, Zenon
  <2>2. s.age \in [Slots -> 0 .. RVALUE_OLD_AGE]
    BY <1>1, Parts, Zenon
  <2>. QED BY <2>1, <2>2, Zenon
<1>9. ~RVALUE_OLD_P(t, o) /\ \A x \in Slots \ {o} : RVALUE_OLD_P(t, x) <=> RVALUE_OLD_P(s, x)
  BY <1>8, GCAssumption, Zenon DEF RVALUE_OLD_P
<1>. HIDE DEF s, t
<1>10. \A x \in Slots : Coherent(s, x)
  BY Zenon DEF IInv, Sound, s
<1>11. Sound(t, Slots)
  <2>1. ASSUME NEW x \in Slots PROVE Coherent(t, x)
    BY <1>4, <1>8, <1>9, <1>10, Zenon DEF Coherent
  <2>2. Olds(t) = Olds(s) \ {o} /\ (o \in Olds(s) <=> RVALUE_OLD_P(s, o) /\ o \in s.mark_bits)
    BY <1>1, <1>4, <1>9, <1>10, Zenon DEF Olds, Coherent
  <2>3. IsFiniteSet(Olds(s)) /\ s.old_objects = Cardinality(Olds(s)) /\ Cardinality(Olds(s)) \in Nat
    BY <1>1, SlotsCounted DEF IInv, Sound, Olds, s
  <2>4. t.old_objects = Cardinality(Olds(t))
    <3>1. CASE o \in Olds(s)
      BY <1>5, <2>2, <2>3, <3>1, FS_RemoveElement, Zenon
    <3>2. CASE o \notin Olds(s)
      <4>1. Olds(t) = Olds(s)
        BY <2>2, <3>2, Zenon
      <4>. QED BY <1>5, <2>2, <2>3, <3>2, <4>1, Zenon
    <3>. QED BY <3>1, <3>2, Zenon
  <2>. QED BY <1>1, <1>4, <2>1, <2>4, Zenon DEF Sound
<1>12. Stacked(t, {})
  <2>1. Stacked(s, {}) /\ (~s.during_incremental_marking => s.mark_stack = <<>>)
    BY Zenon DEF IInv, Phases, s
  <2>2. Range(<<>>) = {}
    BY DEF Range
  <2>. QED BY <1>4, <1>6, <2>1, <2>2, Zenon DEF Stacked
<1>13. Kept' = Kept \ {o}
  BY <1>2, <1>4, Zenon DEF Kept, s, t
<1>14. Heap(Kept)'
  <2>1. Kept \subseteq live
    BY Zenon DEF Kept
  <2>. QED BY <1>1, <1>2, <1>3, <1>13, <2>1, Zenon DEF IInv, Heap
<1>15. ASSUME NEW x \in live, x # o
       PROVE  /\ Recorded(s, x) => Recorded(objspace, x)'
              /\ Scanned(s, x) => Scanned(objspace, x)'
  <2>1. x \in Slots /\ ref'[x] = ref[x] /\ ref[x] # o /\ (ref[x] = 0 \/ ref[x] \in Slots)
    BY <1>1, <1>2, <1>3, <1>15, Zenon
  <2>2. Scanned(s, x) => Scanned(objspace, x)'
    BY <1>4, <2>1, Zenon DEF Scanned, t
  <2>3. NoYoung(s, x) => NoYoung(objspace, x)'
    BY <1>4, <1>9, <1>15, <2>1, Zenon DEF NoYoung, t
  <2>. QED BY <1>4, <1>15, <2>2, <2>3, Zenon DEF Recorded, t
<1>16. Marking'
  <2>. SUFFICES ASSUME stat = "marking"
                PROVE  t.mark_bits \subseteq live \ {o} /\ Todo(objspace, objspace.wb_unprotected_bits)'
    BY <1>2, Zenon DEF Marking, t
  <2>1. s.mark_bits \subseteq live /\ Todo(s, s.wb_unprotected_bits) /\ s.during_incremental_marking /\ Stacked(s, {})
    BY Zenon DEF IInv, Marking, Phases, s
  <2>2. t.mark_bits = s.mark_bits \ {o} /\ Range(t.mark_stack) = Range(s.mark_stack) \ {o}
    BY <1>4, <1>6, <2>1, Zenon DEF Stacked
  <2>3. Todo(objspace, objspace.wb_unprotected_bits)'
    BY <1>4, <1>15, <2>1, <2>2, Zenon DEF Todo, t
  <2>. QED BY <2>1, <2>2, <2>3, Zenon
<1>17. Idle'
  <2>. SUFFICES ASSUME stat # "marking"
                PROVE  /\ t.mark_bits \ sweep_pages \subseteq t.long_lived_bits
                       /\ \A x \in Kept \ {o} : /\ RVALUE_OLD_P(t, x) => x \in t.long_lived_bits
                                                /\ Recorded(objspace, x)'
    BY <1>2, <1>13, Zenon DEF Idle, t
  <2>1. /\ s.mark_bits \ sweep_pages \subseteq s.long_lived_bits
        /\ \A x \in Kept : /\ RVALUE_OLD_P(s, x) => x \in s.long_lived_bits
                           /\ Recorded(s, x)
    BY Zenon DEF IInv, Idle, s
  <2>2. t.mark_bits \ sweep_pages \subseteq t.long_lived_bits
    BY <1>4, <2>1, Zenon
  <2>3. Kept \subseteq live
    BY Zenon DEF Kept
  <2>4. ASSUME NEW x \in Kept \ {o}
        PROVE  (RVALUE_OLD_P(t, x) => x \in t.long_lived_bits) /\ Recorded(objspace, x)'
    BY <1>1, <1>4, <1>9, <1>15, <2>1, <2>3, Zenon
  <2>. QED BY <2>2, <2>4, Zenon
<1>18. Doomed'
  <2>1. \A x \in live \ {o} : ref'[x] = ref[x]
    BY <1>1, <1>3, Zenon
  <2>. QED BY <1>1, <1>2, <1>4, <2>1, Zenon DEF IInv, Doomed, s, t
<1>19. Blank'
  <2>1. \A x \in Slots \ live : x # o
    BY <1>1, Zenon
  <2>. QED BY <1>2, <1>3, <1>4, <1>8, <2>1, Zenon DEF IInv, Blank, s, t
<1>20. Typed' /\ Phases'
  BY <1>2, <1>3, <1>4, <1>6, Zenon DEF IInv, Typed, Phases, s, t
<1>. QED BY <1>11, <1>12, <1>14, <1>16, <1>17, <1>18, <1>19, <1>20, Zenon DEF IInv, t

\* gc_page_sweep frees the slot of the page unless it is marked, and makes its
\* long-lived bit its mark bit.
LEMMA SweepIs ==
  ASSUME IInv, gc_page_sweep
  PROVE  \E o \in sweep_pages :
           LET s == objspace
               t == objspace'
               freed == live \cap ({o} \ s.mark_bits)
           IN /\ stat = "sweeping" /\ roots' = roots
              /\ live' = live \ freed /\ doomed' = doomed \ freed
              /\ ref' = [p \in Slots |-> IF p \in freed THEN 0 ELSE ref[p]]
              /\ sweep_pages' = sweep_pages \ {o}
              /\ stat' = IF sweep_pages = {o} THEN "none" ELSE stat
              /\ t \in Space
              /\ t.mark_bits = (s.mark_bits \ {o}) \cup (s.long_lived_bits \cap {o})
              /\ t.age = [p \in Slots |-> IF p \in freed THEN 0 ELSE s.age[p]]
              /\ t.wb_unprotected_bits = s.wb_unprotected_bits \ freed
              /\ t.marking_bits = s.marking_bits /\ t.long_lived_bits = s.long_lived_bits
              /\ t.mark_stack = s.mark_stack /\ t.old_objects = s.old_objects
              /\ t.during_minor_gc = s.during_minor_gc
              /\ t.during_incremental_marking = s.during_incremental_marking
<1>. DEFINE o == CHOOSE p \in sweep_pages : \A q \in sweep_pages : p <= q
            s == objspace
            freed == live \cap ({o} \ s.mark_bits)
            m == (s.mark_bits \ {o}) \cup (s.long_lived_bits \cap {o})
            w == s.wb_unprotected_bits \ freed
            a == [p \in Slots |-> IF p \in freed THEN 0 ELSE s.age[p]]
            t == [s EXCEPT !.mark_bits = m, !.wb_unprotected_bits = w, !.age = a]
<1>1. o \in sweep_pages
  <2>1. sweep_pages # {} /\ sweep_pages \in SUBSET Nat
    BY DEF gc_page_sweep, IInv, Phases, Typed, Slots
  <2>. QED BY <2>1, Least, Zenon
<1>2. objspace' = t
  BY Zenon DEF gc_page_sweep
<1>3. s \in Space /\ m \in SUBSET Slots /\ w \in SUBSET Slots /\ a \in [Slots -> 0 .. RVALUE_OLD_AGE]
  <2>1. s \in Space
    BY Zenon DEF IInv, Sound
  <2>2. 0 \in 0 .. RVALUE_OLD_AGE
    BY GCAssumption
  <2>. QED BY <2>1, <2>2, Parts, Zenon
<1>. HIDE DEF m, w, a, s
<1>4. t \in Space
  BY <1>3, Zenon DEF Space
<1>5. /\ t.mark_bits = m /\ t.age = a /\ t.wb_unprotected_bits = w
      /\ t.marking_bits = s.marking_bits /\ t.long_lived_bits = s.long_lived_bits
      /\ t.mark_stack = s.mark_stack /\ t.old_objects = s.old_objects
      /\ t.during_minor_gc = s.during_minor_gc
      /\ t.during_incremental_marking = s.during_incremental_marking
  BY <1>3, Zenon DEF Space
<1>. HIDE DEF t, o
<1>6. /\ stat = "sweeping" /\ roots' = roots
      /\ live' = live \ freed /\ doomed' = doomed \ freed
      /\ ref' = [p \in Slots |-> IF p \in freed THEN 0 ELSE ref[p]]
      /\ sweep_pages' = sweep_pages \ {o}
      /\ stat' = IF sweep_pages = {o} THEN "none" ELSE stat
  BY Zenon DEF gc_page_sweep, s, o
<1>. QED BY <1>1, <1>2, <1>4, <1>5, <1>6, Zenon DEF s, m, w, a

\* The sweep frees no object that is kept, and leaves of a freed one nothing behind.
LEMMA SweepKeeps ==
  ASSUME IInv, gc_page_sweep
  PROVE  IInv'
<1>. DEFINE s == objspace
            t == objspace'
            Freed(o) == live \cap ({o} \ s.mark_bits)
<1>1. PICK o \in sweep_pages :
        /\ stat = "sweeping" /\ roots' = roots
        /\ live' = live \ Freed(o) /\ doomed' = doomed \ Freed(o)
        /\ ref' = [p \in Slots |-> IF p \in Freed(o) THEN 0 ELSE ref[p]]
        /\ sweep_pages' = sweep_pages \ {o}
        /\ stat' = IF sweep_pages = {o} THEN "none" ELSE stat
        /\ t \in Space
        /\ t.mark_bits = (s.mark_bits \ {o}) \cup (s.long_lived_bits \cap {o})
        /\ t.age = [p \in Slots |-> IF p \in Freed(o) THEN 0 ELSE s.age[p]]
        /\ t.wb_unprotected_bits = s.wb_unprotected_bits \ Freed(o)
        /\ t.marking_bits = s.marking_bits /\ t.long_lived_bits = s.long_lived_bits
        /\ t.mark_stack = s.mark_stack /\ t.old_objects = s.old_objects
        /\ t.during_minor_gc = s.during_minor_gc
        /\ t.during_incremental_marking = s.during_incremental_marking
  BY SweepIs, Zenon
<1>. DEFINE freed == Freed(o)
<1>2. /\ s \in Space /\ s.mark_bits \subseteq Slots /\ s.long_lived_bits \subseteq Slots
      /\ live \subseteq Slots /\ ref \in [Slots -> Slots \cup {0}] /\ sweep_pages \subseteq Slots
  BY Parts, Zenon DEF IInv, Sound, Typed
<1>3. /\ \A x \in Slots : t.age[x] = IF x \in freed THEN 0 ELSE s.age[x]
      /\ \A x \in Slots : ref'[x] = IF x \in freed THEN 0 ELSE ref[x]
      /\ ref' \in [Slots -> Slots \cup {0}]
  BY <1>1, <1>2, Zenon
<1>4. freed \subseteq {o} /\ freed \cap s.mark_bits = {} /\ freed \subseteq live /\ (o \in live \ s.mark_bits => o \in freed)
  BY Zenon
<1>. HIDE DEF s, t, freed, Freed
<1>5. \A x \in Slots : Coherent(s, x)
  BY Zenon DEF IInv, Sound, s
<1>6. \A x \in s.long_lived_bits : x \notin freed /\ x \in s.mark_bits
  BY <1>2, <1>4, <1>5, Zenon DEF Coherent
<1>7. \A x \in Slots : RVALUE_OLD_P(t, x) <=> RVALUE_OLD_P(s, x) /\ x \notin freed
  BY <1>3, GCAssumption, Zenon DEF RVALUE_OLD_P
<1>8. Kept' = Kept /\ freed \cap Kept = {}
  BY <1>1, <1>2, <1>4, <1>6 DEF Kept, s, t, freed
<1>9. ~s.during_incremental_marking /\ s.marking_bits \subseteq s.long_lived_bits /\ Stacked(s, {})
      /\ s.mark_stack = <<>>
  BY <1>1, Zenon DEF IInv, Phases, Stacked, s
<1>10. Sound(t, Slots)
  <2>1. ASSUME NEW x \in Slots PROVE Coherent(t, x)
    BY <1>1, <1>3, <1>5, <1>6, <1>7, <1>9, Zenon DEF Coherent, freed
  <2>2. Olds(t) = Olds(s)
    BY <1>1, <1>2, <1>6, <1>7, Zenon DEF Olds
  <2>3. s.old_objects = Cardinality(Olds(s))
    BY Zenon DEF IInv, Sound, s
  <2>4. t.mark_bits \subseteq Slots
    BY <1>1, Parts, Zenon
  <2>. QED BY <1>1, <2>1, <2>2, <2>3, <2>4, Zenon DEF Sound
<1>11. Stacked(t, {})
  <2>1. Range(<<>>) = {}
    BY DEF Range
  <2>. QED BY <1>1, <1>9, <2>1, Zenon DEF Stacked
<1>12. Heap(Kept)'
  <2>1. Kept \subseteq Slots
    BY <1>2, Zenon DEF Kept
  <2>2. \A x \in Kept : ref'[x] = ref[x]
    BY <1>3, <1>8, <2>1, Zenon
  <2>. QED BY <1>1, <1>8, <2>2, Zenon DEF IInv, Heap
<1>13. Idle'
  <2>1. /\ s.mark_bits \ sweep_pages \subseteq s.long_lived_bits
        /\ \A x \in Kept : /\ RVALUE_OLD_P(s, x) => x \in s.long_lived_bits
                           /\ Recorded(s, x)
    BY <1>1, Zenon DEF IInv, Idle, s
  <2>2. t.mark_bits \ sweep_pages' \subseteq t.long_lived_bits
    BY <1>1, <2>1, Zenon
  <2>3. ASSUME NEW x \in Kept
        PROVE  (RVALUE_OLD_P(t, x) => x \in t.long_lived_bits) /\ Recorded(objspace, x)'
    <3>1. x \in Slots /\ ref'[x] = ref[x] /\ x \notin freed
      BY <1>2, <1>3, <1>8, <2>3, Zenon DEF Kept
    <3>2. ref[x] # 0 => ref[x] \in Slots /\ ref[x] \notin freed
      BY <1>2, <1>8, <2>3, <3>1, Zenon DEF IInv, Heap
    <3>3. NoYoung(s, x) => NoYoung(objspace, x)'
      BY <1>1, <1>7, <3>1, <3>2, Zenon DEF NoYoung, t, freed
    <3>. QED BY <1>1, <1>7, <2>1, <2>3, <3>1, <3>3, Zenon DEF Recorded, t
  <2>. QED BY <1>8, <2>2, <2>3, Zenon DEF Idle, t
<1>14. Doomed'
  <2>1. doomed \cap s.mark_bits = {} /\ doomed \subseteq sweep_pages /\ doomed \subseteq live
    BY <1>1, Zenon DEF IInv, Doomed, s
  <2>2. t.mark_bits \subseteq s.mark_bits
    BY <1>1, <1>6, Zenon
  <2>3. doomed' \subseteq sweep_pages'
    BY <1>1, <1>4, <2>1, Zenon DEF freed
  <2>4. \A x \in live' : ref'[x] = ref[x] /\ (x \notin doomed' => x \notin doomed)
    BY <1>1, <1>2, <1>3, Zenon DEF freed
  <2>. QED BY <1>1, <2>1, <2>2, <2>3, <2>4 DEF IInv, Doomed, t
<1>15. Blank'
  <2>. SUFFICES ASSUME NEW x \in Slots \ live'
                PROVE  ref'[x] = 0 /\ t.age[x] = 0 /\ x \notin t.wb_unprotected_bits \cup t.long_lived_bits
    BY Zenon DEF Blank, t
  <2>1. CASE x \in freed
    BY <1>1, <1>3, <1>6, <2>1, Zenon DEF freed
  <2>2. CASE x \notin freed
    <3>1. x \notin live
      BY <1>1, <2>2, Zenon DEF freed
    <3>2. ref[x] = 0 /\ s.age[x] = 0 /\ x \notin s.wb_unprotected_bits \cup s.long_lived_bits
      BY <3>1, Zenon DEF IInv, Blank, s
    <3>. QED BY <1>1, <1>3, <2>2, <3>2, Zenon
  <2>. QED BY <2>1, <2>2, Zenon
<1>16. Typed' /\ Phases' /\ Marking'
  <2>1. Typed'
    BY <1>1, <1>2, <1>3, Zenon DEF Typed
  <2>2. sweep_pages' # {} <=> stat' = "sweeping"
    BY <1>1, Zenon
  <2>3. stat' # "marking" /\ ~t.during_incremental_marking /\ t.mark_stack = <<>>
    BY <1>1, <1>9, Zenon
  <2>. QED BY <2>1, <2>2, <2>3, Zenon DEF Phases, Marking, t
<1>. QED BY <1>10, <1>11, <1>12, <1>13, <1>14, <1>15, <1>16 DEF IInv, t

\* The sweep starts when all that is marked has been scanned.
LEMMA SweepStarts ==
  ASSUME IInv, NEW K \in SUBSET live, UNCHANGED <<ref, live, roots>>,
         stat' = "sweeping", sweep_pages' = Slots,
         MarkInv(objspace', K, {}, {}), objspace'.mark_stack = <<>>,
         ~objspace'.during_incremental_marking, roots \subseteq objspace'.mark_bits,
         objspace'.wb_unprotected_bits = objspace.wb_unprotected_bits,
         \A x \in Slots \ live : objspace'.age[x] = objspace.age[x],
         doomed' \subseteq live \ K, \A o \in live \ doomed' : ref[o] \notin doomed'
  PROVE  IInv'
<1>. DEFINE t == objspace'
            M == t.mark_bits
<1>1. t \in Space /\ Sound(t, K) /\ Stacked(t, {}) /\ Todo(t, {}) /\ M \subseteq K /\ M \subseteq live
  BY Zenon DEF MarkInv, Sound
<1>2. live \subseteq Slots /\ ref \in [Slots -> Slots \cup {0}]
  BY Zenon DEF IInv, Typed
<1>3. \A o \in M : Scanned(t, o) /\ Recorded(t, o)
  BY <1>1 DEF Todo, Range
<1>4. Kept' = M
  BY <1>1, <1>2, Zenon DEF Kept
<1>5. Heap(Kept)'
  BY <1>1, <1>2, <1>3, <1>4, Zenon DEF Heap, Scanned
<1>6. Sound(t, Slots)
  BY <1>1, <1>2, SoundMore, Zenon
<1>7. Idle'
  <2>1. \A o \in M : RVALUE_OLD_P(t, o) => o \in t.long_lived_bits
    BY <1>1, <1>2, Zenon DEF Sound, Coherent
  <2>2. \A o \in M : Recorded(objspace, o)'
    BY <1>3, Zenon DEF Recorded, NoYoung
  <2>3. M \ Slots = {}
    BY <1>1, <1>2, Zenon
  <2>. QED BY <1>4, <2>1, <2>2, <2>3, Zenon DEF Idle
<1>8. Doomed'
  BY <1>1, <1>2, Zenon DEF Doomed
<1>9. Blank'
  <2>1. \A x \in Slots : x \in t.long_lived_bits => x \in live
    BY <1>1, Zenon DEF Sound, Coherent
  <2>. QED BY <2>1, Zenon DEF IInv, Blank
<1>10. Typed' /\ Phases' /\ Marking'
  <2>1. Slots # {}
    BY GCAssumption DEF Slots
  <2>. QED BY <1>2, <2>1, Zenon DEF Typed, Phases, Marking
<1>. QED BY <1>1, <1>5, <1>6, <1>7, <1>8, <1>9, <1>10 DEF IInv

\* A full collection takes all marks and starts from the roots.
LEMMA FullStart ==
  ASSUME IInv, NEW immediate \in BOOLEAN, gc_start(TRUE, immediate)
  PROVE  IInv'
<1>. DEFINE s == objspace
            K == Reachable
            f == [s EXCEPT !.during_minor_gc = FALSE, !.during_incremental_marking = ~immediate]
            c == rgengc_mark_and_rememberset_clear(f)
            z == [c EXCEPT !.old_objects = 0]
            r == gc_mark_roots(z)
<1>1. /\ stat = "none" /\ UNCHANGED <<ref, live, roots>> /\ doomed' = live \ K
      /\ IF ~immediate
           THEN objspace' = r /\ stat' = "marking" /\ UNCHANGED sweep_pages
           ELSE objspace' = gc_mark_stacked_objects_all(r) /\ stat' = "sweeping" /\ sweep_pages' = Slots
  BY Zenon DEF gc_start
<1>2. /\ ref \in [Slots -> Slots \cup {0}] /\ live \subseteq Slots /\ sweep_pages = {}
      /\ Heap(live) /\ roots \subseteq live
  <2>1. sweep_pages = {} /\ Kept = live
    BY <1>1, Zenon DEF IInv, Phases, Kept
  <2>. QED BY <2>1, Zenon DEF IInv, Typed, Heap
<1>3. Heap(K) /\ K \subseteq live /\ K \in SUBSET live /\ roots \subseteq K
  <2>1. Heap(K) /\ K \subseteq live
    BY <1>2, ReachableLeast, Zenon
  <2>. HIDE DEF K
  <2>. QED BY <2>1, Zenon DEF Heap
<1>. HIDE DEF K
<1>4. /\ z \in Space /\ z.mark_bits = {} /\ z.marking_bits = {} /\ z.long_lived_bits = {}
      /\ z.wb_unprotected_bits = s.wb_unprotected_bits /\ z.age = s.age
      /\ z.mark_stack = <<>> /\ z.old_objects = 0
      /\ z.during_minor_gc = FALSE /\ z.during_incremental_marking = ~immediate
  <2>1. s \in Space /\ s.mark_stack = <<>>
    BY <1>1, Zenon DEF IInv, Sound, Phases
  <2>2. /\ f \in Space /\ f.wb_unprotected_bits = s.wb_unprotected_bits /\ f.age = s.age
        /\ f.mark_stack = <<>> /\ f.during_minor_gc = FALSE /\ f.during_incremental_marking = ~immediate
    BY <2>1, Zenon DEF Space
  <2>. HIDE DEF f
  <2>3. z = [f EXCEPT !.mark_bits = {}, !.marking_bits = {}, !.long_lived_bits = {}, !.old_objects = 0]
    BY <2>2, Zenon DEF rgengc_mark_and_rememberset_clear, Space
  <2>4. {} \in SUBSET Slots /\ 0 \in Nat
    BY Zenon
  <2>. HIDE DEF z
  <2>. QED BY <2>2, <2>3, <2>4, Zenon DEF Space
<1>. HIDE DEF z, s
<1>5. MarkInv(z, K, {}, {})
  <2>1. Olds(z) = {} /\ \A o \in Slots : (o \in z.wb_unprotected_bits => z.age[o] = 0)
    BY <1>4, Zenon DEF Olds, IInv, Sound, Coherent, s
  <2>2. Sound(z, K)
    BY <1>4, <2>1, FS_EmptySet, Zenon DEF Sound, Coherent
  <2>3. Range(<<>>) = {} /\ IsInjective(<<>>)
    BY DEF Range, IsInjective
  <2>4. Stacked(z, {})
    BY <1>4, <2>3, Zenon DEF Stacked
  <2>5. Todo(z, {})
    BY <1>4, Zenon DEF Todo
  <2>. QED BY <2>2, <2>4, <2>5, Zenon DEF MarkInv
<1>6. MarkInv(r, K, {}, {}) /\ Grown(z, r) /\ roots \subseteq r.mark_bits
  BY <1>2, <1>3, <1>5, MarkRoots, Zenon
<1>. HIDE DEF r
<1>7. r \in Space /\ Advanced(z, r) /\ r.mark_bits \subseteq K
  BY <1>6, Zenon DEF MarkInv, Sound, Grown
<1>8. \A o \in live \ doomed' : ref[o] \notin doomed'
  <2>1. live \ doomed' = K
    BY <1>1, <1>3, Zenon
  <2>2. 0 \notin live
    BY <1>2 DEF Slots
  <2>. QED BY <1>1, <1>3, <2>1, <2>2, Zenon DEF Heap
<1>9. CASE ~immediate
  <2>1. objspace' = r /\ stat' = "marking" /\ sweep_pages' = {}
    BY <1>1, <1>2, <1>9, Zenon
  <2>2. Kept' = live
    BY <1>1, <2>1, Zenon DEF Kept
  <2>3. Sound(r, Slots) /\ Stacked(r, {}) /\ Todo(r, {})
    BY <1>2, <1>3, <1>6, <1>7, SoundMore, Zenon DEF MarkInv
  <2>4. Heap(Kept)'
    BY <1>1, <1>2, <2>2, Zenon DEF Heap
  <2>5. Marking'
    BY <1>1, <1>3, <1>7, <2>1, <2>3, Zenon DEF Marking, Todo, Scanned, Recorded, NoYoung
  <2>6. Doomed'
    BY <1>1, <1>3, <1>7, <1>8, <2>1, Zenon DEF Doomed
  <2>7. Blank'
    <3>1. \A x \in Slots : x \in r.long_lived_bits => x \in live
      BY <1>3, <1>7, <2>3, Zenon DEF Sound, Coherent
    <3>2. \A x \in Slots \ live : r.age[x] = s.age[x]
      BY <1>3, <1>4, <1>7, Zenon DEF Advanced
    <3>3. r.wb_unprotected_bits = s.wb_unprotected_bits
      BY <1>4, <1>7, Zenon DEF Advanced
    <3>. QED BY <1>1, <2>1, <3>1, <3>2, <3>3, Zenon DEF IInv, Blank, s
  <2>8. r.during_incremental_marking /\ ~r.during_minor_gc
    BY <1>4, <1>7, <1>9, Zenon DEF Advanced
  <2>9. Typed' /\ Phases' /\ Idle'
    BY <1>1, <1>2, <2>1, <2>8, Zenon DEF Typed, Phases, Idle
  <2>. QED BY <2>1, <2>3, <2>4, <2>5, <2>6, <2>7, <2>9, Zenon DEF IInv
<1>10. CASE immediate
  <2>. DEFINE t == gc_mark_stacked_objects_all(r)
  <2>1. objspace' = t /\ stat' = "sweeping" /\ sweep_pages' = Slots
    BY <1>1, <1>10, Zenon
  <2>2. ~r.during_incremental_marking
    BY <1>4, <1>7, <1>10, Zenon DEF Advanced
  <2>3. Len(r.mark_stack) <= Cardinality(r.mark_bits)
    <3>1. Len(z.mark_stack) <= Cardinality(z.mark_bits)
      BY <1>4, FS_EmptySet
    <3>. QED BY <1>4, <1>7, <1>10, <3>1, StackShort, Zenon
  <2>4. MarkInv(t, K, {}, {}) /\ Grown(r, t) /\ t.mark_stack = <<>>
    BY <1>2, <1>3, <1>6, <2>2, <2>3, DrainEmpties, Zenon
  <2>. HIDE DEF t
  <2>5. Advanced(z, t) /\ roots \subseteq t.mark_bits /\ t.mark_bits \subseteq K
    <3>1. t \in Space /\ Advanced(r, t) /\ t.mark_bits \subseteq K
      BY <2>4, Zenon DEF MarkInv, Sound, Grown
    <3>2. Advanced(z, t)
      BY <1>4, <1>7, <3>1, AdvancedOn, Zenon
    <3>. QED BY <1>6, <3>1, <3>2, Zenon DEF Advanced
  <2>6. \A x \in Slots \ live : t.age[x] = s.age[x]
    BY <1>3, <1>4, <2>5, Zenon DEF Advanced
  <2>7. t.wb_unprotected_bits = s.wb_unprotected_bits /\ ~t.during_incremental_marking
    BY <1>4, <1>10, <2>5, Zenon DEF Advanced
  <2>. QED BY <1>1, <1>3, <1>8, <2>1, <2>4, <2>5, <2>6, <2>7, SweepStarts, SMTT(20) DEF s
<1>. QED BY <1>9, <1>10, Zenon

\* A minor collection starts from the remember set and the roots.
LEMMA MinorStart ==
  ASSUME IInv, NEW immediate \in BOOLEAN, gc_start(FALSE, immediate)
  PROVE  IInv'
<1>. DEFINE s == objspace
            K == live
            f == [s EXCEPT !.during_minor_gc = TRUE, !.during_incremental_marking = FALSE]
            q == rgengc_rememberset_mark(f)
            r == gc_mark_roots(q)
            t == gc_mark_stacked_objects_all(r)
<1>1. /\ stat = "none" /\ UNCHANGED <<ref, live, roots>> /\ doomed' = {}
      /\ objspace' = t /\ stat' = "sweeping" /\ sweep_pages' = Slots
  BY Zenon DEF gc_start
<1>2. /\ ref \in [Slots -> Slots \cup {0}] /\ live \subseteq Slots /\ sweep_pages = {}
      /\ Kept = live /\ Heap(K)
  <2>1. sweep_pages = {} /\ Kept = live
    BY <1>1, Zenon DEF IInv, Phases, Kept
  <2>. QED BY <2>1, Zenon DEF IInv, Typed, Heap
<1>. HIDE DEF t, r, q
<1>3. /\ s \in Space /\ s.mark_stack = <<>> /\ Stacked(s, {}) /\ ~s.during_incremental_marking
      /\ \A o \in Slots : Coherent(s, o)
      /\ s.old_objects = Cardinality(Olds(s))
      /\ s.mark_bits \subseteq Slots /\ s.long_lived_bits \subseteq Slots
      /\ s.mark_bits = s.long_lived_bits
  <2>1. s.mark_bits \subseteq s.long_lived_bits
    BY <1>1, <1>2, Zenon DEF IInv, Idle
  <2>2. s \in Space /\ \A o \in Slots : Coherent(s, o)
    BY Zenon DEF IInv, Sound
  <2>3. s.mark_bits \subseteq Slots /\ s.long_lived_bits \subseteq Slots
    BY <2>2, Parts, Zenon
  <2>. QED BY <1>1, <2>1, <2>2, <2>3, Zenon DEF IInv, Sound, Phases, Coherent
<1>4. /\ \A o \in Slots : RVALUE_OLD_P(s, o) => o \in s.long_lived_bits
      /\ \A o \in live : Recorded(s, o)
      /\ s.long_lived_bits \subseteq live
  <2>1. \A o \in Slots \ live : ~RVALUE_OLD_P(s, o) /\ o \notin s.long_lived_bits
    BY GCAssumption, Zenon DEF IInv, Blank, RVALUE_OLD_P
  <2>. QED BY <1>1, <1>2, <1>3, <2>1, Zenon DEF IInv, Idle
<1>5. /\ f \in Space /\ f.mark_bits = s.mark_bits /\ f.marking_bits = s.marking_bits
      /\ f.long_lived_bits = s.long_lived_bits
      /\ f.wb_unprotected_bits = s.wb_unprotected_bits /\ f.age = s.age
      /\ f.mark_stack = <<>> /\ f.old_objects = s.old_objects
      /\ f.during_minor_gc = TRUE /\ f.during_incremental_marking = FALSE
  BY <1>3, Zenon DEF Space
<1>. HIDE DEF s, f
<1>6. \A o \in Slots : RVALUE_OLD_P(f, o) <=> RVALUE_OLD_P(s, o)
  BY <1>5, Zenon DEF RVALUE_OLD_P
<1>7. MarkInv(f, K, Bits(f), {})
  <2>1. Olds(f) = Olds(s) /\ \A o \in Slots : Coherent(f, o)
    BY <1>3, <1>4, <1>5, <1>6, Zenon DEF Olds, Coherent
  <2>2. Sound(f, K)
    BY <1>3, <1>4, <1>5, <2>1, Zenon DEF Sound
  <2>3. Stacked(f, {})
    BY <1>3, <1>5, Zenon DEF Stacked
  <2>4. ASSUME NEW o \in f.mark_bits, o \notin Bits(f) PROVE Scanned(f, o) /\ Recorded(f, o)
    <3>1. o \in live /\ o \in Slots /\ o \in s.long_lived_bits /\ o \notin s.marking_bits
          /\ o \notin s.wb_unprotected_bits
      BY <1>2, <1>3, <1>4, <1>5, <2>4, Zenon DEF Bits
    <3>2. RVALUE_OLD_P(s, o) /\ NoYoung(s, o)
      BY <1>3, <1>4, <3>1, Zenon DEF Coherent, Recorded
    <3>3. ref[o] = 0 \/ ref[o] \in Slots
      BY <1>2, <3>1, Zenon
    <3>4. Scanned(f, o)
      BY <1>3, <1>4, <1>5, <3>2, <3>3, Zenon DEF Scanned, NoYoung
    <3>5. NoYoung(f, o)
      BY <1>5, <1>6, <3>1, <3>2, <3>3, Zenon DEF NoYoung
    <3>. QED BY <3>4, <3>5, Zenon DEF Recorded
  <2>5. Todo(f, Bits(f))
    BY <2>4, Zenon DEF Todo
  <2>. QED BY <2>2, <2>3, <2>5, Zenon DEF MarkInv
<1>8. MarkInv(q, K, {}, {}) /\ Advanced(f, q)
  BY <1>2, <1>5, <1>7, RememberedScanned, Zenon DEF q
<1>9. MarkInv(r, K, {}, {}) /\ Grown(q, r) /\ roots \subseteq r.mark_bits
  BY <1>2, <1>8, MarkRoots, Zenon DEF r
<1>10. q \in Space /\ r \in Space /\ Advanced(q, r)
  BY <1>8, <1>9, Zenon DEF MarkInv, Sound, Grown
<1>11. /\ ~q.during_incremental_marking /\ ~r.during_incremental_marking
       /\ Len(r.mark_stack) <= Cardinality(r.mark_bits)
  <2>1. Len(f.mark_stack) <= Cardinality(f.mark_bits)
    <3>1. Len(f.mark_stack) = 0 /\ Cardinality(f.mark_bits) \in 0 .. HEAP_SLOTS
      BY <1>5, Parts, SlotsCounted, Zenon
    <3>. QED BY <3>1, GCAssumption
  <2>2. Len(q.mark_stack) <= Cardinality(q.mark_bits)
    BY <1>5, <1>8, <1>10, <2>1, StackShort, Zenon
  <2>3. ~q.during_incremental_marking
    BY <1>5, <1>8, Zenon DEF Advanced
  <2>4. Len(r.mark_stack) <= Cardinality(r.mark_bits)
    BY <1>10, <2>2, <2>3, StackShort, Zenon
  <2>. QED BY <1>10, <2>3, <2>4, Zenon DEF Advanced
<1>12. MarkInv(t, K, {}, {}) /\ Grown(r, t) /\ t.mark_stack = <<>>
  BY <1>2, <1>9, <1>11, DrainEmpties, Zenon DEF t
<1>13. Advanced(f, t) /\ roots \subseteq t.mark_bits /\ t.mark_bits \subseteq live
  <2>1. t \in Space /\ Advanced(r, t) /\ t.mark_bits \subseteq live
    BY <1>12, Zenon DEF MarkInv, Sound, Grown
  <2>2. Advanced(f, r)
    BY <1>5, <1>8, <1>10, AdvancedOn, Zenon
  <2>3. Advanced(f, t)
    BY <1>5, <1>10, <2>1, <2>2, AdvancedOn, Zenon
  <2>. QED BY <1>9, <2>1, <2>3, Zenon DEF Advanced
<1>14. \A x \in Slots \ live : t.age[x] = s.age[x]
  BY <1>5, <1>13, Zenon DEF Advanced
<1>15. t.wb_unprotected_bits = s.wb_unprotected_bits /\ ~t.during_incremental_marking
  BY <1>5, <1>13, Zenon DEF Advanced
<1>16. K \in SUBSET live /\ doomed' \subseteq live \ K /\ \A o \in live \ doomed' : ref[o] \notin doomed'
  BY <1>1, Zenon
<1>. HIDE DEF K
<1>. QED BY <1>1, <1>12, <1>13, <1>14, <1>15, <1>16, SweepStarts, SMTT(20) DEF s

\* A step of incremental marking marks no garbage; the last one scans the objects
\* without barriers.
LEMMA MarksStepKeeps ==
  ASSUME IInv, NEW pooled \in BOOLEAN, gc_marks_step(pooled)
  PROVE  IInv'
<1>. DEFINE o == objspace
            K == live \ doomed
            W == o.wb_unprotected_bits
            s == IF o.mark_stack = <<>> THEN o ELSE gc_mark_stacked_object(o)
            r == gc_mark_roots(s)
            e == [r EXCEPT !.during_incremental_marking = FALSE]
            t == gc_marks_wb_unprotected_objects(e)
<1>1. stat = "marking" /\ UNCHANGED <<ref, live, roots, doomed>>
  BY Zenon DEF gc_marks_step
<1>2. \/ objspace' = s /\ UNCHANGED <<stat, sweep_pages>>
      \/ objspace' = r /\ UNCHANGED <<stat, sweep_pages>>
      \/ r.mark_stack = <<>> /\ objspace' = t /\ stat' = "sweeping" /\ sweep_pages' = Slots
  BY Zenon DEF gc_marks_step, gc_marks_finish
<1>3. /\ o \in Space /\ o.during_incremental_marking /\ ref \in [Slots -> Slots \cup {0}]
      /\ live \subseteq Slots /\ Heap(K) /\ o.mark_bits \subseteq K
  <2>1. sweep_pages = {} /\ Kept = live
    BY <1>1, Zenon DEF IInv, Phases, Kept
  <2>2. Heap(live) /\ live \subseteq Slots
    BY <2>1, Zenon DEF IInv, Heap, Typed
  <2>3. Heap(K)
    BY <2>2, Zenon DEF IInv, Doomed, Heap
  <2>. QED BY <1>1, <2>2, <2>3, Zenon DEF IInv, Phases, Typed, Sound, Marking, Doomed
<1>4. MarkInv(o, K, W, {})
  BY <1>1, <1>3, SoundMore, Zenon DEF MarkInv, IInv, Marking
<1>. HIDE DEF o, K, W, r, e, t
<1>5. /\ MarkInv(s, K, W, {}) /\ s.wb_unprotected_bits = W
      /\ s.during_incremental_marking /\ s.during_minor_gc = o.during_minor_gc
      /\ \A x \in Slots \ s.mark_bits : s.age[x] = o.age[x]
  <2>1. CASE o.mark_stack = <<>>
    BY <1>3, <1>4, <2>1, Zenon DEF W
  <2>2. CASE o.mark_stack # <<>>
    BY <1>3, <1>4, <2>2, PopKeeps, Zenon DEF W
  <2>. QED BY <2>1, <2>2, Zenon
<1>. HIDE DEF s
<1>6. MarkInv(r, K, W, {}) /\ Grown(s, r) /\ roots \subseteq r.mark_bits
  BY <1>3, <1>5, MarkRoots, Zenon DEF r
<1>7. /\ r \in Space /\ r.wb_unprotected_bits = W
      /\ r.during_incremental_marking /\ r.during_minor_gc = o.during_minor_gc
      /\ \A x \in Slots \ r.mark_bits : r.age[x] = o.age[x]
  BY <1>5, <1>6 DEF MarkInv, Sound, Grown, Advanced
<1>8. ASSUME NEW u, MarkInv(u, K, W, {}), u.wb_unprotected_bits = W,
             u.during_incremental_marking, u.during_minor_gc = o.during_minor_gc,
             \A x \in Slots \ u.mark_bits : u.age[x] = o.age[x],
             objspace' = u, UNCHANGED <<stat, sweep_pages>>
      PROVE  IInv'
  <2>1. Sound(u, K) /\ Stacked(u, {}) /\ Todo(u, W) /\ u.mark_bits \subseteq K
    BY <1>8, Zenon DEF MarkInv, Sound
  <2>2. Todo(objspace, objspace.wb_unprotected_bits)'
    BY <1>1, <1>8, <2>1, Zenon DEF Todo, Scanned, Recorded, NoYoung
  <2>3. \A x \in Slots \ live : objspace'.age[x] = objspace.age[x] /\ ref'[x] = ref[x]
    BY <1>1, <1>8, <2>1, Zenon DEF K, o
  <2>4. \A x \in live : ref'[x] = ref[x] \/ ref'[x] \in roots
    BY <1>1, Zenon
  <2>5. u.during_incremental_marking = o.during_incremental_marking
    <3>1. u \in Space
      BY <2>1, Zenon DEF Sound
    <3>. QED BY <1>3, <1>8, <3>1, Parts, Zenon
  <2>6. /\ Sound(objspace', live \ doomed) /\ Stacked(objspace', {})
        /\ objspace'.wb_unprotected_bits = objspace.wb_unprotected_bits
        /\ objspace'.during_incremental_marking = objspace.during_incremental_marking
        /\ objspace'.during_minor_gc = objspace.during_minor_gc
        /\ ref' \in [Slots -> Slots \cup {0}]
    BY <1>1, <1>3, <1>8, <2>1, <2>5, Zenon DEF K, W, o
  <2>. QED BY <1>1, <1>8, <2>2, <2>3, <2>4, <2>6, MarkingOn, Zenon
<1>9. CASE r.mark_stack = <<>> /\ objspace' = t /\ stat' = "sweeping" /\ sweep_pages' = Slots
  <2>1. /\ e \in Space /\ e.mark_bits = r.mark_bits /\ e.marking_bits = r.marking_bits
        /\ e.long_lived_bits = r.long_lived_bits
        /\ e.wb_unprotected_bits = r.wb_unprotected_bits /\ e.age = r.age
        /\ e.mark_stack = <<>> /\ e.old_objects = r.old_objects
        /\ e.during_minor_gc = r.during_minor_gc /\ e.during_incremental_marking = FALSE
    BY <1>7, <1>9, Zenon DEF Space, e
  <2>2. \A x \in Slots : RVALUE_OLD_P(e, x) <=> RVALUE_OLD_P(r, x)
    BY <2>1, Zenon DEF RVALUE_OLD_P
  <2>3. r.mark_bits \subseteq Slots /\ r.long_lived_bits \subseteq Slots
    BY <1>7, Parts, Zenon
  <2>4. Sound(e, K)
    <3>1. Olds(e) = Olds(r) /\ \A x \in Slots : Coherent(e, x)
      BY <1>6, <2>1, <2>2, <2>3, Zenon DEF Olds, MarkInv, Sound, Coherent
    <3>. QED BY <1>6, <2>1, <3>1, Zenon DEF MarkInv, Sound
  <2>5. Stacked(e, {})
    <3>1. Range(<<>>) = {}
      BY DEF Range
    <3>2. r.marking_bits = {}
      BY <1>6, <1>7, <1>9, <3>1, Zenon DEF MarkInv, Stacked
    <3>. QED BY <2>1, <3>1, <3>2, Zenon DEF Stacked
  <2>6. Todo(e, W)
    <3>1. ASSUME NEW x \in r.mark_bits PROVE /\ Scanned(r, x) => Scanned(e, x)
                                             /\ NoYoung(r, x) => NoYoung(e, x)
      <4>1. x \in Slots /\ (ref[x] = 0 \/ ref[x] \in Slots)
        BY <1>3, <2>3, <3>1, Zenon
      <4>. QED BY <2>1, <2>2, <3>1, <4>1, Zenon DEF Scanned, NoYoung
    <3>. QED BY <1>6, <1>9, <2>1, <3>1, Zenon DEF MarkInv, Todo, Recorded
  <2>7. MarkInv(t, K, {}, {}) /\ Grown(e, t) /\ t.mark_stack = <<>>
    <3>1. MarkInv(e, K, e.wb_unprotected_bits, {})
      BY <1>7, <2>1, <2>4, <2>5, <2>6, Zenon DEF MarkInv
    <3>. QED BY <1>3, <2>1, <3>1, UnprotectedScanned, Zenon DEF t
  <2>8. /\ roots \subseteq t.mark_bits /\ t.wb_unprotected_bits = W
        /\ ~t.during_incremental_marking
        /\ \A x \in Slots \ t.mark_bits : t.age[x] = o.age[x]
    BY <1>6, <1>7, <2>1, <2>7 DEF Grown, Advanced
  <2>9. K \in SUBSET live /\ t.mark_bits \subseteq K
    BY <2>7, Zenon DEF MarkInv, Sound, K
  <2>10. \A x \in Slots \ live : t.age[x] = objspace.age[x]
    BY <2>8, <2>9, Zenon DEF o
  <2>11. doomed' \subseteq live \ K /\ \A x \in live \ doomed' : ref[x] \notin doomed'
    BY <1>1, Zenon DEF IInv, Doomed, K
  <2>. QED BY <1>1, <1>9, <2>7, <2>8, <2>9, <2>10, <2>11, SweepStarts, SMTT(20) DEF W, o
<1>. QED BY <1>2, <1>5, <1>6, <1>7, <1>8, <1>9, Zenon

-----------------------------------------------------------------------------
\* Every step of the mutator and of the collector keeps the invariant.
LEMMA NextIInv == IInv /\ [Next]_vars => IInv'
<1>. SUFFICES ASSUME IInv, [Next]_vars PROVE IInv'
  BY Zenon
<1>1. ASSUME NEW full \in BOOLEAN, NEW immediate \in BOOLEAN, gc_start(full, immediate) PROVE IInv'
  <2>1. full = TRUE \/ full = FALSE
    BY Zenon
  <2>. QED BY <1>1, <2>1, FullStart, MinorStart, Zenon
<1>2. ASSUME NEW pooled \in BOOLEAN, gc_marks_step(pooled) PROVE IInv'
  BY <1>2, MarksStepKeeps, Zenon
<1>3. CASE gc_page_sweep
  BY <1>3, SweepKeeps, Zenon
<1>4. ASSUME NEW o \in Slots, NEW wb_protected \in BOOLEAN, newobj_of(o, wb_protected) PROVE IInv'
  BY <1>4, NewobjKeeps, Zenon
<1>5. ASSUME NEW o \in Slots, rb_gc_writebarrier_unprotect(o) PROVE IInv'
  BY <1>5, UnprotectKeeps, Zenon
<1>6. ASSUME NEW o \in Slots, rb_gc_force_recycle(o) PROVE IInv'
  BY <1>6, RecycleKeeps, Zenon
<1>7. ASSUME NEW o \in Slots, Load(o) \/ Drop(o) \/ Erase(o) PROVE IInv'
  BY <1>7, LoadKeeps, DropKeeps, EraseKeeps, Zenon
<1>8. ASSUME NEW a \in Slots, NEW b \in Slots,
             rb_obj_write(a, b) \/ rb_gc_writebarrier_remember(a, b)
      PROVE  IInv'
  BY <1>8, WriteKeeps, RememberKeeps, Zenon
<1>9. CASE UNCHANGED vars
  <2>1. Kept' = Kept
    BY <1>9, Zenon DEF Kept, vars
  <2>2. Heap(Kept)' /\ Idle'
    BY <1>9, <2>1, Zenon DEF IInv, vars, Heap, Idle, Recorded, NoYoung
  <2>3. Marking'
    BY <1>9, Zenon DEF IInv, vars, Marking, Todo, Scanned, Recorded, NoYoung
  <2>. QED BY <1>9, <2>2, <2>3, Zenon DEF IInv, vars, Typed, Phases, Blank, Doomed
<1>. QED BY <1>1, <1>2, <1>3, <1>4, <1>5, <1>6, <1>7, <1>8, <1>9, SMTT(20) DEF Next

\* The inductive invariant holds after any sequence of allocations, writes through the
\* barriers, and steps of minor, full, incremental and immediate collections.
THEOREM Invariant == Spec => []IInv
BY InitIInv, NextIInv, PTL DEF Spec

\* The page bitmaps, the mark stack, the ages and old_objects keep their types: the
\* count of old objects never leaves 0 .. HEAP_SLOTS, whatever the barriers do.
THEOREM TypeCorrect == Spec => []TypeOK
<1>1. IInv => TypeOK
  <2>. SUFFICES ASSUME IInv PROVE TypeOK
    BY Zenon
  <2>1. objspace \in Space /\ objspace.old_objects \in 0 .. HEAP_SLOTS
    BY Parts, SlotsCounted, Zenon DEF IInv, Sound, Olds
  <2>2. roots \subseteq live /\ doomed \subseteq Slots
    BY Zenon DEF IInv, Heap, Kept, Doomed, Typed
  <2>. QED BY <2>1, <2>2, Zenon DEF IInv, Typed, TypeOK, Space
<1>. QED BY <1>1, Invariant, PTL

\* The collector frees no object that the mutator can still reach.
THEOREM ReachableKept == Spec => []LiveKept
<1>1. IInv => LiveKept
  <2>. SUFFICES ASSUME IInv PROVE Reachable \subseteq live
    BY Zenon DEF LiveKept
  <2>1. Heap(Kept) /\ Kept \subseteq live /\ live \subseteq Slots /\ ref \in [Slots -> Slots \cup {0}]
    BY Zenon DEF IInv, Typed, Kept
  <2>2. Reachable \subseteq Kept
    BY <2>1, ReachableLeast, Zenon DEF Heap
  <2>. QED BY <2>1, <2>2, Zenon
<1>. QED BY <1>1, Invariant, PTL

\* In incremental marking a black object that has barriers refers to no white object,
\* between any two steps of marking and after every write.
THEOREM TriColour == Spec => []NoBlackToWhite
<1>1. IInv => NoBlackToWhite
  <2>. SUFFICES ASSUME IInv, objspace.during_incremental_marking,
                       NEW o \in live \ objspace.wb_unprotected_bits,
                       RVALUE_BLACK_P(objspace, o), ref[o] # 0
                PROVE  ~RVALUE_WHITE_P(objspace, ref[o])
    BY Zenon DEF NoBlackToWhite
  <2>1. o \in objspace.mark_bits /\ o \notin Range(objspace.mark_stack)
    BY Zenon DEF RVALUE_BLACK_P, IInv, Stacked
  <2>2. Scanned(objspace, o)
    BY <2>1, Zenon DEF IInv, Phases, Marking, Todo
  <2>. QED BY <2>2, Zenon DEF Scanned, RVALUE_WHITE_P
<1>. QED BY <1>1, Invariant, PTL

\* When no marking is on, a minor collection finds every young object that an old one
\* refers to.
THEOREM RememberSetComplete == Spec => []OldToYoungRemembered
<1>1. IInv => OldToYoungRemembered
  <2>. SUFFICES ASSUME IInv, stat # "marking", NEW o \in Old \cap Reachable, ref[o] # 0, ref[o] \notin Old
                PROVE  {o, ref[o]} \cap Remembered # {}
    BY Zenon DEF OldToYoungRemembered
  <2>1. Heap(Kept) /\ Kept \subseteq live /\ live \subseteq Slots /\ ref \in [Slots -> Slots \cup {0}]
    BY Zenon DEF IInv, Typed, Kept
  <2>2. Reachable \subseteq Kept
    BY <2>1, ReachableLeast, Zenon DEF Heap
  <2>3. o \in Kept /\ ref[o] \in live /\ RVALUE_OLD_P(objspace, o) /\ ~RVALUE_OLD_P(objspace, ref[o])
    BY <2>1, <2>2, Zenon DEF Heap, Old
  <2>4. Recorded(objspace, o)
    BY <2>3, Zenon DEF IInv, Idle
  <2>. QED BY <2>3, <2>4, Zenon DEF Recorded, NoYoung, Remembered
<1>. QED BY <1>1, Invariant, PTL

\* Ages, long-lived bits, mark bits and the remember set agree as
\* check_rvalue_consistency wants them, and old_objects counts the old objects.
THEOREM BitsConsistent == Spec => []BitsAgree
<1>1. IInv => BitsAgree
  <2>. SUFFICES ASSUME IInv PROVE BitsAgree
    BY Zenon
  <2>. DEFINE s == objspace
  <2>1. /\ \A o \in Slots : Coherent(s, o)
        /\ s.mark_bits \subseteq Slots /\ s.long_lived_bits \subseteq Slots
        /\ s.wb_unprotected_bits \subseteq Slots /\ live \subseteq Slots
    BY Parts, Zenon DEF IInv, Sound, Typed
  <2>2. s.long_lived_bits \subseteq live
    BY <2>1, Zenon DEF IInv, Blank
  <2>3. Olds(s) = Old \cap s.long_lived_bits
    BY <2>2, Zenon DEF Olds, Old
  <2>4. stat # "marking" => s.marking_bits \subseteq s.long_lived_bits
    BY Zenon DEF IInv, Phases, Stacked
  <2>5. s.long_lived_bits \subseteq Old \cup s.wb_unprotected_bits
    BY <2>1, <2>2, Zenon DEF Coherent, Old
  <2>6. stat = "none" => Old \subseteq s.long_lived_bits
    <3>1. stat = "none" => Kept = live
      BY Zenon DEF IInv, Phases, Kept
    <3>. QED BY <3>1, Zenon DEF IInv, Idle, Old
  <2>7. s.old_objects = Cardinality(Old \cap s.long_lived_bits)
    BY <2>3, Zenon DEF IInv, Sound
  <2>8. /\ \A o \in s.wb_unprotected_bits : s.age[o] = 0
        /\ s.long_lived_bits \subseteq s.mark_bits
    BY <2>1, Zenon DEF Coherent
  <2>. QED BY <2>2, <2>4, <2>5, <2>6, <2>7, <2>8, Zenon DEF BitsAgree
<1>. QED BY <1>1, Invariant, PTL

\* When a full collection is over, what was garbage when it started is gone.
THEOREM FullCollects == Spec => []GarbageFreed
<1>1. IInv => GarbageFreed
  BY Zenon DEF IInv, Phases, Doomed, GarbageFreed
<1>. QED BY <1>1, Invariant, PTL
=============================================================================
