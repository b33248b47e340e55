--------------------------- MODULE GCMarkProofs ---------------------------
(***************************************************************************)
(* What the functions of the collector do to objspace, for every number of *)
(* slots: the operations on the bits of an object, gc_mark_ptr, the loops  *)
(* that mark the roots, the remember set and the objects without write     *)
(* barrier, and the emptying of the mark stack.                            *)
(*                                                                         *)
(* A loop over the heap pages is a recursive function.  That it exists and *)
(* what it keeps is shown by a least page that breaks it (Least, LoopRuns, *)
(* LoopKeeps).  That HEAP_SLOTS turns empty the mark stack is shown by     *)
(* counting: a turn pops an object, and pushes only what it has just given *)
(* its mark bit.                                                           *)
(***************************************************************************)
EXTENDS GC, FiniteSetTheorems, SequenceTheorems, WellFoundedInduction, TLAPS

-----------------------------------------------------------------------------
\* A set of numbers that is not empty has a least element.
LEMMA Least ==
  ASSUME NEW S \in SUBSET Nat, S # {}
  PROVE  \E n \in S : \A m \in S : n <= m
<1>1. PICK n \in S : \A m \in S : ~(<<m, n>> \in OpToRel(<, Nat))
  BY WFMin, NatLessThanWellFounded, Zenon
<1>2. \A m \in S : n <= m
  <2>1. \A m \in S : ~(m < n)
    BY <1>1, Zenon DEF OpToRel
  <2>. QED BY <2>1
<1>. QED BY <1>2, Zenon

\* What a turn of a loop over the pages keeps up holds after the loop.
LEMMA LoopKeeps ==
  ASSUME NEW P, NEW h, h[0] \in P[0],
         \A i \in Slots : h[i - 1] \in P[i - 1] => h[i] \in P[i]
  PROVE  h[HEAP_SLOTS] \in P[HEAP_SLOTS]
<1>. DEFINE S == {i \in 0 .. HEAP_SLOTS : h[i] \notin P[i]}
<1>. SUFFICES ASSUME S # {} PROVE FALSE
  BY GCAssumption
<1>1. PICK n \in S : \A m \in S : n <= m
  <2>1. S \in SUBSET Nat
    BY GCAssumption
  <2>. QED BY <2>1, Least, Zenon
<1>2. n \in Slots /\ n - 1 \in 0 .. HEAP_SLOTS /\ n - 1 \notin S
  BY <1>1, GCAssumption DEF Slots
<1>. QED BY <1>1, <1>2, Zenon

\* A loop over the pages that takes elements of R to elements of R has a result.
LEMMA LoopExists ==
  ASSUME NEW R, NEW s \in R, NEW step \in [R \X Slots -> R]
  PROVE  \E h \in [0 .. HEAP_SLOTS -> R] :
           h = [i \in 0 .. HEAP_SLOTS |-> IF i = 0 THEN s ELSE step[<<h[i - 1], i>>]]
<1>. DEFINE Fits(n, h) == h = [i \in 0 .. n |-> IF i = 0 THEN s ELSE step[<<h[i - 1], i>>]]
            S == {n \in 0 .. HEAP_SLOTS : ~\E h \in [0 .. n -> R] : Fits(n, h)}
<1>. SUFFICES ASSUME S # {} PROVE FALSE
  BY GCAssumption
<1>1. PICK n \in S : \A m \in S : n <= m
  <2>1. S \in SUBSET Nat
    BY GCAssumption
  <2>. QED BY <2>1, Least, Zenon
<1>2. n # 0
  <2>. DEFINE g == [i \in 0 .. 0 |-> s]
  <2>1. g \in [0 .. 0 -> R] /\ Fits(0, g)
    OBVIOUS
  <2>. QED BY <1>1, <2>1, Zenon
<1>3. n \in Slots /\ n - 1 \in 0 .. HEAP_SLOTS /\ n - 1 \notin S
  BY <1>1, <1>2, GCAssumption, SMTT(20) DEF Slots
<1>4. PICK h \in [0 .. n - 1 -> R] : Fits(n - 1, h)
  BY <1>3, Zenon
<1>. DEFINE g == [i \in 0 .. n |-> IF i < n THEN h[i] ELSE step[<<h[n - 1], n>>]]
<1>5. g \in [0 .. n -> R]
  <2>1. \A i \in 0 .. n : i < n => i \in 0 .. n - 1
    BY <1>3 DEF Slots
  <2>2. h[n - 1] \in R
    BY <1>3, <1>4 DEF Slots
  <2>. QED BY <1>3, <1>4, <2>1, <2>2, Zenon
<1>6. ASSUME NEW i \in 0 .. n
      PROVE  g[i] = IF i = 0 THEN s ELSE step[<<g[i - 1], i>>]
  <2>1. CASE i = 0
    BY <1>2, <1>3, <1>4, <2>1 DEF Slots
  <2>2. CASE i # 0 /\ i < n
    <3>1. i \in 0 .. n - 1 /\ i - 1 \in 0 .. n /\ i - 1 < n
      BY <1>3, <2>2 DEF Slots
    <3>2. h[i] = step[<<h[i - 1], i>>]
      BY <1>4, <2>2, <3>1, Zenon
    <3>. QED BY <2>2, <3>1, <3>2, Zenon
  <2>3. CASE i = n
    <3>1. n \in 0 .. n /\ n - 1 \in 0 .. n /\ n - 1 < n /\ ~(n < n)
      BY <1>2, <1>3 DEF Slots
    <3>2. g[n - 1] = h[n - 1] /\ g[n] = step[<<h[n - 1], n>>]
      BY <3>1, Zenon
    <3>. QED BY <1>2, <2>3, <3>2, Zenon
  <2>. QED BY <1>3, <2>1, <2>2, <2>3 DEF Slots
<1>7. Fits(n, g)
  BY <1>6, Zenon
<1>. QED BY <1>1, <1>5, <1>7, Zenon

\* h is the run of a loop over the pages whose turns are the values of step.
Runs(h, R, s, step) ==
  /\ h \in [0 .. HEAP_SLOTS -> R]
  /\ h = [i \in 0 .. HEAP_SLOTS |-> IF i = 0 THEN s ELSE step[<<h[i - 1], i>>]]

\* Every loop has a run.
LEMMA LoopRuns ==
  ASSUME NEW R, NEW s \in R, NEW step \in [R \X Slots -> R]
  PROVE  \E h : Runs(h, R, s, step)
BY LoopExists DEF Runs

-----------------------------------------------------------------------------
\* What objspace can be, with old_objects not yet bounded.
Space ==
  [mark_bits: SUBSET Slots, marking_bits: SUBSET Slots,
   long_lived_bits: SUBSET Slots, wb_unprotected_bits: SUBSET Slots,
   age: [Slots -> 0 .. RVALUE_OLD_AGE], mark_stack: Seq(Slots), old_objects: Nat,
   during_minor_gc: BOOLEAN, during_incremental_marking: BOOLEAN]

\* t differs from s only in the parts that are listed.
Is(t, s, m, g, l, a, k, n) ==
  /\ t \in Space
  /\ t.mark_bits = m /\ t.marking_bits = g /\ t.long_lived_bits = l
  /\ t.age = a /\ t.mark_stack = k /\ t.old_objects = n
  /\ t.wb_unprotected_bits = s.wb_unprotected_bits
  /\ t.during_minor_gc = s.during_minor_gc
  /\ t.during_incremental_marking = s.during_incremental_marking

\* The parts of an objspace.
LEMMA Parts ==
  ASSUME NEW s \in Space
  PROVE  /\ s.mark_bits \in SUBSET Slots /\ s.marking_bits \in SUBSET Slots
         /\ s.long_lived_bits \in SUBSET Slots /\ s.wb_unprotected_bits \in SUBSET Slots
         /\ s.age \in [Slots -> 0 .. RVALUE_OLD_AGE] /\ s.mark_stack \in Seq(Slots)
         /\ s.old_objects \in Nat
         /\ s.during_minor_gc \in BOOLEAN /\ s.during_incremental_marking \in BOOLEAN
BY Zenon DEF Space

\* The operations on the bits of an object change these parts.
LEMMA PromoteIs ==
  ASSUME NEW s \in Space, NEW o \in Slots
  PROVE  Is(RVALUE_PROMOTE_RAW(s, o), s, s.mark_bits, s.marking_bits, s.long_lived_bits \cup {o},
            s.age, s.mark_stack, s.old_objects + 1)
<1>. DEFINE t == RVALUE_PROMOTE_RAW(s, o)
<1>1. t = [s EXCEPT !.long_lived_bits = s.long_lived_bits \cup {o}, !.old_objects = s.old_objects + 1]
  BY Zenon DEF RVALUE_PROMOTE_RAW
<1>2. s.long_lived_bits \cup {o} \in SUBSET Slots /\ s.old_objects + 1 \in Nat
  BY Parts
<1>. HIDE DEF t
<1>3. t \in Space
  BY <1>1, <1>2, Zenon DEF Space
<1>. QED BY <1>1, <1>3, Zenon DEF Is, Space, t

\* So does setting its age.
LEMMA AgeIs ==
  ASSUME NEW s \in Space, NEW o \in Slots, NEW n \in 0 .. RVALUE_OLD_AGE
  PROVE  Is([s EXCEPT !.age[o] = n], s, s.mark_bits, s.marking_bits, s.long_lived_bits,
            [s.age EXCEPT ![o] = n], s.mark_stack, s.old_objects)
<1>. DEFINE a == [s.age EXCEPT ![o] = n]
            t == [s EXCEPT !.age = a]
<1>1. a \in [Slots -> 0 .. RVALUE_OLD_AGE]
  BY Parts, Zenon
<1>. HIDE DEF a
<1>2. t \in Space
  BY <1>1, Zenon DEF Space
<1>. QED BY <1>2, Zenon DEF Is, Space, a

\* RVALUE_AGE_SET_OLD makes an object old and long-lived, and counts it.
LEMMA SetOldIs ==
  ASSUME NEW s \in Space, NEW o \in Slots
  PROVE  Is(RVALUE_AGE_SET_OLD(s, o), s, s.mark_bits, s.marking_bits, s.long_lived_bits \cup {o},
            [s.age EXCEPT ![o] = RVALUE_OLD_AGE], s.mark_stack, s.old_objects + 1)
<1>. DEFINE u == [s EXCEPT !.age[o] = RVALUE_OLD_AGE]
<1>1. RVALUE_OLD_AGE \in 0 .. RVALUE_OLD_AGE
  BY GCAssumption
<1>2. Is(u, s, s.mark_bits, s.marking_bits, s.long_lived_bits,
         [s.age EXCEPT ![o] = RVALUE_OLD_AGE], s.mark_stack, s.old_objects)
  BY <1>1, AgeIs, Zenon
<1>3. RVALUE_AGE_SET_OLD(s, o) = RVALUE_PROMOTE_RAW(u, o)
  BY Zenon DEF RVALUE_AGE_SET_OLD
<1>. HIDE DEF u
<1>4. Is(RVALUE_PROMOTE_RAW(u, o), u, u.mark_bits, u.marking_bits, u.long_lived_bits \cup {o},
         u.age, u.mark_stack, u.old_objects + 1)
  BY <1>2, PromoteIs, Zenon DEF Is
<1>. QED BY <1>2, <1>3, <1>4, Zenon DEF Is

\* gc_grey pushes an object, and sets its grey bit in incremental marking.
LEMMA GreyIs ==
  ASSUME NEW s \in Space, NEW o \in Slots
  PROVE  Is(gc_grey(s, o), s, s.mark_bits,
            IF s.during_incremental_marking THEN s.marking_bits \cup {o} ELSE s.marking_bits,
            s.long_lived_bits, s.age, Append(s.mark_stack, o), s.old_objects)
<1>. DEFINE t == gc_grey(s, o)
            g == IF s.during_incremental_marking THEN s.marking_bits \cup {o} ELSE s.marking_bits
            k == Append(s.mark_stack, o)
<1>1. t = [s EXCEPT !.marking_bits = g, !.mark_stack = k]
  BY Zenon DEF gc_grey
<1>2. g \in SUBSET Slots /\ k \in Seq(Slots)
  BY Parts
<1>. HIDE DEF t, g, k
<1>3. t \in Space
  BY <1>1, <1>2, Zenon DEF Space
<1>. QED BY <1>1, <1>3, Zenon DEF Is, Space, t, g, k

\* rgengc_remember puts an object in the remember set.
LEMMA RememberIs ==
  ASSUME NEW s \in Space, NEW o \in Slots
  PROVE  Is(rgengc_remember(s, o), s, s.mark_bits, s.marking_bits \cup {o}, s.long_lived_bits,
            s.age, s.mark_stack, s.old_objects)
<1>. DEFINE t == rgengc_remember(s, o)
<1>1. t = [s EXCEPT !.marking_bits = s.marking_bits \cup {o}]
  BY Zenon DEF rgengc_remember
<1>2. s.marking_bits \cup {o} \in SUBSET Slots
  BY Parts, Zenon
<1>. HIDE DEF t
<1>3. t \in Space
  BY <1>1, <1>2, Zenon DEF Space
<1>. QED BY <1>1, <1>3, Zenon DEF Is, Space, t

\* gc_remember_unprotected makes an object without write barrier long-lived.
LEMMA RememberUnprotectedIs ==
  ASSUME NEW s \in Space, NEW o \in Slots
  PROVE  Is(gc_remember_unprotected(s, o), s, s.mark_bits, s.marking_bits, s.long_lived_bits \cup {o},
            s.age, s.mark_stack, s.old_objects)
<1>. DEFINE t == gc_remember_unprotected(s, o)
<1>1. t = [s EXCEPT !.long_lived_bits = s.long_lived_bits \cup {o}]
  BY Zenon DEF gc_remember_unprotected
<1>2. s.long_lived_bits \cup {o} \in SUBSET Slots
  BY Parts, Zenon
<1>. HIDE DEF t
<1>3. t \in Space
  BY <1>1, <1>2, Zenon DEF Space
<1>. QED BY <1>1, <1>3, Zenon DEF Is, Space, t

\* rgengc_check_relation leaves the object alone, remembers an unprotected one, makes
\* a white one promote when it is marked, and promotes and remembers another.
LEMMA CheckRelationIs ==
  ASSUME NEW s \in Space, NEW o \in Slots, NEW old \in BOOLEAN
  PROVE  LET t == rgengc_check_relation(s, old, o)
             aged == [s.age EXCEPT ![o] = RVALUE_OLD_AGE]
             long == s.long_lived_bits \cup {o}
         IN CASE ~old -> t = s
              [] old /\ o \in s.wb_unprotected_bits ->
                   Is(t, s, s.mark_bits, s.marking_bits, long, s.age, s.mark_stack, s.old_objects)
              [] old /\ o \notin s.wb_unprotected_bits /\ RVALUE_OLD_P(s, o) -> t = s
              [] old /\ o \notin s.wb_unprotected_bits /\ ~RVALUE_OLD_P(s, o) /\ o \notin s.mark_bits ->
                   Is(t, s, s.mark_bits, s.marking_bits, s.long_lived_bits,
                      [s.age EXCEPT ![o] = RVALUE_OLD_AGE - 1], s.mark_stack, s.old_objects)
              [] OTHER ->
                   IF s.during_incremental_marking /\ o \notin s.marking_bits
                     THEN Is(t, s, s.mark_bits, s.marking_bits \cup {o}, long, aged,
                             Append(s.mark_stack, o), s.old_objects + 1)
                     ELSE Is(t, s, s.mark_bits, s.marking_bits \cup {o}, long, aged,
                             s.mark_stack, s.old_objects + 1)
<1>. DEFINE t == rgengc_check_relation(s, old, o)
            u == RVALUE_AGE_SET_OLD(s, o)
<1>1. CASE ~old \/ (o \notin s.wb_unprotected_bits /\ RVALUE_OLD_P(s, o))
  <2>1. t = s
    BY <1>1, Zenon DEF rgengc_check_relation
  <2>. QED BY <1>1, <2>1, Zenon
<1>2. CASE old /\ o \in s.wb_unprotected_bits
  <2>1. t = gc_remember_unprotected(s, o)
    BY <1>2, Zenon DEF rgengc_check_relation
  <2>. QED BY <1>2, <2>1, RememberUnprotectedIs, Zenon
<1>3. CASE old /\ o \notin s.wb_unprotected_bits /\ ~RVALUE_OLD_P(s, o) /\ o \notin s.mark_bits
  <2>1. t = [s EXCEPT !.age[o] = RVALUE_OLD_AGE - 1]
    BY <1>3, Zenon DEF rgengc_check_relation, RVALUE_WHITE_P
  <2>2. RVALUE_OLD_AGE - 1 \in 0 .. RVALUE_OLD_AGE
    BY GCAssumption
  <2>. QED BY <1>3, <2>1, <2>2, AgeIs, Zenon
<1>4. CASE old /\ o \notin s.wb_unprotected_bits /\ ~RVALUE_OLD_P(s, o) /\ o \in s.mark_bits
  <2>1. t = IF ~s.during_incremental_marking THEN rgengc_remember(u, o)
            ELSE IF o \in s.marking_bits THEN u ELSE gc_grey(u, o)
    BY <1>4, Zenon DEF rgengc_check_relation, RVALUE_WHITE_P
  <2>2. Is(u, s, s.mark_bits, s.marking_bits, s.long_lived_bits \cup {o},
           [s.age EXCEPT ![o] = RVALUE_OLD_AGE], s.mark_stack, s.old_objects + 1)
    BY SetOldIs, Zenon
  <2>. HIDE DEF t, u
  <2>3. u \in Space /\ u.during_incremental_marking = s.during_incremental_marking
    BY <2>2, Zenon DEF Is
  <2>4. CASE ~s.during_incremental_marking
    <3>1. t = rgengc_remember(u, o)
      BY <2>1, <2>4, Zenon
    <3>2. Is(t, u, u.mark_bits, u.marking_bits \cup {o}, u.long_lived_bits, u.age,
             u.mark_stack, u.old_objects)
      BY <2>3, <3>1, RememberIs, Zenon
    <3>3. Is(t, s, s.mark_bits, s.marking_bits \cup {o}, s.long_lived_bits \cup {o},
             [s.age EXCEPT ![o] = RVALUE_OLD_AGE], s.mark_stack, s.old_objects + 1)
      BY <2>2, <3>2, Zenon DEF Is
    <3>. QED BY <1>4, <2>4, <3>3, Zenon DEF t
  <2>5. CASE s.during_incremental_marking /\ o \in s.marking_bits
    <3>1. t = u /\ s.marking_bits \cup {o} = s.marking_bits
      BY <2>1, <2>5, Zenon
    <3>. QED BY <1>4, <2>2, <2>5, <3>1, Zenon DEF t
  <2>6. CASE s.during_incremental_marking /\ o \notin s.marking_bits
    <3>1. t = gc_grey(u, o)
      BY <2>1, <2>6, Zenon
    <3>2. Is(t, u, u.mark_bits, u.marking_bits \cup {o}, u.long_lived_bits, u.age,
             Append(u.mark_stack, o), u.old_objects)
      BY <2>3, <2>6, <3>1, GreyIs, Zenon
    <3>3. Is(t, s, s.mark_bits, s.marking_bits \cup {o}, s.long_lived_bits \cup {o},
             [s.age EXCEPT ![o] = RVALUE_OLD_AGE], Append(s.mark_stack, o), s.old_objects + 1)
      BY <2>2, <3>2, Zenon DEF Is
    <3>. QED BY <1>4, <2>6, <3>3, Zenon DEF t
  <2>. QED BY <2>4, <2>5, <2>6, Zenon
<1>. QED BY <1>1, <1>2, <1>3, <1>4, Zenon

\* gc_aging makes a protected object a step older, and lists one that is old.
LEMMA AgingIs ==
  ASSUME NEW s \in Space, NEW o \in Slots
  PROVE  LET t == gc_aging(s, o)
             long == s.long_lived_bits \cup {o}
         IN CASE o \in s.wb_unprotected_bits \/ (RVALUE_OLD_P(s, o) /\ s.during_minor_gc) -> t = s
              [] o \notin s.wb_unprotected_bits /\ (RVALUE_OLD_P(s, o) /\ ~s.during_minor_gc) ->
                   Is(t, s, s.mark_bits, s.marking_bits, long, s.age, s.mark_stack, s.old_objects + 1)
              [] o \notin s.wb_unprotected_bits /\ ~RVALUE_OLD_P(s, o) /\ s.age[o] + 1 = RVALUE_OLD_AGE ->
                   Is(t, s, s.mark_bits, s.marking_bits, long,
                      [s.age EXCEPT ![o] = RVALUE_OLD_AGE], s.mark_stack, s.old_objects + 1)
              [] OTHER ->
                   Is(t, s, s.mark_bits, s.marking_bits, s.long_lived_bits,
                      [s.age EXCEPT ![o] = s.age[o] + 1], s.mark_stack, s.old_objects)
<1>. DEFINE t == gc_aging(s, o)
<1>1. CASE o \in s.wb_unprotected_bits
  BY <1>1, Zenon DEF gc_aging
<1>2. CASE o \notin s.wb_unprotected_bits /\ RVALUE_OLD_P(s, o)
  BY <1>2, PromoteIs, Zenon DEF gc_aging
<1>3. CASE o \notin s.wb_unprotected_bits /\ ~RVALUE_OLD_P(s, o) /\ s.age[o] + 1 = RVALUE_OLD_AGE
  BY <1>3, SetOldIs, Zenon DEF gc_aging
<1>4. CASE o \notin s.wb_unprotected_bits /\ ~RVALUE_OLD_P(s, o) /\ s.age[o] + 1 # RVALUE_OLD_AGE
  <2>1. t = [s EXCEPT !.age[o] = s.age[o] + 1]
    BY <1>4, Zenon DEF gc_aging
  <2>2. s.age[o] + 1 \in 0 .. RVALUE_OLD_AGE
    BY <1>4, Parts, GCAssumption DEF RVALUE_OLD_P
  <2>3. Is(t, s, s.mark_bits, s.marking_bits, s.long_lived_bits,
           [s.age EXCEPT ![o] = s.age[o] + 1], s.mark_stack, s.old_objects)
    BY <2>1, <2>2, AgeIs, Zenon
  <2>. QED BY <1>4, <2>3, Zenon
<1>. QED BY <1>1, <1>2, <1>3, <1>4, Zenon

\* The mark bit of o is set.
LEMMA MarkIs ==
  ASSUME NEW s \in Space, NEW o \in Slots
  PROVE  Is([s EXCEPT !.mark_bits = @ \cup {o}], s, s.mark_bits \cup {o}, s.marking_bits,
            s.long_lived_bits, s.age, s.mark_stack, s.old_objects)
<1>. DEFINE t == [s EXCEPT !.mark_bits = s.mark_bits \cup {o}]
<1>2. s.mark_bits \cup {o} \in SUBSET Slots
  BY Parts, Zenon
<1>3. t \in Space
  BY <1>2, Zenon DEF Space
<1>. QED BY <1>3, Zenon DEF Is, Space

-----------------------------------------------------------------------------
\* The bits of an object agree: an unprotected one is young, a grey or long-lived one is
\* marked, a long-lived one is old or unprotected, and an old one that is marked, or that
\* a minor collection meets, is long-lived.
Coherent(s, o) ==
  /\ o \in s.wb_unprotected_bits => s.age[o] = 0
  /\ o \in s.marking_bits => o \in s.mark_bits
  /\ o \in s.long_lived_bits => o \in s.mark_bits
  /\ o \in s.long_lived_bits => RVALUE_OLD_P(s, o) \/ o \in s.wb_unprotected_bits
  /\ RVALUE_OLD_P(s, o) /\ (o \in s.mark_bits \/ s.during_minor_gc) => o \in s.long_lived_bits

\* The objects that old_objects counts.
Olds(s) == {o \in s.long_lived_bits : RVALUE_OLD_P(s, o)}

\* What gc_mark_ptr does to the objspace s, where `old' says whether the parent is old.
Marks(s, t, old, o) ==
  /\ t \in Space
  /\ t.mark_bits = s.mark_bits \cup {o}
  /\ t.wb_unprotected_bits = s.wb_unprotected_bits
  /\ t.during_minor_gc = s.during_minor_gc
  /\ t.during_incremental_marking = s.during_incremental_marking
  /\ t.marking_bits \in {s.marking_bits, s.marking_bits \cup {o}}
  /\ t.long_lived_bits \in {s.long_lived_bits, s.long_lived_bits \cup {o}}
  /\ t.mark_stack \in {s.mark_stack, Append(s.mark_stack, o)}
  /\ \A x \in Slots \ {o} : t.age[x] = s.age[x]
  /\ Coherent(t, o)
  /\ RVALUE_OLD_P(s, o) => RVALUE_OLD_P(t, o)
  /\ t.old_objects = IF o \in Olds(t) \ Olds(s) THEN s.old_objects + 1 ELSE s.old_objects
  /\ old => RVALUE_OLD_P(t, o) \/ o \in t.long_lived_bits \cap t.wb_unprotected_bits
  /\ o \in s.mark_bits /\ RVALUE_OLD_P(t, o) => RVALUE_OLD_P(s, o) \/ o \in t.marking_bits
  /\ o \notin s.mark_bits => t.mark_stack = Append(s.mark_stack, o)
  /\ s.during_incremental_marking =>
       IF t.mark_stack = s.mark_stack THEN t.marking_bits = s.marking_bits
       ELSE o \notin s.marking_bits /\ o \in t.marking_bits
  /\ ~s.during_incremental_marking =>
       /\ o \in s.mark_bits => t.mark_stack = s.mark_stack
       /\ t.marking_bits = s.marking_bits \/ o \in t.long_lived_bits

\* An object that is marked already is promoted, remembered or left alone.
LEMMA MarksMarked ==
  ASSUME NEW s \in Space, NEW o \in Slots, NEW old \in BOOLEAN, Coherent(s, o), o \in s.mark_bits
  PROVE  Marks(s, gc_mark_ptr(s, old, o), old, o)
<1>. DEFINE t == rgengc_check_relation(s, old, o)
<1>0. s.mark_bits = s.mark_bits \cup {o} /\ Append(s.mark_stack, o) # s.mark_stack
  <2>1. Len(Append(s.mark_stack, o)) = Len(s.mark_stack) + 1 /\ Len(s.mark_stack) \in Nat
    BY Parts
  <2>. QED BY <2>1
<1>1. CASE t = s /\ (~old \/ RVALUE_OLD_P(s, o))
  <2>1. gc_mark_ptr(s, old, o) = s
    BY <1>1, Zenon DEF gc_mark_ptr
  <2>. QED BY <1>0, <1>1, <2>1, Zenon DEF Marks
<1>2. CASE old /\ o \in s.wb_unprotected_bits
  <2>1. Is(t, s, s.mark_bits, s.marking_bits, s.long_lived_bits \cup {o}, s.age, s.mark_stack,
           s.old_objects)
    BY <1>2, CheckRelationIs, Zenon
  <2>2. gc_mark_ptr(s, old, o) = t
    BY <2>1, Zenon DEF gc_mark_ptr, Is
  <2>. HIDE DEF t
  <2>3. s.age[o] # RVALUE_OLD_AGE /\ t.age = s.age
    BY <1>2, <2>1, GCAssumption, Zenon DEF Coherent, Is
  <2>4. Coherent(t, o) /\ o \notin Olds(t)
    BY <1>2, <2>1, <2>3, Zenon DEF Is, Coherent, RVALUE_OLD_P, Olds
  <2>. QED BY <1>0, <1>2, <2>1, <2>2, <2>4, Zenon DEF Marks, Is, RVALUE_OLD_P
<1>3. CASE old /\ o \notin s.wb_unprotected_bits /\ ~RVALUE_OLD_P(s, o)
  <2>. DEFINE k == IF s.during_incremental_marking /\ o \notin s.marking_bits
                     THEN Append(s.mark_stack, o) ELSE s.mark_stack
              a == [s.age EXCEPT ![o] = RVALUE_OLD_AGE]
  <2>1. Is(t, s, s.mark_bits, s.marking_bits \cup {o}, s.long_lived_bits \cup {o}, a, k,
           s.old_objects + 1)
    BY <1>3, CheckRelationIs, Zenon
  <2>2. gc_mark_ptr(s, old, o) = t
    BY <2>1, Zenon DEF gc_mark_ptr, Is
  <2>3. a[o] = RVALUE_OLD_AGE /\ \A x \in Slots \ {o} : a[x] = s.age[x]
    BY Parts, Zenon
  <2>. HIDE DEF t, a
  <2>4. Coherent(t, o) /\ RVALUE_OLD_P(t, o) /\ o \in Olds(t) /\ o \notin Olds(s)
    BY <1>3, <2>1, <2>3, Zenon DEF Is, Coherent, RVALUE_OLD_P, Olds
  <2>. QED BY <1>0, <1>3, <2>1, <2>2, <2>3, <2>4, Zenon DEF Marks, Is
<1>. QED BY <1>1, <1>2, <1>3, CheckRelationIs, Zenon

\* A white object is marked, ages and is pushed.
LEMMA MarksWhite ==
  ASSUME NEW s \in Space, NEW o \in Slots, NEW old \in BOOLEAN, Coherent(s, o), o \notin s.mark_bits
  PROVE  Marks(s, gc_mark_ptr(s, old, o), old, o)
<1>. DEFINE r == rgengc_check_relation(s, old, o)
            u == [r EXCEPT !.mark_bits = @ \cup {o}]
            v == gc_aging(u, o)
            t == gc_mark_ptr(s, old, o)
            g == IF s.during_incremental_marking THEN s.marking_bits \cup {o} ELSE s.marking_bits
<1>0. Append(s.mark_stack, o) # s.mark_stack
  <2>1. Len(Append(s.mark_stack, o)) = Len(s.mark_stack) + 1 /\ Len(s.mark_stack) \in Nat
    BY Parts
  <2>. QED BY <2>1
<1>1. /\ Is(r, s, s.mark_bits, s.marking_bits, r.long_lived_bits, r.age, s.mark_stack, s.old_objects)
      /\ r.long_lived_bits =
           IF old /\ o \in s.wb_unprotected_bits THEN s.long_lived_bits \cup {o} ELSE s.long_lived_bits
      /\ r.age = IF old /\ o \notin s.wb_unprotected_bits /\ ~RVALUE_OLD_P(s, o)
                   THEN [s.age EXCEPT ![o] = RVALUE_OLD_AGE - 1] ELSE s.age
  BY CheckRelationIs, Zenon DEF Is
<1>2. r \in Space /\ r.mark_bits = s.mark_bits
  BY <1>1, Zenon DEF Is
<1>3. t = gc_grey(v, o)
  BY <1>2, Zenon DEF gc_mark_ptr
<1>. HIDE DEF r, t
<1>4. Is(u, s, s.mark_bits \cup {o}, s.marking_bits, r.long_lived_bits, r.age, s.mark_stack,
         s.old_objects)
  <2>1. Is(u, r, r.mark_bits \cup {o}, r.marking_bits, r.long_lived_bits, r.age, r.mark_stack,
           r.old_objects)
    BY <1>2, MarkIs, Zenon
  <2>. QED BY <1>1, <2>1, Zenon DEF Is
<1>5. u \in Space
  BY <1>4, Zenon DEF Is
<1>. HIDE DEF u
<1>. DEFINE aged == RVALUE_OLD_P(u, o)
            grows == o \notin u.wb_unprotected_bits /\ (aged => ~u.during_minor_gc)
            n == IF grows /\ ~aged THEN u.age[o] + 1 ELSE u.age[o]
            lists == grows /\ n = RVALUE_OLD_AGE
<1>6. Is(v, u, u.mark_bits, u.marking_bits,
         IF lists THEN u.long_lived_bits \cup {o} ELSE u.long_lived_bits,
         [u.age EXCEPT ![o] = n], u.mark_stack,
         IF lists THEN u.old_objects + 1 ELSE u.old_objects)
  <2>1. [u.age EXCEPT ![o] = u.age[o]] = u.age
    BY <1>5, Parts, Zenon
  <2>2. CASE ~grows
    <3>1. v = u
      BY <1>5, <2>2, AgingIs, Zenon
    <3>. QED BY <1>5, <2>1, <2>2, <3>1, Zenon DEF Is
  <2>3. CASE grows /\ aged
    BY <1>5, <2>1, <2>3, AgingIs, Zenon DEF RVALUE_OLD_P
  <2>4. CASE grows /\ ~aged
    BY <1>5, <2>4, AgingIs, Zenon DEF RVALUE_OLD_P
  <2>. QED BY <2>2, <2>3, <2>4, Zenon
<1>7. Is(t, v, v.mark_bits,
         IF v.during_incremental_marking THEN v.marking_bits \cup {o} ELSE v.marking_bits,
         v.long_lived_bits, v.age, Append(v.mark_stack, o), v.old_objects)
  <2>1. v \in Space
    BY <1>6, Zenon DEF Is
  <2>. QED BY <1>3, <2>1, GreyIs, Zenon
<1>. DEFINE l == IF lists THEN r.long_lived_bits \cup {o} ELSE r.long_lived_bits
            a == [r.age EXCEPT ![o] = n]
            c == IF lists THEN s.old_objects + 1 ELSE s.old_objects
<1>8. Is(t, s, s.mark_bits \cup {o}, g, l, a, Append(s.mark_stack, o), c)
  <2>. HIDE DEF v, lists, n
  <2>. QED BY <1>4, <1>6, <1>7, Zenon DEF Is
<1>9. /\ grows <=> o \notin s.wb_unprotected_bits /\ (RVALUE_OLD_P(s, o) => ~s.during_minor_gc)
      /\ aged <=> RVALUE_OLD_P(s, o)
      /\ n = IF grows /\ ~aged THEN r.age[o] + 1 ELSE r.age[o]
      /\ r.age[o] = IF old /\ o \notin s.wb_unprotected_bits /\ ~aged
                      THEN RVALUE_OLD_AGE - 1 ELSE s.age[o]
      /\ s.age[o] \in 0 .. RVALUE_OLD_AGE
  <2>1. /\ u.age = r.age /\ u.wb_unprotected_bits = s.wb_unprotected_bits
        /\ u.during_minor_gc = s.during_minor_gc
    BY <1>4, Zenon DEF Is
  <2>2. s.age \in [Slots -> 0 .. RVALUE_OLD_AGE] /\ s.age[o] \in 0 .. RVALUE_OLD_AGE
    BY Parts, Zenon
  <2>3. r.age[o] = IF old /\ o \notin s.wb_unprotected_bits /\ ~RVALUE_OLD_P(s, o)
                     THEN RVALUE_OLD_AGE - 1 ELSE s.age[o]
    BY <1>1, <2>2, Zenon
  <2>4. aged <=> RVALUE_OLD_P(s, o)
    BY <2>1, <2>2, <2>3, GCAssumption DEF RVALUE_OLD_P
  <2>. QED BY <2>1, <2>2, <2>3, <2>4, Zenon
<1>10. t.age[o] = n /\ \A x \in Slots \ {o} : t.age[x] = s.age[x]
  <2>1. r.age \in [Slots -> 0 .. RVALUE_OLD_AGE] /\ \A x \in Slots \ {o} : r.age[x] = s.age[x]
    BY <1>1, <1>2, Parts, Zenon
  <2>2. t.age = a
    BY <1>8, Zenon DEF Is
  <2>. QED BY <2>1, <2>2, Zenon
<1>. HIDE DEF grows, aged, n
<1>11. o \notin s.long_lived_bits /\ o \notin s.marking_bits /\ o \notin Olds(s)
  BY Zenon DEF Coherent, Olds
<1>12. RVALUE_OLD_P(t, o) <=> lists
  <2>1. CASE o \in s.wb_unprotected_bits
    BY <1>9, <1>10, <2>1, GCAssumption, Zenon DEF Coherent, RVALUE_OLD_P
  <2>2. CASE o \notin s.wb_unprotected_bits /\ RVALUE_OLD_P(s, o)
    BY <1>9, <1>10, <1>11, <2>2, Zenon DEF Coherent, RVALUE_OLD_P
  <2>3. CASE o \notin s.wb_unprotected_bits /\ ~RVALUE_OLD_P(s, o)
    BY <1>9, <1>10, <2>3, Zenon DEF RVALUE_OLD_P
  <2>. QED BY <2>1, <2>2, <2>3, Zenon
<1>13. RVALUE_OLD_P(s, o) => RVALUE_OLD_P(t, o)
  BY <1>9, <1>10, <1>11, GCAssumption, Zenon DEF Coherent, RVALUE_OLD_P
<1>14. o \in l <=> lists \/ (old /\ o \in s.wb_unprotected_bits)
  BY <1>1, <1>11, Zenon
<1>15. old => RVALUE_OLD_P(t, o) \/ o \in s.wb_unprotected_bits
  BY <1>9, <1>10, <1>13, GCAssumption DEF RVALUE_OLD_P
<1>16. o \in s.wb_unprotected_bits => t.age[o] = 0
  BY <1>9, <1>10, Zenon DEF Coherent
<1>17. l \in {s.long_lived_bits, s.long_lived_bits \cup {o}}
  BY <1>1, Zenon
<1>. HIDE DEF lists, l, a
<1>18. Coherent(t, o)
  BY <1>8, <1>12, <1>14, <1>16, Zenon DEF Is, Coherent
<1>19. o \in Olds(t) <=> lists
  BY <1>8, <1>12, <1>14, Zenon DEF Is, Olds
<1>20. /\ g \in {s.marking_bits, s.marking_bits \cup {o}}
       /\ IF s.during_incremental_marking THEN o \in g ELSE g = s.marking_bits
  BY Zenon
<1>21. c = IF o \in Olds(t) \ Olds(s) THEN s.old_objects + 1 ELSE s.old_objects
  BY <1>11, <1>19, Zenon
<1>. HIDE DEF g, c
<1>22. old => o \in t.long_lived_bits \cap t.wb_unprotected_bits \/ RVALUE_OLD_P(t, o)
  BY <1>8, <1>14, <1>15, Zenon DEF Is
<1>. QED
  BY <1>0, <1>8, <1>10, <1>11, <1>13, <1>17, <1>18, <1>20, <1>21, <1>22, Zenon DEF Is, Marks, t

\* gc_mark_ptr does what Marks says.
LEMMA MarkPtr ==
  ASSUME NEW s \in Space, NEW o \in Slots, NEW old \in BOOLEAN, Coherent(s, o)
  PROVE  Marks(s, gc_mark_ptr(s, old, o), old, o)
BY MarksMarked, MarksWhite, Zenon

\* The mark stack without its top, and with an object pushed.
LEMMA Pushed ==
  ASSUME NEW k \in Seq(Slots), NEW o \in Slots
  PROVE  /\ Len(Append(k, o)) = Len(k) + 1 /\ Len(k) \in Nat
         /\ Range(Append(k, o)) = Range(k) \cup {o}
         /\ IsInjective(k) /\ o \notin Range(k) => IsInjective(Append(k, o))
<1>. DEFINE new == Append(k, o)
<1>1. /\ new \in Seq(Slots) /\ Len(new) = Len(k) + 1 /\ Len(k) \in Nat
      /\ \A i \in 1 .. Len(k) : new[i] = k[i]
      /\ new[Len(k) + 1] = o
  OBVIOUS
<1>2. DOMAIN new = 1 .. Len(k) + 1 /\ DOMAIN k = 1 .. Len(k)
  BY <1>1
<1>. HIDE DEF new
<1>3. Range(new) = Range(k) \cup {o}
  BY <1>1, <1>2 DEF Range
<1>4. IsInjective(k) /\ o \notin Range(k) => IsInjective(new)
  BY <1>1, <1>2 DEF IsInjective, Range
<1>. QED BY <1>1, <1>3, <1>4, Zenon DEF new

\* pop_mark_stack takes the top off the mark stack, and leaves the rest.
LEMMA Popped ==
  ASSUME NEW k \in Seq(Slots), k # <<>>
  PROVE  LET f == SubSeq(k, 1, Len(k) - 1)
             o == k[Len(k)]
         IN /\ f \in Seq(Slots) /\ o \in Slots /\ Len(k) \in Nat /\ Len(f) = Len(k) - 1
            /\ Range(k) = Range(f) \cup {o}
            /\ IsInjective(k) => IsInjective(f) /\ o \notin Range(f)
<1>. DEFINE f == SubSeq(k, 1, Len(k) - 1)
            o == k[Len(k)]
<1>1. Len(k) \in Nat /\ Len(k) # 0 /\ DOMAIN k = 1 .. Len(k) /\ o \in Slots
  BY EmptySeq
<1>2. /\ f \in Seq(Slots) /\ Len(f) = Len(k) - 1
      /\ \A i \in 1 .. Len(k) - 1 : f[i] = k[i]
  BY <1>1
<1>3. DOMAIN f = 1 .. Len(k) - 1
  BY <1>2
<1>. HIDE DEF f
<1>4. Range(k) = Range(f) \cup {o}
  BY <1>1, <1>2, <1>3 DEF Range
<1>5. IsInjective(k) => IsInjective(f) /\ o \notin Range(f)
  BY <1>1, <1>2, <1>3 DEF IsInjective, Range
<1>. QED BY <1>1, <1>2, <1>4, <1>5, Zenon DEF f

\* The slots are finitely many.
LEMMA SlotsCounted ==
  ASSUME NEW S \in SUBSET Slots
  PROVE  IsFiniteSet(S) /\ Cardinality(S) \in 0 .. HEAP_SLOTS /\ (Cardinality(S) = HEAP_SLOTS => S = Slots)
<1>1. IsFiniteSet(Slots) /\ Cardinality(Slots) = HEAP_SLOTS
  BY FS_Interval, GCAssumption DEF Slots
<1>2. IsFiniteSet(S) /\ Cardinality(S) <= Cardinality(Slots) /\ (Cardinality(S) = Cardinality(Slots) => S = Slots)
  BY <1>1, FS_Subset, Zenon
<1>3. Cardinality(S) \in Nat
  BY <1>2, FS_CardinalityType, Zenon
<1>. QED BY <1>1, <1>2, <1>3, GCAssumption

-----------------------------------------------------------------------------
\* A set of slots that the mutator, following references, does not leave.
Heap(K) ==
  /\ K \in SUBSET Slots /\ roots \subseteq K
  /\ \A o \in K : ref[o] = 0 \/ ref[o] \in K

\* The bits of every object agree, old_objects is right, and only objects of K are
\* marked.
Sound(s, K) ==
  /\ s \in Space
  /\ \A o \in Slots : Coherent(s, o)
  /\ s.old_objects = Cardinality(Olds(s))
  /\ s.mark_bits \subseteq K

\* In incremental marking the grey objects are those in the mark stack, and those in
\* E, which are being scanned.
Stacked(s, E) ==
  IF s.during_incremental_marking
    THEN /\ s.marking_bits = Range(s.mark_stack) \cup E
         /\ Range(s.mark_stack) \cap E = {} /\ IsInjective(s.mark_stack)
    ELSE Range(s.mark_stack) \subseteq s.mark_bits /\ s.marking_bits \subseteq s.long_lived_bits

\* What the object refers to is marked.
Scanned(s, o) == ref[o] = 0 \/ ref[o] \in s.mark_bits

\* An old object refers to no young one, unless that is unprotected and long-lived.
NoYoung(s, o) ==
  RVALUE_OLD_P(s, o) /\ ref[o] # 0 =>
    RVALUE_OLD_P(s, ref[o]) \/ ref[o] \in s.long_lived_bits \cap s.wb_unprotected_bits

\* A minor collection misses nothing behind the object.
Recorded(s, o) == o \in s.marking_bits \/ NoYoung(s, o)

\* A marked object has been scanned, or is in the mark stack or in X.
Todo(s, X) ==
  \A o \in s.mark_bits :
    o \in X \/ o \in Range(s.mark_stack) \/ (Scanned(s, o) /\ Recorded(s, o))

\* gc_mark_ptr keeps all this.
LEMMA MarkKeeps ==
  ASSUME NEW K \in SUBSET Slots, NEW X, NEW E, NEW s, NEW o \in K, NEW old \in BOOLEAN,
         Sound(s, K), Stacked(s, E), Todo(s, X), ref \in [Slots -> Slots \cup {0}]
  PROVE  LET t == gc_mark_ptr(s, old, o)
         IN Marks(s, t, old, o) /\ Sound(t, K) /\ Stacked(t, E) /\ Todo(t, X)
<1>. DEFINE t == gc_mark_ptr(s, old, o)
<1>1. Marks(s, t, old, o) /\ s \in Space
  BY MarkPtr, Zenon DEF Sound
<1>. HIDE DEF t
<1>2. s.mark_stack \in Seq(Slots) /\ o \in Slots /\ t \in Space
  BY <1>1, Parts, Zenon DEF Marks
<1>3. \A x \in Slots \ {o} : /\ RVALUE_OLD_P(t, x) <=> RVALUE_OLD_P(s, x)
                             /\ x \in t.long_lived_bits <=> x \in s.long_lived_bits
                             /\ x \in t.marking_bits <=> x \in s.marking_bits
  BY <1>1, Zenon DEF Marks, RVALUE_OLD_P
<1>4. \A x \in Slots : Coherent(t, x)
  BY <1>1, <1>3, Zenon DEF Sound, Coherent, Marks
<1>5. t.old_objects = Cardinality(Olds(t))
  <2>1. IsFiniteSet(Olds(s)) /\ Cardinality(Olds(s)) \in Nat
    BY <1>1, Parts, SlotsCounted DEF Olds
  <2>2. Olds(t) = Olds(s) \/ (Olds(t) = Olds(s) \cup {o} /\ o \notin Olds(s))
    BY <1>1, <1>2, <1>3, Parts, Zenon DEF Olds, Marks, Coherent
  <2>. QED BY <1>1, <2>1, <2>2, FS_AddElement DEF Marks, Sound
<1>6. Sound(t, K)
  BY <1>1, <1>2, <1>4, <1>5, Zenon DEF Sound, Marks
<1>. DEFINE k == Append(s.mark_stack, o)
<1>7. /\ Range(k) = Range(s.mark_stack) \cup {o} /\ k # s.mark_stack
      /\ IsInjective(s.mark_stack) /\ o \notin Range(s.mark_stack) => IsInjective(k)
  BY <1>2, Pushed
<1>. HIDE DEF k
<1>8. Stacked(t, E)
  <2>1. CASE s.during_incremental_marking
    <3>1. CASE t.mark_stack = s.mark_stack
      BY <1>1, <2>1, <3>1, Zenon DEF Stacked, Marks
    <3>2. CASE t.mark_stack = k
      <4>1. o \notin s.marking_bits /\ t.marking_bits = s.marking_bits \cup {o}
        BY <1>1, <1>7, <2>1, <3>2, Zenon DEF Marks
      <4>. QED BY <1>1, <1>7, <2>1, <3>2, <4>1 DEF Stacked, Marks
    <3>. QED BY <1>1, <3>1, <3>2, Zenon DEF Marks, k
  <2>2. CASE ~s.during_incremental_marking
    <3>1. t.marking_bits \subseteq t.long_lived_bits
      BY <1>1, <2>2, Zenon DEF Stacked, Marks
    <3>2. Range(t.mark_stack) \subseteq t.mark_bits
      BY <1>1, <1>7, <2>2, Zenon DEF Stacked, Marks, k
    <3>. QED BY <1>1, <2>2, <3>1, <3>2, Zenon DEF Stacked, Marks
  <2>. QED BY <2>1, <2>2, Zenon
<1>10. Range(s.mark_stack) \subseteq Range(t.mark_stack) /\ (o \in s.mark_bits \/ o \in Range(t.mark_stack))
  BY <1>1, <1>7, Zenon DEF Marks, k
<1>9. Todo(t, X)
  <2>. SUFFICES ASSUME NEW x \in t.mark_bits, x \notin X, x \notin Range(t.mark_stack)
                PROVE  Scanned(t, x) /\ Recorded(t, x)
    BY Zenon DEF Todo
  <2>1. x \in Slots /\ x \in s.mark_bits /\ Scanned(s, x) /\ Recorded(s, x)
    BY <1>1, <1>2, <1>10, Parts, Zenon DEF Todo, Marks
  <2>2. Scanned(t, x)
    BY <1>1, <2>1, Zenon DEF Scanned, Marks
  <2>3. Recorded(t, x)
    <3>1. RVALUE_OLD_P(t, x) => RVALUE_OLD_P(s, x) \/ x \in t.marking_bits
      BY <1>1, <1>3, <2>1, Zenon DEF Marks
    <3>2. x \in s.marking_bits => x \in t.marking_bits
      BY <1>1, Zenon DEF Marks
    <3>3. ASSUME ref[x] # 0
          PROVE /\ RVALUE_OLD_P(s, ref[x]) => RVALUE_OLD_P(t, ref[x])
                /\ ref[x] \in s.long_lived_bits => ref[x] \in t.long_lived_bits
      <4>1. ref[x] \in Slots
        BY <2>1, <3>3, Zenon
      <4>. QED BY <1>1, <1>3, <4>1, Zenon DEF Marks
    <3>. QED BY <1>1, <2>1, <3>1, <3>2, <3>3, Zenon DEF Recorded, NoYoung, Marks
  <2>. QED BY <2>2, <2>3, Zenon
<1>. QED BY <1>1, <1>6, <1>8, <1>9, Zenon DEF t

\* What marking never takes back.  Outside incremental marking nothing is pushed that
\* was marked before.
Advanced(s, t) ==
  /\ s.mark_bits \subseteq t.mark_bits /\ s.long_lived_bits \subseteq t.long_lived_bits
  /\ t.wb_unprotected_bits = s.wb_unprotected_bits
  /\ t.during_minor_gc = s.during_minor_gc
  /\ t.during_incremental_marking = s.during_incremental_marking
  /\ \A x \in Slots \ t.mark_bits : t.age[x] = s.age[x]
  /\ ~s.during_incremental_marking =>
       Len(t.mark_stack) + Cardinality(s.mark_bits) <= Len(s.mark_stack) + Cardinality(t.mark_bits)

\* Only rgengc_rememberset_mark takes a bit of the remember set back.
Grown(s, t) == Advanced(s, t) /\ s.marking_bits \subseteq t.marking_bits

\* What marking has done, it has done.
LEMMA GrownSelf ==
  ASSUME NEW s \in Space
  PROVE  Grown(s, s)
BY Parts, SlotsCounted DEF Grown, Advanced

\* Marking goes on where it stopped.
LEMMA AdvancedOn ==
  ASSUME NEW s \in Space, NEW t \in Space, NEW u \in Space, Advanced(s, t), Advanced(t, u)
  PROVE  Advanced(s, u)
<1>1. /\ Cardinality(s.mark_bits) \in Nat /\ Len(s.mark_stack) \in Nat
      /\ Cardinality(t.mark_bits) \in Nat /\ Len(t.mark_stack) \in Nat
      /\ Cardinality(u.mark_bits) \in Nat /\ Len(u.mark_stack) \in Nat
  BY Parts, SlotsCounted
<1>2. ~s.during_incremental_marking =>
        Len(u.mark_stack) + Cardinality(s.mark_bits) <= Len(s.mark_stack) + Cardinality(u.mark_bits)
  <2>. SUFFICES ASSUME ~s.during_incremental_marking
                PROVE  Len(u.mark_stack) + Cardinality(s.mark_bits)
                         <= Len(s.mark_stack) + Cardinality(u.mark_bits)
    BY Zenon
  <2>1. Len(t.mark_stack) + Cardinality(s.mark_bits) <= Len(s.mark_stack) + Cardinality(t.mark_bits)
    BY Zenon DEF Advanced
  <2>2. Len(u.mark_stack) + Cardinality(t.mark_bits) <= Len(t.mark_stack) + Cardinality(u.mark_bits)
    BY Zenon DEF Advanced
  <2>3. \A a, b, c, d, e, f \in Nat : b + c <= a + d /\ e + d <= b + f => e + c <= a + f
    OBVIOUS
  <2>. QED BY <1>1, <2>1, <2>2, <2>3, Zenon
<1>3. \A x \in Slots \ u.mark_bits : u.age[x] = s.age[x]
  BY Zenon DEF Advanced
<1>. QED BY <1>2, <1>3, Zenon DEF Advanced

\* The same with the remember set.
LEMMA GrownOn ==
  ASSUME NEW s \in Space, NEW t \in Space, NEW u \in Space, Grown(s, t), Grown(t, u)
  PROVE  Grown(s, u)
BY AdvancedOn, Zenon DEF Grown

\* gc_mark_ptr takes back nothing.
LEMMA MarkGrows ==
  ASSUME NEW s \in Space, NEW t, NEW o \in Slots, NEW old, Marks(s, t, old, o)
  PROVE  Grown(s, t)
<1>1. t \in Space /\ s.mark_bits \in SUBSET Slots /\ s.mark_stack \in Seq(Slots)
  BY Parts, Zenon DEF Marks
<1>2. /\ IsFiniteSet(s.mark_bits) /\ Cardinality(s.mark_bits) \in Nat
      /\ Len(s.mark_stack) \in Nat /\ Len(Append(s.mark_stack, o)) = Len(s.mark_stack) + 1
  BY <1>1, SlotsCounted, Pushed
<1>3. Cardinality(s.mark_bits \cup {o}) =
        IF o \in s.mark_bits THEN Cardinality(s.mark_bits) ELSE Cardinality(s.mark_bits) + 1
  BY <1>2, FS_AddElement, Zenon
<1>4. ~s.during_incremental_marking =>
        Len(t.mark_stack) + Cardinality(s.mark_bits) <= Len(s.mark_stack) + Cardinality(t.mark_bits)
  <2>1. t.mark_bits = s.mark_bits \cup {o} /\ t.mark_stack \in {s.mark_stack, Append(s.mark_stack, o)}
    BY Zenon DEF Marks
  <2>2. ~s.during_incremental_marking /\ o \in s.mark_bits => t.mark_stack = s.mark_stack
    BY Zenon DEF Marks
  <2>. QED BY <1>2, <1>3, <2>1, <2>2
<1>. QED BY <1>4, Zenon DEF Grown, Advanced, Marks

\* gc_mark_children scans an object.
LEMMA ScanKeeps ==
  ASSUME NEW K, NEW X, NEW E, NEW s, NEW x \in s.mark_bits, Heap(K),
         Sound(s, K), Stacked(s, E), Todo(s, X \cup {x}), ref \in [Slots -> Slots \cup {0}]
  PROVE  LET t == gc_mark_children(s, x)
         IN /\ Sound(t, K) /\ Stacked(t, E) /\ Todo(t, X) /\ Grown(s, t)
            /\ Scanned(t, x) /\ NoYoung(t, x)
<1>. DEFINE t == gc_mark_children(s, x)
<1>1. s \in Space /\ x \in K /\ K \in SUBSET Slots /\ x \in Slots
  BY Zenon DEF Sound, Heap
<1>2. Sound(t, K) /\ Stacked(t, E) /\ Todo(t, X \cup {x}) /\ Grown(s, t) /\ Scanned(t, x) /\ NoYoung(t, x)
  <2>1. CASE ref[x] = 0
    <3>1. t = s
      BY <2>1, Zenon DEF gc_mark_children
    <3>2. Grown(s, s)
      BY <1>1, GrownSelf, Zenon
    <3>. QED BY <2>1, <3>1, <3>2, Zenon DEF Scanned, NoYoung
  <2>2. CASE ref[x] # 0
    <3>. DEFINE o == ref[x]
                old == RVALUE_OLD_P(s, x)
    <3>1. t = gc_mark_ptr(s, old, o)
      BY <2>2, Zenon DEF gc_mark_children
    <3>2. o \in K /\ old \in BOOLEAN
      BY <1>1, <2>2, Zenon DEF Heap, RVALUE_OLD_P
    <3>. HIDE DEF t
    <3>3. Marks(s, t, old, o) /\ Sound(t, K) /\ Stacked(t, E) /\ Todo(t, X \cup {x})
      BY <1>1, <3>1, <3>2, MarkKeeps
    <3>4. Grown(s, t)
      BY <1>1, <3>2, <3>3, MarkGrows, Zenon
    <3>5. Scanned(t, x)
      BY <3>3, Zenon DEF Marks, Scanned
    <3>6. NoYoung(t, x)
      <4>1. CASE o = x
        BY <4>1, Zenon DEF NoYoung
      <4>2. CASE o # x
        <5>1. RVALUE_OLD_P(t, x) => old
          BY <1>1, <3>3, <4>2, Zenon DEF Marks, RVALUE_OLD_P
        <5>. QED BY <3>3, <5>1, Zenon DEF Marks, NoYoung
      <4>. QED BY <4>1, <4>2, Zenon
    <3>. QED BY <3>3, <3>4, <3>5, <3>6, Zenon
  <2>. QED BY <2>1, <2>2, Zenon
<1>. HIDE DEF t
<1>3. Todo(t, X)
  BY <1>2, Zenon DEF Todo, Recorded
<1>. QED BY <1>2, <1>3, Zenon DEF t

\* What marking keeps of an objspace.
MarkInv(s, K, X, E) == Sound(s, K) /\ Stacked(s, E) /\ Todo(s, X)

\* gc_mark_roots marks what the machine stack refers to.
LEMMA MarkRoots ==
  ASSUME NEW K, NEW X, NEW E, NEW s, Heap(K), MarkInv(s, K, X, E),
         ref \in [Slots -> Slots \cup {0}]
  PROVE  LET t == gc_mark_roots(s)
         IN MarkInv(t, K, X, E) /\ Grown(s, t) /\ roots \subseteq t.mark_bits
<1>. DEFINE R == {r \in Space : MarkInv(r, K, X, E)}
            Turn(r, o) == IF o \in roots THEN gc_mark_ptr(r, FALSE, o) ELSE r
            step == [p \in R \X Slots |-> Turn(p[1], p[2])]
            Fits(h) == h = [i \in 0 .. HEAP_SLOTS |-> IF i = 0 THEN s ELSE Turn(h[i - 1], i)]
            g == CHOOSE h : Fits(h)
            P == [i \in 0 .. HEAP_SLOTS |->
                    {r \in R : Grown(s, r) /\ \A o \in roots : o <= i => o \in r.mark_bits}]
<1>1. s \in R /\ K \in SUBSET Slots /\ roots \subseteq K
  BY Zenon DEF MarkInv, Sound, Heap
<1>2. ASSUME NEW r \in R, NEW o \in Slots
      PROVE  /\ Turn(r, o) \in R /\ Grown(r, Turn(r, o))
             /\ o \in roots => o \in Turn(r, o).mark_bits
  <2>1. CASE o \in roots
    <3>1. LET t == gc_mark_ptr(r, FALSE, o)
          IN Marks(r, t, FALSE, o) /\ Sound(t, K) /\ Stacked(t, E) /\ Todo(t, X)
      BY <1>1, <2>1, MarkKeeps, Zenon DEF MarkInv
    <3>2. Grown(r, gc_mark_ptr(r, FALSE, o))
      BY <3>1, MarkGrows, Zenon
    <3>. QED BY <2>1, <3>1, <3>2, Zenon DEF MarkInv, Marks
  <2>2. CASE o \notin roots
    BY <2>2, GrownSelf, Zenon
  <2>. QED BY <2>1, <2>2, Zenon
<1>3. \E h : Fits(h)
  <2>. HIDE DEF R, Turn
  <2>1. step \in [R \X Slots -> R]
    BY <1>2, Zenon
  <2>2. \A r \in R, o \in Slots : step[<<r, o>>] = Turn(r, o)
    BY Zenon
  <2>. HIDE DEF step
  <2>3. PICK h : Runs(h, R, s, step)
    BY <1>1, <2>1, LoopRuns, Zenon
  <2>4. \A i \in 0 .. HEAP_SLOTS : i # 0 => i \in Slots /\ h[i - 1] \in R
    BY <2>3, GCAssumption DEF Slots, Runs
  <2>5. Fits(h)
    BY <2>2, <2>3, <2>4, Zenon DEF Runs
  <2>. QED BY <2>5, Zenon
<1>4. Fits(g)
  <2>. HIDE DEF Fits
  <2>. QED BY <1>3, Zenon
<1>5. gc_mark_roots(s) = g[HEAP_SLOTS]
  BY Zenon DEF gc_mark_roots, ForPages
<1>. HIDE DEF g, R, Turn
<1>6. g[0] = s /\ \A i \in Slots : g[i] = Turn(g[i - 1], i) /\ i \in 0 .. HEAP_SLOTS /\ i - 1 \in 0 .. HEAP_SLOTS
  BY <1>4, GCAssumption DEF Slots
<1>7. g[HEAP_SLOTS] \in P[HEAP_SLOTS]
  <2>1. g[0] \in P[0]
    <3>1. \A o \in roots : ~(o <= 0)
      BY <1>1 DEF Slots
    <3>. QED BY <1>1, <1>6, <3>1, GrownSelf, GCAssumption DEF R
  <2>2. ASSUME NEW i \in Slots, g[i - 1] \in P[i - 1] PROVE g[i] \in P[i]
    <3>1. g[i - 1] \in R /\ Grown(s, g[i - 1]) /\ \A o \in roots : o <= i - 1 => o \in g[i - 1].mark_bits
      BY <1>6, <2>2, Zenon
    <3>2. g[i] \in R /\ Grown(g[i - 1], g[i]) /\ (i \in roots => i \in g[i].mark_bits)
      BY <1>2, <1>6, <3>1, Zenon
    <3>3. Grown(s, g[i])
      BY <1>1, <3>1, <3>2, GrownOn, Zenon DEF R
    <3>4. \A o \in roots : o <= i => o = i \/ o <= i - 1
      BY <1>1 DEF Slots
    <3>5. \A o \in roots : o <= i => o \in g[i].mark_bits
      BY <3>1, <3>2, <3>4, Zenon DEF Grown, Advanced
    <3>. QED BY <1>6, <3>2, <3>3, <3>5, Zenon
  <2>. HIDE DEF P
  <2>. QED BY <2>1, <2>2, LoopKeeps, Zenon
<1>8. HEAP_SLOTS \in 0 .. HEAP_SLOTS /\ \A o \in roots : o <= HEAP_SLOTS
  BY <1>1, GCAssumption DEF Slots
<1>. QED BY <1>5, <1>7, <1>8, Zenon DEF R

\* Replacing the mark stack changes nothing else.
LEMMA StackIs ==
  ASSUME NEW s \in Space, NEW k \in Seq(Slots)
  PROVE  Is([s EXCEPT !.mark_stack = k], s,
            s.mark_bits, s.marking_bits, s.long_lived_bits, s.age, k, s.old_objects)
BY Zenon DEF Space, Is

\* Neither does replacing the remember set.
LEMMA MarkingIs ==
  ASSUME NEW s \in Space, NEW g \in SUBSET Slots
  PROVE  Is([s EXCEPT !.marking_bits = g], s,
            s.mark_bits, g, s.long_lived_bits, s.age, s.mark_stack, s.old_objects)
BY Zenon DEF Space, Is

\* The mark stack and grey bits that go do not disturb the other bits.
LEMMA StillSound ==
  ASSUME NEW s, NEW K, Sound(s, K), NEW g \in SUBSET s.marking_bits, NEW k, NEW t,
         Is(t, s, s.mark_bits, g, s.long_lived_bits, s.age, k, s.old_objects)
  PROVE  Sound(t, K)
<1>1. Olds(t) = Olds(s) /\ \A o \in Slots : Coherent(t, o)
  BY Zenon DEF Sound, Is, Olds, Coherent, RVALUE_OLD_P
<1>. QED BY <1>1, Zenon DEF Sound, Is

\* A turn of gc_mark_stacked_objects scans the top of the mark stack.
LEMMA PopKeeps ==
  ASSUME NEW K, NEW X, NEW s, Heap(K), MarkInv(s, K, X, {}), s.mark_stack # <<>>,
         ref \in [Slots -> Slots \cup {0}]
  PROVE  LET t == gc_mark_stacked_object(s)
         IN /\ MarkInv(t, K, X, {})
            /\ s.mark_bits \subseteq t.mark_bits /\ s.long_lived_bits \subseteq t.long_lived_bits
            /\ t.wb_unprotected_bits = s.wb_unprotected_bits
            /\ t.during_minor_gc = s.during_minor_gc
            /\ \A x \in Slots \ t.mark_bits : t.age[x] = s.age[x]
            /\ t.during_incremental_marking = s.during_incremental_marking
            /\ ~s.during_incremental_marking =>
                 Grown(s, t) /\ Len(t.mark_stack) + Cardinality(s.mark_bits) + 1
                                  <= Len(s.mark_stack) + Cardinality(t.mark_bits)
<1>. DEFINE k == s.mark_stack
            f == SubSeq(k, 1, Len(k) - 1)
            o == k[Len(k)]
            p == [s EXCEPT !.mark_stack = f]
            r == gc_mark_children(p, o)
            t == IF s.during_incremental_marking
                   THEN [r EXCEPT !.marking_bits = r.marking_bits \ {o}] ELSE r
            E == IF s.during_incremental_marking THEN {o} ELSE {}
<1>1. s \in Space /\ k \in Seq(Slots) /\ K \in SUBSET Slots /\ s.mark_bits \in SUBSET Slots
  BY Parts, Zenon DEF MarkInv, Sound, Heap
<1>2. /\ f \in Seq(Slots) /\ o \in Slots /\ Len(k) \in Nat /\ Len(f) = Len(k) - 1
      /\ Range(k) = Range(f) \cup {o}
      /\ IsInjective(k) => IsInjective(f) /\ o \notin Range(f)
  BY <1>1, Popped, Zenon
<1>3. t = gc_mark_stacked_object(s)
  BY Zenon DEF gc_mark_stacked_object
<1>. HIDE DEF f, o
<1>4. Is(p, s, s.mark_bits, s.marking_bits, s.long_lived_bits, s.age, f, s.old_objects)
  BY <1>1, <1>2, StackIs, Zenon
<1>. HIDE DEF p
<1>5. Sound(p, K)
  BY <1>4, StillSound, Zenon DEF MarkInv
<1>6. o \in s.mark_bits
  BY <1>2, Zenon DEF MarkInv, Stacked, Sound, Coherent
<1>7. Stacked(p, E)
  BY <1>2, <1>4, Zenon DEF MarkInv, Stacked, Is
<1>8. Todo(p, X \cup {o})
  <2>1. \A x \in Slots : RVALUE_OLD_P(p, x) <=> RVALUE_OLD_P(s, x)
    BY <1>4, Zenon DEF Is, RVALUE_OLD_P
  <2>2. \A x \in s.mark_bits : Scanned(s, x) /\ Recorded(s, x) => Scanned(p, x) /\ Recorded(p, x)
    BY <1>1, <1>4, <2>1, Zenon DEF Is, Scanned, Recorded, NoYoung
  <2>. QED BY <1>2, <1>4, <2>2, Zenon DEF MarkInv, Todo, Is
<1>9. /\ Sound(r, K) /\ Stacked(r, E) /\ Todo(r, X) /\ Grown(p, r)
      /\ Scanned(r, o) /\ NoYoung(r, o)
  BY <1>4, <1>5, <1>6, <1>7, <1>8, ScanKeeps, Zenon DEF Is
<1>. HIDE DEF r
<1>10. r \in Space /\ r.marking_bits \in SUBSET Slots
  BY <1>9, Parts, Zenon DEF Sound
<1>11. CASE s.during_incremental_marking
  <2>1. Is(t, r, r.mark_bits, r.marking_bits \ {o}, r.long_lived_bits, r.age, r.mark_stack, r.old_objects)
    BY <1>10, <1>11, MarkingIs, Zenon
  <2>. HIDE DEF t
  <2>2. Sound(t, K)
    BY <1>9, <2>1, StillSound, Zenon
  <2>3. r.during_incremental_marking /\ t.during_incremental_marking
    BY <1>4, <1>9, <1>11, <2>1, Zenon DEF Is, Grown, Advanced
  <2>4. Stacked(t, {})
    BY <1>9, <1>11, <2>1, <2>3, Zenon DEF Stacked, Is
  <2>5. Todo(t, X)
    <3>1. \A x \in Slots : RVALUE_OLD_P(t, x) <=> RVALUE_OLD_P(r, x)
      BY <2>1, Zenon DEF Is, RVALUE_OLD_P
    <3>2. \A x \in r.mark_bits : Scanned(r, x) => Scanned(t, x)
      BY <2>1, Zenon DEF Is, Scanned
    <3>3. \A x \in Slots : NoYoung(r, x) => NoYoung(t, x)
      BY <2>1, <3>1, Zenon DEF Is, NoYoung
    <3>4. \A x \in r.mark_bits : Recorded(r, x) => Recorded(t, x)
      <4>1. r.mark_bits \subseteq Slots
        BY <1>10, Parts, Zenon
      <4>. QED BY <1>2, <1>9, <2>1, <3>3, <4>1, Zenon DEF Is, Recorded
    <3>. QED BY <1>9, <2>1, <3>2, <3>4, Zenon DEF Todo, Is
  <2>. QED BY <1>3, <1>4, <1>9, <1>11, <2>1, <2>2, <2>3, <2>4, <2>5 DEF MarkInv, Is, Grown, Advanced
<1>12. CASE ~s.during_incremental_marking
  <2>1. t = r
    BY <1>12, Zenon
  <2>2. Len(r.mark_stack) + Cardinality(s.mark_bits) <= Len(f) + Cardinality(r.mark_bits)
    BY <1>4, <1>9, <1>12, Zenon DEF Grown, Advanced, Is
  <2>3. /\ Len(r.mark_stack) \in Nat /\ Cardinality(s.mark_bits) \in Nat
        /\ Cardinality(r.mark_bits) \in Nat
    BY <1>1, <1>10, Parts, SlotsCounted
  <2>4. Len(r.mark_stack) + Cardinality(s.mark_bits) + 1 <= Len(k) + Cardinality(r.mark_bits)
    BY <1>2, <2>2, <2>3
  <2>5. Len(r.mark_stack) + Cardinality(s.mark_bits) <= Len(k) + Cardinality(r.mark_bits)
    BY <1>2, <2>3, <2>4
  <2>6. Grown(s, r)
    BY <1>4, <1>9, <2>5, Zenon DEF Is, Grown, Advanced
  <2>. QED BY <1>3, <1>9, <1>12, <2>1, <2>4, <2>6, Zenon DEF MarkInv, Grown, Advanced
<1>. QED BY <1>11, <1>12, Zenon

\* Outside incremental marking gc_mark_stacked_objects_all empties the mark stack: an
\* object is pushed when it gets its mark bit, and once only.
LEMMA DrainEmpties ==
  ASSUME NEW K, NEW X, NEW s, Heap(K), MarkInv(s, K, X, {}), ~s.during_incremental_marking,
         Len(s.mark_stack) <= Cardinality(s.mark_bits), ref \in [Slots -> Slots \cup {0}]
  PROVE  LET t == gc_mark_stacked_objects_all(s)
         IN MarkInv(t, K, X, {}) /\ Grown(s, t) /\ t.mark_stack = <<>>
<1>. DEFINE R == {r \in Space : MarkInv(r, K, X, {}) /\ ~r.during_incremental_marking}
            Turn(r, i) == IF r.mark_stack = <<>> THEN r ELSE gc_mark_stacked_object(r)
            step == [p \in R \X Slots |-> Turn(p[1], p[2])]
            Fits(h) == h = [i \in 0 .. HEAP_SLOTS |-> IF i = 0 THEN s ELSE Turn(h[i - 1], i)]
            g == CHOOSE h : Fits(h)
            P == [i \in 0 .. HEAP_SLOTS |->
                    {r \in R : Grown(s, r) /\ (\/ r.mark_stack = <<>>
                                               \/ Len(r.mark_stack) + i <= Cardinality(r.mark_bits))}]
<1>1. s \in R
  BY Zenon DEF MarkInv, Sound
<1>2. ASSUME NEW r \in R, NEW i \in Slots
      PROVE  /\ Turn(r, i) \in R /\ Grown(r, Turn(r, i))
             /\ r.mark_stack # <<>> =>
                  Len(Turn(r, i).mark_stack) + Cardinality(r.mark_bits) + 1
                    <= Len(r.mark_stack) + Cardinality(Turn(r, i).mark_bits)
  <2>1. CASE r.mark_stack # <<>>
    <3>. DEFINE t == gc_mark_stacked_object(r)
    <3>1. /\ MarkInv(t, K, X, {}) /\ ~t.during_incremental_marking /\ Grown(r, t)
          /\ Len(t.mark_stack) + Cardinality(r.mark_bits) + 1
               <= Len(r.mark_stack) + Cardinality(t.mark_bits)
      BY <2>1, PopKeeps, SMTT(20)
    <3>2. t \in Space
      BY <3>1, Zenon DEF MarkInv, Sound
    <3>. HIDE DEF t
    <3>3. Turn(r, i) = t
      BY <2>1, Zenon DEF t
    <3>. HIDE DEF Turn
    <3>. QED BY <3>1, <3>2, <3>3, Zenon
  <2>2. CASE r.mark_stack = <<>>
    BY <2>2, GrownSelf, Zenon
  <2>. QED BY <2>1, <2>2, Zenon
<1>3. \E h : Fits(h)
  <2>. HIDE DEF R, Turn
  <2>1. step \in [R \X Slots -> R]
    BY <1>2, Zenon
  <2>2. \A r \in R, o \in Slots : step[<<r, o>>] = Turn(r, o)
    BY Zenon
  <2>. HIDE DEF step
  <2>3. PICK h : Runs(h, R, s, step)
    BY <1>1, <2>1, LoopRuns, Zenon
  <2>4. \A i \in 0 .. HEAP_SLOTS : i # 0 => i \in Slots /\ h[i - 1] \in R
    BY <2>3, GCAssumption DEF Slots, Runs
  <2>5. Fits(h)
    BY <2>2, <2>3, <2>4, Zenon DEF Runs
  <2>. QED BY <2>5, Zenon
<1>4. Fits(g)
  <2>. HIDE DEF Fits
  <2>. QED BY <1>3, Zenon
<1>5. gc_mark_stacked_objects_all(s) = g[HEAP_SLOTS]
  BY Zenon DEF gc_mark_stacked_objects_all, ForPages
<1>. HIDE DEF g, R, Turn
<1>6. g[0] = s /\ \A i \in Slots : g[i] = Turn(g[i - 1], i) /\ i \in 0 .. HEAP_SLOTS /\ i - 1 \in 0 .. HEAP_SLOTS
  BY <1>4, GCAssumption DEF Slots
<1>7. \A r \in R : r \in Space /\ Len(r.mark_stack) \in Nat /\ Cardinality(r.mark_bits) \in 0 .. HEAP_SLOTS
  BY Parts, SlotsCounted DEF R
<1>8. g[HEAP_SLOTS] \in P[HEAP_SLOTS]
  <2>1. g[0] \in P[0]
    BY <1>1, <1>6, <1>7, GrownSelf, GCAssumption
  <2>2. ASSUME NEW i \in Slots, g[i - 1] \in P[i - 1] PROVE g[i] \in P[i]
    <3>. DEFINE a == g[i - 1]
                b == g[i]
    <3>1. /\ a \in R /\ Grown(s, a)
          /\ a.mark_stack = <<>> \/ Len(a.mark_stack) + (i - 1) <= Cardinality(a.mark_bits)
      BY <1>6, <2>2, Zenon
    <3>2. /\ b \in R /\ Grown(a, b)
          /\ a.mark_stack # <<>> => Len(b.mark_stack) + Cardinality(a.mark_bits) + 1
                                      <= Len(a.mark_stack) + Cardinality(b.mark_bits)
      BY <1>2, <1>6, <3>1, Zenon
    <3>3. Grown(s, b)
      BY <1>1, <1>7, <3>1, <3>2, GrownOn, Zenon
    <3>4. b.mark_stack = <<>> \/ Len(b.mark_stack) + i <= Cardinality(b.mark_bits)
      <4>1. CASE a.mark_stack = <<>>
        BY <1>6, <4>1, Zenon DEF Turn
      <4>2. CASE a.mark_stack # <<>>
        <5>1. \A c, d, m, n, j \in Nat : c + (j - 1) <= m /\ d + m + 1 <= c + n => d + j <= n
          OBVIOUS
        <5>2. /\ Len(a.mark_stack) \in Nat /\ Cardinality(a.mark_bits) \in Nat
              /\ Len(b.mark_stack) \in Nat /\ Cardinality(b.mark_bits) \in Nat /\ i \in Nat
          BY <1>7, <3>1, <3>2, GCAssumption DEF Slots
        <5>3. Len(a.mark_stack) + (i - 1) <= Cardinality(a.mark_bits)
          BY <3>1, <4>2, Zenon
        <5>4. Len(b.mark_stack) + Cardinality(a.mark_bits) + 1 <= Len(a.mark_stack) + Cardinality(b.mark_bits)
          BY <3>2, <4>2, Zenon
        <5>. HIDE DEF a, b
        <5>. QED BY <5>1, <5>2, <5>3, <5>4, Zenon
      <4>. QED BY <4>1, <4>2, Zenon
    <3>. QED BY <1>6, <3>2, <3>3, <3>4, Zenon
  <2>. HIDE DEF P
  <2>. QED BY <2>1, <2>2, LoopKeeps, Zenon
<1>. DEFINE t == g[HEAP_SLOTS]
<1>9. t \in R /\ Grown(s, t) /\ (t.mark_stack = <<>> \/ Len(t.mark_stack) + HEAP_SLOTS <= Cardinality(t.mark_bits))
  BY <1>8, GCAssumption
<1>10. t.mark_stack = <<>>
  <2>1. Len(t.mark_stack) + HEAP_SLOTS <= Cardinality(t.mark_bits) => Len(t.mark_stack) = 0
    BY <1>7, <1>9, GCAssumption
  <2>. QED BY <1>7, <1>9, <2>1, Parts, EmptySeq, Zenon
<1>. QED BY <1>5, <1>9, <1>10, Zenon DEF R

\* gc_marks_wb_unprotected_objects scans the marked objects that no barrier watched,
\* and what it marks.
LEMMA UnprotectedScanned ==
  ASSUME NEW K, NEW s, Heap(K), MarkInv(s, K, s.wb_unprotected_bits, {}),
         ~s.during_incremental_marking, s.mark_stack = <<>>, ref \in [Slots -> Slots \cup {0}]
  PROVE  LET t == gc_marks_wb_unprotected_objects(s)
         IN MarkInv(t, K, {}, {}) /\ Grown(s, t) /\ t.mark_stack = <<>>
<1>. DEFINE W == s.wb_unprotected_bits
            R == {r \in Space : Sound(r, K) /\ Stacked(r, {}) /\ r.wb_unprotected_bits = W}
            Turn(r, o) == IF o \in r.mark_bits \cap r.wb_unprotected_bits
                            THEN gc_mark_children(r, o) ELSE r
            step == [p \in R \X Slots |-> Turn(p[1], p[2])]
            Fits(h) == h = [i \in 0 .. HEAP_SLOTS |-> IF i = 0 THEN s ELSE Turn(h[i - 1], i)]
            g == CHOOSE h : Fits(h)
            P == [i \in 0 .. HEAP_SLOTS |->
                    {r \in R : Grown(s, r) /\ Todo(r, {x \in W : x > i})}]
<1>1. s \in R /\ s \in Space /\ W \in SUBSET Slots
  BY Parts, Zenon DEF MarkInv, Sound
<1>2. ASSUME NEW r \in R, NEW o \in Slots
      PROVE  /\ Turn(r, o) \in R /\ Grown(r, Turn(r, o))
             /\ \A X : Todo(r, X \cup ({o} \cap W)) => Todo(Turn(r, o), X)
  <2>1. CASE o \in r.mark_bits \cap r.wb_unprotected_bits
    <3>. DEFINE t == gc_mark_children(r, o)
    <3>1. Turn(r, o) = t
      BY <2>1, Zenon
    <3>2. Todo(r, Slots \cup {o})
      BY Parts, Zenon DEF Todo
    <3>3. Sound(t, K) /\ Stacked(t, {}) /\ Grown(r, t)
      BY <2>1, <3>2, ScanKeeps, Zenon
    <3>4. ASSUME NEW X, Todo(r, X \cup ({o} \cap W)) PROVE Todo(t, X)
      <4>1. {o} \cap W = {o}
        BY <2>1, Zenon
      <4>2. Todo(r, X \cup {o})
        BY <3>4, <4>1, Zenon
      <4>. QED BY <2>1, <4>2, ScanKeeps, Zenon
    <3>. HIDE DEF t, Turn
    <3>5. t \in R
      BY <3>3, Zenon DEF Sound, Grown, Advanced
    <3>. QED BY <3>1, <3>3, <3>4, <3>5, Zenon
  <2>2. CASE o \notin r.mark_bits \cap r.wb_unprotected_bits
    <3>1. Turn(r, o) = r
      BY <2>2, Zenon
    <3>2. ASSUME NEW X, Todo(r, X \cup ({o} \cap W)) PROVE Todo(r, X)
      BY <2>2, <3>2, Zenon DEF Todo
    <3>. QED BY <3>1, <3>2, GrownSelf, Zenon
  <2>. QED BY <2>1, <2>2, Zenon
<1>3. \E h : Fits(h)
  <2>. HIDE DEF R, Turn
  <2>1. step \in [R \X Slots -> R]
    BY <1>2, Zenon
  <2>2. \A r \in R, o \in Slots : step[<<r, o>>] = Turn(r, o)
    BY Zenon
  <2>. HIDE DEF step
  <2>3. PICK h : Runs(h, R, s, step)
    BY <1>1, <2>1, LoopRuns, Zenon
  <2>4. \A i \in 0 .. HEAP_SLOTS : i # 0 => i \in Slots /\ h[i - 1] \in R
    BY <2>3, GCAssumption DEF Slots, Runs
  <2>5. Fits(h)
    BY <2>2, <2>3, <2>4, Zenon DEF Runs
  <2>. QED BY <2>5, Zenon
<1>4. Fits(g)
  <2>. HIDE DEF Fits
  <2>. QED BY <1>3, Zenon
<1>5. gc_marks_wb_unprotected_objects(s) = gc_mark_stacked_objects_all(g[HEAP_SLOTS])
  BY Zenon DEF gc_marks_wb_unprotected_objects, ForPages
<1>. HIDE DEF g, R, Turn
<1>6. g[0] = s /\ \A i \in Slots : g[i] = Turn(g[i - 1], i) /\ i \in 0 .. HEAP_SLOTS /\ i - 1 \in 0 .. HEAP_SLOTS
  BY <1>4, GCAssumption DEF Slots
<1>7. g[HEAP_SLOTS] \in P[HEAP_SLOTS]
  <2>1. g[0] \in P[0]
    <3>1. {x \in W : x > 0} = W
      BY <1>1 DEF Slots
    <3>2. Todo(s, {x \in W : x > 0})
      BY <3>1, Zenon DEF MarkInv
    <3>. HIDE DEF W
    <3>. QED BY <1>1, <1>6, <3>2, GrownSelf, GCAssumption
  <2>2. ASSUME NEW i \in Slots, g[i - 1] \in P[i - 1] PROVE g[i] \in P[i]
    <3>1. g[i - 1] \in R /\ Grown(s, g[i - 1]) /\ Todo(g[i - 1], {x \in W : x > i - 1})
      BY <1>6, <2>2, Zenon
    <3>2. {x \in W : x > i - 1} = {x \in W : x > i} \cup ({i} \cap W)
      BY <1>1 DEF Slots
    <3>3. g[i] \in R /\ Grown(g[i - 1], g[i]) /\ Todo(g[i], {x \in W : x > i})
      BY <1>2, <1>6, <3>1, <3>2
    <3>4. Grown(s, g[i])
      BY <1>1, <3>1, <3>3, GrownOn, Zenon DEF R
    <3>. QED BY <1>6, <3>3, <3>4, Zenon
  <2>. HIDE DEF P
  <2>. QED BY <2>1, <2>2, LoopKeeps, Zenon
<1>. DEFINE t == g[HEAP_SLOTS]
            u == gc_mark_stacked_objects_all(t)
<1>8. t \in Space /\ MarkInv(t, K, {}, {}) /\ Grown(s, t)
  <2>1. {x \in W : x > HEAP_SLOTS} = {}
    BY <1>1, GCAssumption DEF Slots
  <2>2. t \in R /\ Grown(s, t) /\ Todo(t, {x \in W : x > HEAP_SLOTS})
    BY <1>7, GCAssumption
  <2>. HIDE DEF t
  <2>. QED BY <2>1, <2>2, Zenon DEF R, MarkInv
<1>9. ~t.during_incremental_marking /\ Len(t.mark_stack) <= Cardinality(t.mark_bits)
  <2>1. ~t.during_incremental_marking /\ Len(t.mark_stack) + Cardinality(s.mark_bits)
                                            <= Len(s.mark_stack) + Cardinality(t.mark_bits)
    BY <1>8, Zenon DEF Grown, Advanced
  <2>2. /\ Len(t.mark_stack) \in Nat /\ Cardinality(t.mark_bits) \in Nat
        /\ Len(s.mark_stack) = 0 /\ Cardinality(s.mark_bits) \in Nat
    BY <1>1, <1>8, Parts, SlotsCounted
  <2>. QED BY <2>1, <2>2
<1>. HIDE DEF t
<1>10. MarkInv(u, K, {}, {}) /\ Grown(t, u) /\ u.mark_stack = <<>>
  BY <1>8, <1>9, DrainEmpties, Zenon
<1>11. Grown(s, u)
  BY <1>1, <1>8, <1>10, GrownOn, Zenon DEF MarkInv, Sound
<1>. QED BY <1>5, <1>10, <1>11, Zenon DEF t

\* What rgengc_rememberset_mark scans.
Bits(s) == s.marking_bits \cup (s.long_lived_bits \cap s.wb_unprotected_bits)

\* rgengc_rememberset_mark scans what is remembered.
LEMMA RememberedScanned ==
  ASSUME NEW K, NEW s, Heap(K), MarkInv(s, K, Bits(s), {}),
         ~s.during_incremental_marking, ref \in [Slots -> Slots \cup {0}]
  PROVE  LET t == rgengc_rememberset_mark(s)
         IN MarkInv(t, K, {}, {}) /\ Advanced(s, t)
<1>. DEFINE R == {r \in Space : Sound(r, K) /\ Stacked(r, {}) /\ ~r.during_incremental_marking}
            Turn(r, o) ==
              LET bits == r.marking_bits \cup (r.long_lived_bits \cap r.wb_unprotected_bits)
                  cleared == [r EXCEPT !.marking_bits = @ \ {o}]
              IN IF o \in bits THEN gc_mark_children(cleared, o) ELSE r
            step == [p \in R \X Slots |-> Turn(p[1], p[2])]
            Fits(h) == h = [i \in 0 .. HEAP_SLOTS |-> IF i = 0 THEN s ELSE Turn(h[i - 1], i)]
            g == CHOOSE h : Fits(h)
            Rest(r, i) == {x \in Bits(r) : x > i}
            P == [i \in 0 .. HEAP_SLOTS |-> {r \in R : Advanced(s, r) /\ Todo(r, Rest(r, i))}]
<1>1. s \in R /\ s \in Space
  BY Zenon DEF MarkInv, Sound
<1>2. ASSUME NEW r \in R, NEW o \in Slots
      PROVE  /\ Turn(r, o) \in R /\ Advanced(r, Turn(r, o))
             /\ Todo(r, Rest(r, o - 1)) => Todo(Turn(r, o), Rest(Turn(r, o), o))
  <2>1. CASE o \in Bits(r)
    <3>. DEFINE c == [r EXCEPT !.marking_bits = r.marking_bits \ {o}]
                t == gc_mark_children(c, o)
    <3>1. Turn(r, o) = t
      BY <2>1, Zenon DEF Bits
    <3>2. /\ r.marking_bits \in SUBSET Slots /\ r.mark_bits \in SUBSET Slots
          /\ r.long_lived_bits \in SUBSET Slots /\ o \in r.mark_bits
      BY <2>1, Parts, Zenon DEF Bits, Sound, Coherent
    <3>3. Is(c, r, r.mark_bits, r.marking_bits \ {o}, r.long_lived_bits, r.age, r.mark_stack, r.old_objects)
      BY <3>2, MarkingIs, Zenon
    <3>. HIDE DEF c
    <3>4. Sound(c, K) /\ Stacked(c, {}) /\ o \in c.mark_bits
      <4>1. Sound(c, K)
        BY <3>3, StillSound, Zenon
      <4>. QED BY <3>2, <3>3, <4>1, Zenon DEF Stacked, Is
    <3>5. \A X : Todo(r, X \cup {o}) => Todo(c, X \cup {o})
      <4>1. \A x \in Slots : RVALUE_OLD_P(c, x) <=> RVALUE_OLD_P(r, x)
        BY <3>3, Zenon DEF Is, RVALUE_OLD_P
      <4>2. \A x \in r.mark_bits : Scanned(r, x) => Scanned(c, x)
        BY <3>3, Zenon DEF Is, Scanned
      <4>3. \A x \in r.mark_bits : NoYoung(r, x) => NoYoung(c, x)
        BY <3>2, <3>3, <4>1, Zenon DEF Is, NoYoung
      <4>4. \A x \in r.mark_bits \ {o} : Recorded(r, x) => Recorded(c, x)
        BY <3>3, <4>3, Zenon DEF Is, Recorded
      <4>. QED BY <3>3, <4>2, <4>4, Zenon DEF Todo, Is
    <3>6. Todo(c, Slots \cup {o})
      BY <3>2, <3>3, Zenon DEF Todo, Is
    <3>7. Sound(t, K) /\ Stacked(t, {}) /\ Grown(c, t)
      BY <3>4, <3>6, ScanKeeps, Zenon
    <3>8. ASSUME Todo(r, Rest(r, o - 1)) PROVE Todo(t, Rest(t, o))
      <4>1. Rest(r, o - 1) = Rest(r, o) \cup {o}
        <5>1. \A x \in Slots : x > o - 1 <=> x > o \/ x = o
          BY DEF Slots
        <5>2. Bits(r) \subseteq Slots
          BY <3>2, Zenon DEF Bits
        <5>. QED BY <2>1, <5>1, <5>2, Zenon
      <4>2. Todo(c, Rest(r, o) \cup {o})
        BY <3>5, <3>8, <4>1, Zenon
      <4>3. Todo(t, Rest(r, o))
        BY <3>4, <4>2, ScanKeeps, Zenon
      <4>4. Rest(r, o) \subseteq Rest(t, o)
        <5>1. Bits(r) \ {o} \subseteq Bits(t)
          BY <3>3, <3>7, Zenon DEF Is, Grown, Advanced, Bits
        <5>2. ~(o > o)
          BY DEF Slots
        <5>. QED BY <5>1, <5>2, Zenon
      <4>. QED BY <4>3, <4>4, Zenon DEF Todo
    <3>. HIDE DEF t, Turn, Rest
    <3>9. Advanced(r, t)
      BY <3>3, <3>7 DEF Is, Grown, Advanced
    <3>10. t \in R
      BY <3>7, <3>9, Zenon DEF Sound, Advanced
    <3>. QED BY <3>1, <3>8, <3>9, <3>10, Zenon
  <2>2. CASE o \notin Bits(r)
    <3>1. Turn(r, o) = r
      BY <2>2, Zenon DEF Bits
    <3>2. Rest(r, o - 1) = Rest(r, o)
      <4>1. \A x \in Slots : x > o - 1 <=> x > o \/ x = o
        BY DEF Slots
      <4>2. Bits(r) \subseteq Slots
        BY Parts, Zenon DEF Bits
      <4>. QED BY <2>2, <4>1, <4>2, Zenon
    <3>3. Advanced(r, r)
      BY GrownSelf, Zenon DEF Grown
    <3>. QED BY <3>1, <3>2, <3>3, Zenon
  <2>. QED BY <2>1, <2>2, Zenon
<1>3. \E h : Fits(h)
  <2>. HIDE DEF R, Turn
  <2>1. step \in [R \X Slots -> R]
    BY <1>2, Zenon
  <2>2. \A r \in R, o \in Slots : step[<<r, o>>] = Turn(r, o)
    BY Zenon
  <2>. HIDE DEF step
  <2>3. PICK h : Runs(h, R, s, step)
    BY <1>1, <2>1, LoopRuns, Zenon
  <2>4. \A i \in 0 .. HEAP_SLOTS : i # 0 => i \in Slots /\ h[i - 1] \in R
    BY <2>3, GCAssumption DEF Slots, Runs
  <2>5. Fits(h)
    BY <2>2, <2>3, <2>4, Zenon DEF Runs
  <2>. QED BY <2>5, Zenon
<1>4. Fits(g)
  <2>. HIDE DEF Fits
  <2>. QED BY <1>3, Zenon
<1>5. rgengc_rememberset_mark(s) = g[HEAP_SLOTS]
  BY Zenon DEF rgengc_rememberset_mark, ForPages
<1>. HIDE DEF g, R, Turn, Rest
<1>6. g[0] = s /\ \A i \in Slots : g[i] = Turn(g[i - 1], i) /\ i \in 0 .. HEAP_SLOTS /\ i - 1 \in 0 .. HEAP_SLOTS
  BY <1>4, GCAssumption DEF Slots
<1>7. g[HEAP_SLOTS] \in P[HEAP_SLOTS]
  <2>1. g[0] \in P[0]
    <3>1. Rest(s, 0) = Bits(s)
      BY <1>1, Parts DEF Slots, Rest, Bits
    <3>2. Advanced(s, s)
      BY <1>1, GrownSelf, Zenon DEF Grown
    <3>. QED BY <1>1, <1>6, <3>1, <3>2, GCAssumption DEF MarkInv
  <2>2. ASSUME NEW i \in Slots, g[i - 1] \in P[i - 1] PROVE g[i] \in P[i]
    <3>1. g[i - 1] \in R /\ Advanced(s, g[i - 1]) /\ Todo(g[i - 1], Rest(g[i - 1], i - 1))
      BY <1>6, <2>2, Zenon
    <3>2. g[i] \in R /\ Advanced(g[i - 1], g[i]) /\ Todo(g[i], Rest(g[i], i))
      BY <1>2, <1>6, <3>1, Zenon
    <3>3. Advanced(s, g[i])
      BY <1>1, <3>1, <3>2, AdvancedOn, Zenon DEF R
    <3>. QED BY <1>6, <3>2, <3>3, Zenon
  <2>. HIDE DEF P
  <2>. QED BY <2>1, <2>2, LoopKeeps, Zenon
<1>8. Rest(g[HEAP_SLOTS], HEAP_SLOTS) = {}
  <2>1. g[HEAP_SLOTS] \in Space
    BY <1>7, GCAssumption DEF R
  <2>2. Bits(g[HEAP_SLOTS]) \subseteq Slots
    BY <2>1, Parts, Zenon DEF Bits
  <2>. QED BY <2>2, GCAssumption DEF Slots, Rest
<1>. QED BY <1>5, <1>7, <1>8, GCAssumption DEF R, MarkInv

-----------------------------------------------------------------------------
\* What the mutator can still get at is the least set that it does not leave.
LEMMA ReachableLeast ==
  ASSUME ref \in [Slots -> Slots \cup {0}], roots \subseteq Slots
  PROVE  Heap(Reachable) /\ \A K : Heap(K) => Reachable \subseteq K
<1>. DEFINE s == roots
            R == SUBSET Slots
            Turn(r, i) == r \cup ({ref[o] : o \in r} \ {0})
            step == [p \in R \X Slots |-> Turn(p[1], p[2])]
            Fits(h) == h = [i \in 0 .. HEAP_SLOTS |-> IF i = 0 THEN s ELSE Turn(h[i - 1], i)]
            g == CHOOSE h : Fits(h)
            P == [i \in 0 .. HEAP_SLOTS |->
                    {r \in R : roots \subseteq r /\ (Heap(r) \/ Cardinality(r) >= i)}]
<1>1. s \in R
  BY Zenon
<1>2. ASSUME NEW r \in R, NEW o \in Slots PROVE Turn(r, o) \in R
  BY Zenon
<1>3. \E h : Fits(h)
  <2>. HIDE DEF R, Turn
  <2>1. step \in [R \X Slots -> R]
    BY <1>2, Zenon
  <2>2. \A r \in R, o \in Slots : step[<<r, o>>] = Turn(r, o)
    BY Zenon
  <2>. HIDE DEF step
  <2>3. PICK h : Runs(h, R, s, step)
    BY <1>1, <2>1, LoopRuns, Zenon
  <2>4. \A i \in 0 .. HEAP_SLOTS : i # 0 => i \in Slots /\ h[i - 1] \in R
    BY <2>3, GCAssumption DEF Slots, Runs
  <2>5. Fits(h)
    BY <2>2, <2>3, <2>4, Zenon DEF Runs
  <2>. QED BY <2>5, Zenon
<1>4. Fits(g)
  <2>. HIDE DEF Fits
  <2>. QED BY <1>3, Zenon
<1>5. Reachable = g[HEAP_SLOTS]
  BY Zenon DEF Reachable, ForPages
<1>. HIDE DEF g, Turn
<1>6. g[0] = s /\ \A i \in Slots : g[i] = Turn(g[i - 1], i) /\ i \in 0 .. HEAP_SLOTS /\ i - 1 \in 0 .. HEAP_SLOTS
  BY <1>4, GCAssumption DEF Slots
<1>7. g[HEAP_SLOTS] \in P[HEAP_SLOTS]
  <2>1. g[0] \in P[0]
    BY <1>1, <1>6, SlotsCounted, GCAssumption
  <2>2. ASSUME NEW i \in Slots, g[i - 1] \in P[i - 1] PROVE g[i] \in P[i]
    <3>. DEFINE a == g[i - 1]
                b == g[i]
    <3>1. a \in R /\ roots \subseteq a /\ (Heap(a) \/ Cardinality(a) >= i - 1)
      BY <1>6, <2>2, Zenon
    <3>2. b = a \cup ({ref[o] : o \in a} \ {0}) /\ b \in R
      BY <1>2, <1>6, <3>1, Zenon DEF Turn
    <3>. HIDE DEF a, b
    <3>3. Heap(a) => b = a
      BY <3>1, <3>2, Zenon DEF Heap
    <3>4. ~Heap(a) => Cardinality(b) >= i
      <4>. SUFFICES ASSUME ~Heap(a) PROVE Cardinality(b) >= i
        BY Zenon
      <4>1. PICK o \in a : ref[o] # 0 /\ ref[o] \notin a
        BY <3>1, Zenon DEF Heap
      <4>2. a \cup {ref[o]} \subseteq b /\ ref[o] \in Slots
        BY <3>1, <3>2, <4>1, Zenon
      <4>3. /\ IsFiniteSet(a) /\ IsFiniteSet(b) /\ Cardinality(a) \in Nat /\ Cardinality(b) \in Nat
        BY <3>1, <3>2, SlotsCounted
      <4>4. Cardinality(a \cup {ref[o]}) = Cardinality(a) + 1
        BY <4>1, <4>3, FS_AddElement, Zenon
      <4>5. Cardinality(a \cup {ref[o]}) <= Cardinality(b)
        BY <4>2, <4>3, FS_Subset, Zenon
      <4>. QED BY <3>1, <4>3, <4>4, <4>5 DEF Slots
    <3>5. b \in R /\ roots \subseteq b /\ (Heap(b) \/ Cardinality(b) >= i)
      BY <3>1, <3>2, <3>3, <3>4, Zenon
    <3>. QED BY <1>6, <3>5, Zenon DEF b
  <2>. HIDE DEF P
  <2>. QED BY <2>1, <2>2, LoopKeeps, Zenon
<1>8. Heap(g[HEAP_SLOTS])
  <2>. DEFINE t == g[HEAP_SLOTS]
  <2>1. t \in R /\ roots \subseteq t /\ (Heap(t) \/ Cardinality(t) >= HEAP_SLOTS)
    BY <1>7, GCAssumption
  <2>. HIDE DEF t
  <2>2. Cardinality(t) >= HEAP_SLOTS => t = Slots
    BY <2>1, SlotsCounted, GCAssumption
  <2>3. Heap(Slots)
    BY Zenon DEF Heap
  <2>4. Heap(t)
    BY <2>1, <2>2, <2>3, Zenon
  <2>. QED BY <2>4, Zenon DEF t
<1>9. ASSUME NEW K, Heap(K) PROVE g[HEAP_SLOTS] \subseteq K
  <2>. DEFINE Q == [i \in 0 .. HEAP_SLOTS |-> SUBSET K]
  <2>1. g[0] \in Q[0]
    BY <1>6, <1>9, GCAssumption DEF Heap
  <2>2. ASSUME NEW i \in Slots, g[i - 1] \in Q[i - 1] PROVE g[i] \in Q[i]
    <3>1. g[i - 1] \subseteq K /\ g[i] = Turn(g[i - 1], i)
      BY <1>6, <2>2, Zenon
    <3>2. g[i] \subseteq K
      BY <1>9, <3>1, Zenon DEF Heap, Turn
    <3>. QED BY <1>6, <3>2, Zenon
  <2>3. g[HEAP_SLOTS] \in Q[HEAP_SLOTS]
    <3>. HIDE DEF Q
    <3>. QED BY <2>1, <2>2, LoopKeeps, Zenon
  <2>. QED BY <2>3, GCAssumption
<1>. QED BY <1>5, <1>8, <1>9, Zenon

-----------------------------------------------------------------------------
\* The bits stay sound for a greater set.
LEMMA SoundMore ==
  ASSUME NEW s, NEW K, NEW J, Sound(s, K), s.mark_bits \subseteq J
  PROVE  Sound(s, J)
BY Zenon DEF Sound

\* The barrier of incremental marking marks what gc_mark_ptr would mark for the object
\* that is written.
LEMMA BarrierIs ==
  ASSUME NEW s \in Space, NEW a \in Slots, NEW b \in Slots, s.during_incremental_marking,
         Coherent(s, b)
  PROVE  rb_gc_writebarrier_incremental(s, a, b) =
           IF RVALUE_BLACK_P(s, a) /\ (b \in s.mark_bits \/ a \notin s.wb_unprotected_bits)
             THEN gc_mark_ptr(s, RVALUE_OLD_P(s, a), b) ELSE s
<1>. DEFINE old == RVALUE_OLD_P(s, a)
            r == rgengc_check_relation(s, old, b)
<1>1. CASE ~RVALUE_BLACK_P(s, a) \/ b \notin s.mark_bits
  BY <1>1, Zenon DEF rb_gc_writebarrier_incremental, RVALUE_WHITE_P
<1>2. CASE RVALUE_BLACK_P(s, a) /\ b \in s.mark_bits
  <2>1. RVALUE_OLD_P(s, b) => b \notin s.wb_unprotected_bits
    BY GCAssumption, Zenon DEF Coherent, RVALUE_OLD_P
  <2>2. RVALUE_BLACK_P(s, b) <=> b \notin s.marking_bits
    BY <1>2, Zenon DEF RVALUE_BLACK_P
  <2>3. rb_gc_writebarrier_incremental(s, a, b) = r
    BY <1>2, <2>1, <2>2, Zenon DEF rb_gc_writebarrier_incremental, RVALUE_WHITE_P, rgengc_check_relation
  <2>4. r.mark_bits = s.mark_bits
    <3>. HIDE DEF old
    <3>1. old \in BOOLEAN
      BY Zenon DEF old, RVALUE_OLD_P
    <3>2. CASE ~old \/ (b \notin s.wb_unprotected_bits /\ RVALUE_OLD_P(s, b))
      BY <3>2, Zenon DEF rgengc_check_relation
    <3>3. CASE old /\ b \in s.wb_unprotected_bits
      <4>1. Is(r, s, s.mark_bits, s.marking_bits, s.long_lived_bits \cup {b}, s.age,
               s.mark_stack, s.old_objects)
        BY <3>1, <3>3, CheckRelationIs, Zenon
      <4>. QED BY <4>1, Zenon DEF Is
    <3>4. CASE old /\ b \notin s.wb_unprotected_bits /\ ~RVALUE_OLD_P(s, b)
      <4>1. \E k : Is(r, s, s.mark_bits, s.marking_bits \cup {b}, s.long_lived_bits \cup {b},
                      [s.age EXCEPT ![b] = RVALUE_OLD_AGE], k, s.old_objects + 1)
        BY <1>2, <3>1, <3>4, CheckRelationIs, Zenon
      <4>. QED BY <4>1, Zenon DEF Is
    <3>. QED BY <3>2, <3>3, <3>4, Zenon
  <2>5. gc_mark_ptr(s, old, b) = r
    BY <1>2, <2>4, Zenon DEF gc_mark_ptr
  <2>. QED BY <1>2, <2>3, <2>5, Zenon
<1>. QED BY <1>1, <1>2, Zenon

\* RVALUE_DEMOTE makes an object young, and no longer counts it if it was marked.
LEMMA DemoteIs ==
  ASSUME NEW s \in Space, NEW o \in Slots, o \in s.mark_bits => s.old_objects # 0
  PROVE  Is(RVALUE_DEMOTE(s, o), s, s.mark_bits, s.marking_bits, s.long_lived_bits \ {o},
            [s.age EXCEPT ![o] = 0], s.mark_stack,
            IF o \in s.mark_bits THEN s.old_objects - 1 ELSE s.old_objects)
<1>. DEFINE a == [s.age EXCEPT ![o] = 0]
            l == s.long_lived_bits \ {o}
            n == IF o \in s.mark_bits THEN s.old_objects - 1 ELSE s.old_objects
            t == [s EXCEPT !.age = a, !.long_lived_bits = l, !.old_objects = n]
<1>1. a \in [Slots -> 0 .. RVALUE_OLD_AGE] /\ l \in SUBSET Slots /\ n \in Nat
  <2>1. 0 \in 0 .. RVALUE_OLD_AGE
    BY GCAssumption
  <2>. QED BY <2>1, Parts
<1>2. RVALUE_DEMOTE(s, o) = t
  BY Zenon DEF RVALUE_DEMOTE
<1>. HIDE DEF a, l, n
<1>3. t \in Space
  BY <1>1, Zenon DEF Space
<1>4. Is(t, s, s.mark_bits, s.marking_bits, l, a, s.mark_stack, n)
  BY <1>3, Zenon DEF Is, Space
<1>. HIDE DEF t
<1>. QED BY <1>2, <1>4, Zenon DEF a, l, n

\* invalidate_mark_stack takes the object, and nothing else, out of the mark stack.
LEMMA Invalidated ==
  ASSUME NEW k \in Seq(Slots), NEW o \in Slots
  PROVE  LET f == invalidate_mark_stack(k, o)
         IN /\ f \in Seq(Slots)
            /\ IsInjective(k) => IsInjective(f) /\ Range(f) = Range(k) \ {o}
            /\ k = <<>> => f = <<>>
<1>. DEFINE f == invalidate_mark_stack(k, o)
            n == Len(k)
            i == CHOOSE j \in DOMAIN k : k[j] = o
            d == [j \in 1 .. n - 1 |-> k[IF j < i THEN j ELSE j + 1]]
<1>1. n \in Nat /\ DOMAIN k = 1 .. n /\ \A j \in 1 .. n : k[j] \in Slots
  OBVIOUS
<1>2. CASE o \notin Range(k)
  <2>1. f = k
    BY <1>2, Zenon DEF invalidate_mark_stack
  <2>. QED BY <1>2, <2>1, Zenon
<1>3. CASE o \in Range(k)
  <2>1. f = d
    BY <1>3, Zenon DEF invalidate_mark_stack
  <2>2. i \in 1 .. n /\ k[i] = o
    BY <1>1, <1>3, Zenon DEF Range
  <2>. HIDE DEF i, n, f
  <2>3. \A j \in 1 .. n - 1 : (IF j < i THEN j ELSE j + 1) \in 1 .. n
    BY <1>1, <2>2
  <2>4. n - 1 \in Nat /\ \A j \in 1 .. n - 1 : d[j] \in Slots
    BY <1>1, <2>2, <2>3
  <2>5. d \in Seq(Slots)
    <3>. HIDE DEF d
    <3>1. d \in [1 .. n - 1 -> Slots]
      BY <2>4, Zenon DEF d
    <3>. QED BY <2>4, <3>1, SeqDef
  <2>6. ASSUME IsInjective(k) PROVE IsInjective(d) /\ Range(d) = Range(k) \ {o}
    <3>1. \A p, q \in 1 .. n : k[p] = k[q] => p = q
      BY <1>1, <2>6, Zenon DEF IsInjective
    <3>2. DOMAIN d = 1 .. n - 1
      BY Zenon
    <3>3. IsInjective(d)
      <4>. SUFFICES ASSUME NEW p \in 1 .. n - 1, NEW q \in 1 .. n - 1, d[p] = d[q] PROVE p = q
        BY <3>2, Zenon DEF IsInjective
      <4>1. (IF p < i THEN p ELSE p + 1) = (IF q < i THEN q ELSE q + 1)
        BY <2>3, <3>1, Zenon
      <4>. QED BY <1>1, <2>2, <4>1
    <3>4. Range(d) \subseteq Range(k) \ {o}
      <4>. SUFFICES ASSUME NEW p \in 1 .. n - 1 PROVE d[p] \in Range(k) /\ d[p] # o
        BY <3>2, Zenon DEF Range
      <4>1. (IF p < i THEN p ELSE p + 1) # i
        BY <1>1, <2>2
      <4>. QED BY <1>1, <2>2, <2>3, <3>1, <4>1, Zenon DEF Range
    <3>5. Range(k) \ {o} \subseteq Range(d)
      <4>. SUFFICES ASSUME NEW q \in 1 .. n, k[q] # o PROVE k[q] \in Range(d)
        BY <1>1, Zenon DEF Range
      <4>1. q # i
        BY <2>2, Zenon
      <4>2. CASE q < i
        <5>1. q \in 1 .. n - 1 /\ d[q] = k[q]
          BY <1>1, <2>2, <4>2
        <5>. QED BY <3>2, <5>1, Zenon DEF Range
      <4>3. CASE q > i
        <5>1. q - 1 \in 1 .. n - 1 /\ ~(q - 1 < i) /\ q - 1 + 1 = q
          BY <1>1, <2>2, <4>3
        <5>2. d[q - 1] = k[q]
          BY <5>1, Zenon
        <5>. QED BY <3>2, <5>1, <5>2, Zenon DEF Range
      <4>. QED BY <1>1, <2>2, <4>1, <4>2, <4>3
    <3>. QED BY <3>3, <3>4, <3>5, Zenon
  <2>7. k # <<>>
    BY <1>1, <2>2
  <2>. HIDE DEF d
  <2>. QED BY <2>1, <2>5, <2>6, <2>7, Zenon DEF f
<1>. QED BY <1>2, <1>3, Zenon

\* The mark stack is never longer than what has been marked.
LEMMA StackShort ==
  ASSUME NEW s \in Space, NEW t \in Space, Advanced(s, t), ~s.during_incremental_marking,
         Len(s.mark_stack) <= Cardinality(s.mark_bits)
  PROVE  Len(t.mark_stack) <= Cardinality(t.mark_bits)
<1>1. /\ Cardinality(s.mark_bits) \in Nat /\ Len(s.mark_stack) \in Nat
      /\ Cardinality(t.mark_bits) \in Nat /\ Len(t.mark_stack) \in Nat
  BY Parts, SlotsCounted
<1>2. Len(t.mark_stack) + Cardinality(s.mark_bits) <= Len(s.mark_stack) + Cardinality(t.mark_bits)
  BY Zenon DEF Advanced
<1>. QED BY <1>1, <1>2
=============================================================================
