-------------------------------- MODULE GC --------------------------------
(***************************************************************************)
(* The generational, incremental, lazily sweeping collector of             *)
(* ruby/gc.c and its write barriers.                                       *)
(*                                                                         *)
(* A slot is its place in the list of heap pages: every page has one slot. *)
(* A slot holds one reference, or 0.  `objspace' holds the page bitmaps as *)
(* sets of slots, the mark stack and the fields of rb_objspace_t that      *)
(* steer the collection; the functions of gc.c are operators from one      *)
(* objspace to the next.  A collection that does not stop for the mutator  *)
(* is one step.  The page flags that tell which bitmaps are empty, and how *)
(* many slots a step marks or a page has, are left out.                    *)
(***************************************************************************)
EXTENDS Naturals, FiniteSets, Sequences, Functions

CONSTANTS
  HEAP_SLOTS,      \* bound: slots of the heap
  RVALUE_OLD_AGE,  \* 3 in the code
  MaxUnprotected   \* bound: objects without write barrier at a time

ASSUME GCAssumption == HEAP_SLOTS \in Nat \ {0} /\ RVALUE_OLD_AGE \in Nat \ {0} /\ MaxUnprotected \in Nat

VARIABLES
  ref,             \* the reference a slot holds
  live,            \* slots that are not T_NONE
  roots,           \* what the machine stack refers to
  objspace,
  stat,            \* gc_stat_none, gc_stat_marking, gc_stat_sweeping
  sweep_pages,     \* pages the lazy sweep has yet to reach
  doomed           \* history: garbage when the last full mark started

vars == <<ref, live, roots, objspace, stat, sweep_pages, doomed>>

Slots == 1 .. HEAP_SLOTS

\* A loop over the heap pages.
ForPages(Step(_, _), s) ==
  LET after[i \in 0 .. HEAP_SLOTS] == IF i = 0 THEN s ELSE Step(after[i - 1], i)
  IN after[HEAP_SLOTS]

TypeOK ==
  /\ ref \in [Slots -> Slots \cup {0}]
  /\ live \subseteq Slots /\ roots \subseteq live
  /\ objspace \in
       [mark_bits: SUBSET Slots, marking_bits: SUBSET Slots,
        long_lived_bits: SUBSET Slots, wb_unprotected_bits: SUBSET Slots,
        age: [Slots -> 0 .. RVALUE_OLD_AGE], mark_stack: Seq(Slots),
        old_objects: 0 .. HEAP_SLOTS,
        during_minor_gc: BOOLEAN, during_incremental_marking: BOOLEAN]
  /\ stat \in {"none", "marking", "sweeping"}
  /\ sweep_pages \subseteq Slots /\ doomed \subseteq Slots

Init ==
  /\ ref = [o \in Slots |-> 0]
  /\ live = {} /\ roots = {}
  /\ objspace =
       [mark_bits |-> {}, marking_bits |-> {}, long_lived_bits |-> {},
        wb_unprotected_bits |-> {}, age |-> [o \in Slots |-> 0], mark_stack |-> <<>>,
        old_objects |-> 0,
        during_minor_gc |-> FALSE, during_incremental_marking |-> FALSE]
  /\ stat = "none" /\ sweep_pages = {} /\ doomed = {}

-----------------------------------------------------------------------------
\* Bits of an object in the objspace s
RVALUE_OLD_P(s, o) == s.age[o] = RVALUE_OLD_AGE
RVALUE_BLACK_P(s, o) == o \in s.mark_bits \ s.marking_bits
RVALUE_WHITE_P(s, o) == o \notin s.mark_bits

RVALUE_PROMOTE_RAW(s, o) ==
  [s EXCEPT !.long_lived_bits = @ \cup {o}, !.old_objects = @ + 1]

RVALUE_AGE_SET_OLD(s, o) ==
  RVALUE_PROMOTE_RAW([s EXCEPT !.age[o] = RVALUE_OLD_AGE], o)

\* Mutant: an object that is not marked yet is taken off the count, too.
DemoteAlways(s, o) ==
  [s EXCEPT !.age[o] = 0, !.long_lived_bits = @ \ {o}, !.old_objects = @ - 1]

RVALUE_DEMOTE(s, o) ==
  [s EXCEPT !.age[o] = 0, !.long_lived_bits = @ \ {o},
            !.old_objects = IF o \in s.mark_bits THEN @ - 1 ELSE @]

gc_remember_unprotected(s, o) == [s EXCEPT !.long_lived_bits = @ \cup {o}]

rgengc_remember(s, o) == [s EXCEPT !.marking_bits = @ \cup {o}]

gc_grey(s, o) ==
  [s EXCEPT !.marking_bits =
              IF s.during_incremental_marking THEN @ \cup {o} ELSE @,
            !.mark_stack = Append(@, o)]

\* Mutant: an object that an old object refers to and that is already marked is
\* left young.
CheckRelationYoung(s, parentOld, o) ==
  IF ~parentOld \/ (o \notin s.wb_unprotected_bits /\ RVALUE_OLD_P(s, o)) THEN s
  ELSE IF o \in s.wb_unprotected_bits THEN gc_remember_unprotected(s, o)
  ELSE IF RVALUE_WHITE_P(s, o) THEN [s EXCEPT !.age[o] = RVALUE_OLD_AGE - 1]
  ELSE s

rgengc_check_relation(s, parentOld, o) ==
  IF ~parentOld \/ (o \notin s.wb_unprotected_bits /\ RVALUE_OLD_P(s, o)) THEN s
  ELSE IF o \in s.wb_unprotected_bits THEN gc_remember_unprotected(s, o)
  ELSE IF RVALUE_WHITE_P(s, o) THEN [s EXCEPT !.age[o] = RVALUE_OLD_AGE - 1]
  ELSE IF ~s.during_incremental_marking
    THEN rgengc_remember(RVALUE_AGE_SET_OLD(s, o), o)
  ELSE IF o \in s.marking_bits THEN RVALUE_AGE_SET_OLD(s, o)
  ELSE gc_grey(RVALUE_AGE_SET_OLD(s, o), o)

\* Mutant: an old object that a full mark reaches again is not listed again.
AgingOnce(s, o) ==
  IF o \in s.wb_unprotected_bits \/ RVALUE_OLD_P(s, o) THEN s
  ELSE IF s.age[o] + 1 = RVALUE_OLD_AGE THEN RVALUE_AGE_SET_OLD(s, o)
  ELSE [s EXCEPT !.age[o] = @ + 1]

gc_aging(s, o) ==
  IF o \in s.wb_unprotected_bits THEN s
  ELSE IF ~RVALUE_OLD_P(s, o)
    THEN IF s.age[o] + 1 = RVALUE_OLD_AGE THEN RVALUE_AGE_SET_OLD(s, o)
         ELSE [s EXCEPT !.age[o] = @ + 1]
  ELSE IF s.during_minor_gc THEN s
  ELSE RVALUE_PROMOTE_RAW(s, o)

\* gc_mark_ptr, and gc_mark_from in the write barrier.
gc_mark_ptr(s, parentOld, o) ==
  LET r == rgengc_check_relation(s, parentOld, o)
  IN IF o \in r.mark_bits THEN r
     ELSE gc_grey(gc_aging([r EXCEPT !.mark_bits = @ \cup {o}], o), o)

gc_mark_children(s, o) ==
  IF ref[o] = 0 THEN s ELSE gc_mark_ptr(s, RVALUE_OLD_P(s, o), ref[o])

gc_mark_roots(s) ==
  ForPages(LAMBDA r, o : IF o \in roots THEN gc_mark_ptr(r, FALSE, o) ELSE r, s)

\* One turn of the loop of gc_mark_stacked_objects.
gc_mark_stacked_object(s) ==
  LET o == s.mark_stack[Len(s.mark_stack)]
      r == gc_mark_children([s EXCEPT !.mark_stack = SubSeq(@, 1, Len(@) - 1)], o)
  IN IF s.during_incremental_marking
       THEN [r EXCEPT !.marking_bits = @ \ {o}] ELSE r

\* Outside incremental marking an object is pushed once, so one turn per page does.
gc_mark_stacked_objects_all(s) ==
  ForPages(LAMBDA r, i : IF r.mark_stack = <<>> THEN r ELSE gc_mark_stacked_object(r), s)

gc_marks_wb_unprotected_objects(s) ==
  gc_mark_stacked_objects_all(
    ForPages(LAMBDA r, o : IF o \in r.mark_bits \cap r.wb_unprotected_bits
                             THEN gc_mark_children(r, o) ELSE r, s))

rgengc_rememberset_mark(s) ==
  ForPages(LAMBDA r, o :
             LET bits == r.marking_bits \cup (r.long_lived_bits \cap r.wb_unprotected_bits)
                 cleared == [r EXCEPT !.marking_bits = @ \ {o}]
             IN IF o \in bits THEN gc_mark_children(cleared, o) ELSE r, s)

\* Mutant: the mark bits stay.
RemembersetClear(s) == [s EXCEPT !.marking_bits = {}, !.long_lived_bits = {}]

rgengc_mark_and_rememberset_clear(s) ==
  [s EXCEPT !.mark_bits = {}, !.marking_bits = {}, !.long_lived_bits = {}]

-----------------------------------------------------------------------------
\* What the mutator can still get at.
Reachable ==
  ForPages(LAMBDA r, i : r \cup ({ref[o] : o \in r} \ {0}), roots)

\* gc_start and gc_marks; without incremental marking also gc_marks_rest and the
\* start of gc_sweep.  `full' is the decision after stress mode and need_major_gc;
\* the early returns (no heap yet, GC disabled, a full mark refused to a parallel
\* task) change nothing.
gc_start(full, immediate) ==
  LET flags == [objspace EXCEPT !.during_minor_gc = ~full,
                                !.during_incremental_marking = full /\ ~immediate]
      started == gc_mark_roots(
                   IF full THEN [rgengc_mark_and_rememberset_clear(flags) EXCEPT !.old_objects = 0]
                   ELSE rgengc_rememberset_mark(flags))
  IN /\ stat = "none"
     /\ doomed' = IF full THEN live \ Reachable ELSE {}
     /\ IF full /\ ~immediate
          THEN objspace' = started /\ stat' = "marking" /\ UNCHANGED sweep_pages
          ELSE /\ objspace' = gc_mark_stacked_objects_all(started)
               /\ stat' = "sweeping" /\ sweep_pages' = Slots
     /\ UNCHANGED <<ref, live, roots>>

\* Mutant: the roots are not marked again.
MarksFinishOnce(s) ==
  /\ objspace' = gc_marks_wb_unprotected_objects([s EXCEPT !.during_incremental_marking = FALSE])
  /\ stat' = "sweeping" /\ sweep_pages' = Slots

\* gc_marks_finish and the start of gc_sweep.
gc_marks_finish(s) ==
  LET r == gc_mark_roots(s)
  IN IF r.mark_stack # <<>>
       THEN objspace' = r /\ UNCHANGED <<stat, sweep_pages>>
       ELSE /\ objspace' = gc_marks_wb_unprotected_objects(
                             [r EXCEPT !.during_incremental_marking = FALSE])
            /\ stat' = "sweeping" /\ sweep_pages' = Slots

\* gc_marks_step with one slot; `pooled' when there are pooled pages left.
gc_marks_step(pooled) ==
  LET s == IF objspace.mark_stack = <<>> THEN objspace
           ELSE gc_mark_stacked_object(objspace)
  IN /\ stat = "marking"
     /\ IF s.mark_stack # <<>> \/ pooled
          THEN objspace' = s /\ UNCHANGED <<stat, sweep_pages>>
          ELSE gc_marks_finish(s)
     /\ UNCHANGED <<ref, live, roots, doomed>>

\* gc_page_sweep of the next page, obj_free and, after the last page, gc_sweep_finish.
gc_page_sweep ==
  /\ stat = "sweeping"
  /\ LET o == CHOOSE p \in sweep_pages : \A q \in sweep_pages : p <= q
         freed == live \cap ({o} \ objspace.mark_bits)
     IN /\ live' = live \ freed /\ doomed' = doomed \ freed
        /\ ref' = [p \in Slots |-> IF p \in freed THEN 0 ELSE ref[p]]
        /\ objspace' =
             [objspace EXCEPT
                !.mark_bits = (@ \ {o}) \cup (objspace.long_lived_bits \cap {o}),
                !.wb_unprotected_bits = @ \ freed,
                !.age = [p \in Slots |-> IF p \in freed THEN 0 ELSE @[p]]]
        /\ sweep_pages' = sweep_pages \ {o}
        /\ stat' = IF sweep_pages = {o} THEN "none" ELSE stat
  /\ UNCHANGED roots

-----------------------------------------------------------------------------
\* newobj_of takes a free slot from a page that is not waiting to be swept.
newobj_of(o, wb_protected) ==
  /\ o \notin live \cup sweep_pages
  /\ wb_protected \/ Cardinality(objspace.wb_unprotected_bits) < MaxUnprotected
  /\ live' = live \cup {o} /\ roots' = roots \cup {o}
  /\ objspace' = IF wb_protected THEN objspace
                 ELSE [objspace EXCEPT !.wb_unprotected_bits = @ \cup {o}]
  /\ UNCHANGED <<ref, stat, sweep_pages, doomed>>

\* Mutant: a black object gets a white reference without a barrier.
WritebarrierIncrementalGen(s, a, b) ==
  IF RVALUE_BLACK_P(s, a) /\ ~RVALUE_WHITE_P(s, b) /\ RVALUE_OLD_P(s, a)
       /\ ~RVALUE_OLD_P(s, b) /\ b \notin s.wb_unprotected_bits
    THEN RVALUE_AGE_SET_OLD(s, b) ELSE s

rb_gc_writebarrier_incremental(s, a, b) ==
  IF ~RVALUE_BLACK_P(s, a) THEN s
  ELSE IF RVALUE_WHITE_P(s, b)
    THEN IF a \in s.wb_unprotected_bits THEN s
         ELSE gc_mark_ptr(s, RVALUE_OLD_P(s, a), b)
  ELSE IF ~RVALUE_OLD_P(s, a) \/ RVALUE_OLD_P(s, b) THEN s
  ELSE IF b \in s.wb_unprotected_bits THEN gc_remember_unprotected(s, b)
  ELSE IF RVALUE_BLACK_P(s, b) THEN gc_grey(RVALUE_AGE_SET_OLD(s, b), b)
  ELSE RVALUE_AGE_SET_OLD(s, b)

\* rb_obj_written and rb_gc_writebarrier_generational
rb_obj_written(s, a, b) ==
  IF s.during_incremental_marking THEN rb_gc_writebarrier_incremental(s, a, b)
  ELSE IF RVALUE_OLD_P(s, a) /\ ~RVALUE_OLD_P(s, b) THEN rgengc_remember(s, a)
  ELSE s

rb_obj_write(a, b) ==
  /\ {a, b} \subseteq roots
  /\ ref' = [ref EXCEPT ![a] = b]
  /\ objspace' = rb_obj_written(objspace, a, b)
  /\ UNCHANGED <<live, roots, stat, sweep_pages, doomed>>

\* References copied into an array with memcpy, which this call follows.
rb_gc_writebarrier_remember(a, b) ==
  /\ {a, b} \subseteq roots
  /\ ref' = [ref EXCEPT ![a] = b]
  /\ objspace' =
       IF objspace.during_incremental_marking
         THEN IF RVALUE_BLACK_P(objspace, a) THEN gc_grey(objspace, a) ELSE objspace
         ELSE IF RVALUE_OLD_P(objspace, a) THEN rgengc_remember(objspace, a) ELSE objspace
  /\ UNCHANGED <<live, roots, stat, sweep_pages, doomed>>

rb_gc_writebarrier_unprotect(o) ==
  LET s == objspace
      r == IF RVALUE_OLD_P(s, o)
             THEN gc_remember_unprotected([RVALUE_DEMOTE(s, o) EXCEPT !.mark_bits = @ \cup {o}], o)
             ELSE [s EXCEPT !.age[o] = 0]
  IN /\ o \in roots \ s.wb_unprotected_bits
     /\ Cardinality(s.wb_unprotected_bits) < MaxUnprotected
     /\ objspace' = [r EXCEPT !.wb_unprotected_bits = @ \cup {o}]
     /\ UNCHANGED <<ref, live, roots, stat, sweep_pages, doomed>>

\* An entry that becomes Qundef, and is skipped when it is popped, is no entry.
invalidate_mark_stack(stack, o) ==
  IF o \notin Range(stack) THEN stack
  ELSE LET i == CHOOSE j \in DOMAIN stack : stack[j] = o
       IN [j \in 1 .. Len(stack) - 1 |-> stack[IF j < i THEN j ELSE j + 1]]

\* Its callers hold the only reference.
rb_gc_force_recycle(o) ==
  LET s == objspace
      cleared == s.during_incremental_marking \/ RVALUE_OLD_P(s, o) \/ o \notin sweep_pages
  IN /\ o \in roots /\ \A p \in live : ref[p] # o
     /\ live' = live \ {o} /\ roots' = roots \ {o}
     /\ ref' = [ref EXCEPT ![o] = 0]
     /\ objspace' =
          [s EXCEPT !.age[o] = 0,
                    !.old_objects = IF RVALUE_OLD_P(s, o) /\ o \in s.mark_bits THEN @ - 1 ELSE @,
                    !.long_lived_bits = @ \ {o}, !.wb_unprotected_bits = @ \ {o},
                    !.mark_stack = invalidate_mark_stack(@, o),
                    !.mark_bits = IF cleared THEN @ \ {o} ELSE @,
                    !.marking_bits = @ \ {o}]
     /\ UNCHANGED <<stat, sweep_pages, doomed>>

\* The mutator reads a reference, or forgets one.
Load(o) ==
  /\ o \in roots /\ ref[o] # 0
  /\ roots' = roots \cup {ref[o]}
  /\ UNCHANGED <<ref, live, objspace, stat, sweep_pages, doomed>>

Drop(o) ==
  /\ o \in roots
  /\ roots' = roots \ {o}
  /\ UNCHANGED <<ref, live, objspace, stat, sweep_pages, doomed>>

Erase(o) ==
  /\ o \in roots
  /\ ref' = [ref EXCEPT ![o] = 0]
  /\ UNCHANGED <<live, roots, objspace, stat, sweep_pages, doomed>>

Next ==
  \/ \E full, immediate \in BOOLEAN : gc_start(full, immediate)
  \/ \E pooled \in BOOLEAN : gc_marks_step(pooled)
  \/ gc_page_sweep
  \/ \E o \in Slots :
       \/ \E wb_protected \in BOOLEAN : newobj_of(o, wb_protected)
       \/ rb_gc_writebarrier_unprotect(o)
       \/ rb_gc_force_recycle(o)
       \/ Load(o) \/ Drop(o) \/ Erase(o)
  \/ \E a, b \in Slots : rb_obj_write(a, b) \/ rb_gc_writebarrier_remember(a, b)

Spec == Init /\ [][Next]_vars

-----------------------------------------------------------------------------
Old == {o \in live : RVALUE_OLD_P(objspace, o)}
Remembered == objspace.marking_bits \cup (objspace.long_lived_bits \cap objspace.wb_unprotected_bits)

\* No object the mutator can reach is freed, whatever it wrote, unprotected or
\* allocated between the steps of a collection.
LiveKept == Reachable \subseteq live

\* check_color_i: in incremental marking a black, protected object refers to no white
\* object.
NoBlackToWhite ==
  objspace.during_incremental_marking =>
    \A o \in live \ objspace.wb_unprotected_bits :
      RVALUE_BLACK_P(objspace, o) /\ ref[o] # 0 => ~RVALUE_WHITE_P(objspace, ref[o])

\* check_generation_i: when no marking is on, an old object that refers to a young one
\* is remembered, or the young one is, so that a minor collection finds it.
OldToYoungRemembered ==
  stat # "marking" =>
    \A o \in Old \cap Reachable :
      ref[o] = 0 \/ ref[o] \in Old \/ {o, ref[o]} \cap Remembered # {}

\* check_rvalue_consistency: ages, long-lived bits, mark bits and the remember set
\* agree, and old_objects is the number of old objects.
BitsAgree ==
  /\ \A o \in objspace.wb_unprotected_bits : objspace.age[o] = 0
  /\ stat = "none" => objspace.long_lived_bits \subseteq objspace.mark_bits
  /\ objspace.long_lived_bits \subseteq live
  /\ stat # "marking" =>
       /\ objspace.marking_bits \subseteq objspace.long_lived_bits
       /\ objspace.long_lived_bits \subseteq Old \cup objspace.wb_unprotected_bits
       /\ objspace.old_objects = Cardinality(Old \cap objspace.long_lived_bits)
  /\ stat = "none" => Old \subseteq objspace.long_lived_bits

\* A full collection frees all that was garbage when it started.
GarbageFreed == stat = "none" => doomed = {}
=============================================================================
