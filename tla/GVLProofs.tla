----------------------------- MODULE GVLProofs -----------------------------
(***************************************************************************)
(* The safety properties of the GVL for every finite set of threads.       *)
(*                                                                         *)
(* They are inductive together once two facts are added: a thread sleeps   *)
(* only on the condition variable of the loop it is in, and a thread that  *)
(* is about to wake the timer thread has found the lock taken.             *)
(***************************************************************************)
EXTENDS GVL, FiniteSetTheorems, TLAPS

Waiters == {t \in Threads : Waiting(t)}

\* What concerns getting and releasing the lock.
Core ==
  /\ MutualExclusion /\ WaitingCount /\ NoLostWakeup /\ TimerAwake
  /\ \A t \in cond : pc[t] = "acquiring"
  /\ \A t \in Threads : pc[t] = "contending" => acquired

\* What concerns the hand-over from a yielding thread.
HandOver ==
  /\ YieldProtocol
  /\ \A t \in switch_cond : pc[t] = "yielding"
  /\ \A t \in switch_wait_cond : pc[t] = "queueing"

IInv == TypeOK /\ Core /\ HandOver

Places == {"outside", "contending", "acquiring", "entering", "running",
           "yielding", "queueing", "scheduling"}

-----------------------------------------------------------------------------
\* gvl.waiting is positive just when there is a waiter.
LEMMA WaitersCounted ==
  ASSUME TypeOK, WaitingCount
  PROVE  /\ IsFiniteSet(Waiters) /\ waiting = Cardinality(Waiters)
         /\ waiting > 0 <=> \E t \in Threads : Waiting(t)
<1>1. IsFiniteSet(Waiters)
  BY ThreadAssumption, FS_Subset DEF Waiters
<1>2. waiting = Cardinality(Waiters)
  BY DEF WaitingCount, Waiters
<1>3. waiting = 0 <=> Waiters = {}
  BY <1>1, <1>2, FS_EmptySet
<1>4. Waiters = {} <=> ~ \E t \in Threads : Waiting(t)
  BY DEF Waiters
<1>5. waiting \in Nat
  BY DEF TypeOK
<1>. QED BY <1>1, <1>2, <1>3, <1>4, <1>5

\* A step that leaves the waiters as they are keeps the count.
LEMMA CountKept ==
  ASSUME WaitingCount, UNCHANGED waiting,
         \A t \in Threads : Waiting(t)' <=> Waiting(t)
  PROVE  WaitingCount'
<1>1. {t \in Threads : Waiting(t)}' = {t \in Threads : Waiting(t)}
  OBVIOUS
<1>. QED BY <1>1 DEF WaitingCount

\* One more thread waits.
LEMMA CountUp ==
  ASSUME TypeOK, WaitingCount, NEW t \in Threads, ~Waiting(t), Waiting(t)',
         waiting' = waiting + 1,
         \A u \in Threads \ {t} : Waiting(u)' <=> Waiting(u)
  PROVE  WaitingCount'
<1>1. {u \in Threads : Waiting(u)}' = Waiters \cup {t}
  BY DEF Waiters
<1>2. t \notin Waiters
  BY DEF Waiters
<1>. QED BY <1>1, <1>2, WaitersCounted, FS_AddElement DEF WaitingCount

\* One thread less waits.
LEMMA CountDown ==
  ASSUME TypeOK, WaitingCount, NEW t \in Threads, Waiting(t), ~Waiting(t)',
         waiting' = waiting - 1,
         \A u \in Threads \ {t} : Waiting(u)' <=> Waiting(u)
  PROVE  WaitingCount'
<1>1. {u \in Threads : Waiting(u)}' = Waiters \ {t}
  BY DEF Waiters
<1>2. t \in Waiters
  BY DEF Waiters
<1>. QED BY <1>1, <1>2, WaitersCounted, FS_RemoveElement DEF WaitingCount

-----------------------------------------------------------------------------
\* gvl_acquire_common up to its wait, wherever it is called from, keeps the
\* types.
LEMMA AcquireType ==
  ASSUME TypeOK, NEW t \in Threads, AcquireCommon(t)
  PROVE  /\ acquired' \in BOOLEAN /\ waiting' \in Nat /\ cond' \subseteq Threads
         /\ pc' \in [Threads -> Places]
<1>. USE DEF TypeOK, AcquireCommon, GoTo, Places
<1>1. CASE acquired /\ waiting = 0
  BY <1>1
<1>2. CASE acquired /\ waiting # 0
  BY <1>2
<1>3. CASE ~acquired
  BY <1>3
<1>. QED BY <1>1, <1>2, <1>3

\* It keeps the invariants of the lock: it takes a lock that is free, and joins
\* the waiters of one that is not.
LEMMA AcquireCore ==
  ASSUME TypeOK, Core, NEW t \in Threads, LockFree, AcquireCommon(t), UNCHANGED timers,
         pc[t] \in {"outside", "yielding", "queueing", "scheduling"}
  PROVE  Core'
<1>. USE DEF TypeOK, Core, GoTo, Waiting, Holding
<1>1. CASE acquired /\ waiting = 0
  <2>1. /\ pc' = [pc EXCEPT ![t] = "contending"] /\ waiting' = 1
        /\ acquired' /\ cond' = cond
    BY <1>1 DEF AcquireCommon
  <2>2. WaitingCount'
    BY <1>1, <2>1, CountUp
  <2>3. MutualExclusion'
    BY <1>1, <2>1 DEF MutualExclusion
  <2>4. NoLostWakeup' /\ TimerAwake'
    BY <2>1 DEF NoLostWakeup, TimerAwake
  <2>. QED BY <2>1, <2>2, <2>3, <2>4
<1>2. CASE acquired /\ waiting # 0
  <2>1. /\ pc' = [pc EXCEPT ![t] = "acquiring"] /\ waiting' = waiting + 1
        /\ acquired' /\ cond' = cond \cup {t}
    BY <1>2 DEF AcquireCommon
  <2>2. WaitingCount'
    BY <2>1, CountUp
  <2>3. MutualExclusion'
    BY <1>2, <2>1 DEF MutualExclusion
  <2>4. NoLostWakeup'
    BY <2>1 DEF NoLostWakeup
  <2>5. TimerAwake'
    BY <1>2, <2>1 DEF TimerAwake, LockFree, timers
  <2>. QED BY <2>1, <2>2, <2>3, <2>4, <2>5 DEF LockFree
<1>3. CASE ~acquired
  <2>1. /\ pc' = [pc EXCEPT ![t] = "entering"] /\ waiting' = waiting
        /\ acquired' /\ cond' = cond
    BY <1>3 DEF AcquireCommon
  <2>2. WaitingCount'
    BY <2>1, CountKept
  <2>3. MutualExclusion'
    BY <1>3, <2>1 DEF MutualExclusion
  <2>4. NoLostWakeup'
    BY <2>1 DEF NoLostWakeup
  <2>5. TimerAwake'
    BY <2>1 DEF TimerAwake, LockFree, timers
  <2>. QED BY <2>1, <2>2, <2>3, <2>4, <2>5 DEF LockFree
<1>. QED BY <1>1, <1>2, <1>3

\* gvl_release_common keeps them too: of the waiters, all of whom are in the
\* loop around the wait, one is awake afterwards.
LEMMA ReleaseCore ==
  ASSUME TypeOK, Core, NEW t \in Threads, pc[t] = "running", LockFree, ReleaseCommon,
         NEW w \in {"outside", "yielding", "queueing", "scheduling"}, GoTo(t, w),
         UNCHANGED <<waiting, timers>>
  PROVE  Core'
<1>. USE DEF TypeOK, Core, GoTo, Waiting, Holding
<1>1. acquired' = FALSE /\ cond' \subseteq cond /\ (cond # {} /\ waiting > 0 => cond' # cond)
  BY DEF ReleaseCommon, Signal
<1>2. WaitingCount'
  BY CountKept
<1>3. MutualExclusion'
  BY <1>1 DEF MutualExclusion
<1>4. NoLostWakeup'
  <2>1. SUFFICES ASSUME waiting > 0
                 PROVE  \E u \in Threads : pc'[u] = "acquiring" /\ u \notin cond'
    BY DEF NoLostWakeup
  <2>2. PICK u \in Threads : pc[u] = "acquiring"
    BY <2>1, WaitersCounted DEF LockFree
  <2>. QED BY <1>1, <2>1, <2>2
<1>5. TimerAwake'
  BY DEF TimerAwake, LockFree, timers
<1>. QED BY <1>1, <1>2, <1>3, <1>4, <1>5 DEF LockFree

-----------------------------------------------------------------------------
\* Every step keeps the types; gvl.waiting is not decremented below zero.
LEMMA TypeStep ==
  ASSUME IInv, Next
  PROVE  TypeOK'
<1>. USE DEF IInv, TypeOK, GoTo, Places, gvl, conds, timers
<1>1. ASSUME NEW t \in Threads, Acquire(t) PROVE TypeOK'
  BY <1>1, AcquireType DEF Acquire
<1>2. ASSUME NEW t \in Threads, WakeTimer(t) PROVE TypeOK'
  BY <1>2 DEF WakeTimer
<1>3. ASSUME NEW t \in Threads, WaitOn(t) PROVE TypeOK'
  BY <1>3 DEF WaitOn
<1>4. ASSUME NEW t \in Threads, TakeOver(t) PROVE TypeOK'
  <2>1. waiting > 0
    BY <1>4, WaitersCounted DEF TakeOver, Core, Waiting
  <2>2. waiting' \in Nat
    BY <1>4, <2>1 DEF TakeOver
  <2>3. switch_cond' \subseteq Threads
    BY <1>4 DEF TakeOver, Signal
  <2>. QED BY <1>4, <2>2, <2>3 DEF TakeOver
<1>5. ASSUME NEW t \in Threads, SetCurrent(t) PROVE TypeOK'
  BY <1>5 DEF SetCurrent
<1>6. ASSUME NEW t \in Threads, Release(t) \/ Finish(t) PROVE TypeOK'
  BY <1>6 DEF Release, Finish, ReleaseCommon, Signal
<1>7. ASSUME NEW t \in Threads, Pass(t) \/ TimeSlice(t) PROVE TypeOK'
  BY <1>7 DEF Pass, TimeSlice, Yield, ReleaseCommon, Signal
<1>8. ASSUME NEW t \in Threads, YieldOn(t) \/ QueueOn(t) PROVE TypeOK'
  BY <1>8 DEF YieldOn, QueueOn
<1>9. ASSUME NEW t \in Threads, YieldOver(t) \/ Rescheduled(t) \/ QueueOver(t)
      PROVE  TypeOK'
  BY <1>9, AcquireType DEF YieldOver, Rescheduled, QueueOver
<1>10. ASSUME NEW t \in Threads, SpuriousWakeup(t) PROVE TypeOK'
  BY <1>10 DEF SpuriousWakeup
<1>11. ASSUME TimerStep \/ Wakeup PROVE TypeOK'
  BY <1>11 DEF TimerStep, Wakeup, Tick, Decide, QuantumOver, TimerWoken
<1>. QED
  BY <1>1, <1>2, <1>3, <1>4, <1>5, <1>6, <1>7, <1>8, <1>9, <1>10, <1>11
  DEF Next, ThreadStep

\* Every step keeps the invariants of the lock.
LEMMA CoreStep ==
  ASSUME IInv, Next
  PROVE  Core'
<1>. USE DEF IInv
<1>1. ASSUME NEW t \in Threads,
             Acquire(t) \/ YieldOver(t) \/ Rescheduled(t) \/ QueueOver(t)
      PROVE  Core'
  BY <1>1, AcquireCore DEF Acquire, YieldOver, Rescheduled, QueueOver
<1>2. ASSUME NEW t \in Threads, WakeTimer(t) PROVE Core'
  <2>. USE <1>2 DEF WakeTimer, GoTo, Core, TypeOK, Waiting, Holding
  <2>1. WaitingCount'
    BY CountKept
  <2>2. MutualExclusion'
    BY DEF MutualExclusion
  <2>3. NoLostWakeup' /\ TimerAwake'
    BY DEF NoLostWakeup, TimerAwake
  <2>. QED BY <2>1, <2>2, <2>3
<1>3. ASSUME NEW t \in Threads, WaitOn(t) PROVE Core'
  <2>. USE <1>3 DEF WaitOn, Core, TypeOK, Waiting, Holding
  <2>1. WaitingCount'
    BY CountKept
  <2>2. MutualExclusion' /\ NoLostWakeup'
    BY DEF MutualExclusion, NoLostWakeup
  <2>3. TimerAwake'
    BY DEF TimerAwake, timers
  <2>. QED BY <2>1, <2>2, <2>3
<1>4. ASSUME NEW t \in Threads, TakeOver(t) PROVE Core'
  <2>. USE <1>4 DEF TakeOver, GoTo, Core, TypeOK, Waiting, Holding
  <2>1. WaitingCount'
    BY CountDown
  <2>2. MutualExclusion' /\ NoLostWakeup'
    BY DEF MutualExclusion, NoLostWakeup
  <2>3. TimerAwake'
    BY DEF TimerAwake, timers, LockFree
  <2>. QED BY <2>1, <2>2, <2>3
<1>5. ASSUME NEW t \in Threads, SetCurrent(t) PROVE Core'
  <2>. USE <1>5 DEF SetCurrent, gvl, conds, GoTo, Core, TypeOK, Waiting, Holding
  <2>1. WaitingCount'
    BY CountKept
  <2>2. MutualExclusion' /\ NoLostWakeup'
    BY DEF MutualExclusion, NoLostWakeup
  <2>3. TimerAwake'
    BY DEF TimerAwake, timers
  <2>. QED BY <2>1, <2>2, <2>3
<1>6. ASSUME NEW t \in Threads, Release(t) \/ Finish(t) PROVE Core'
  BY <1>6, ReleaseCore DEF Release, Finish
<1>7. ASSUME NEW t \in Threads, Pass(t) \/ TimeSlice(t) PROVE Core'
  <2>1. Yield(t)
    BY <1>7 DEF Pass, TimeSlice
  <2>2. PICK w \in {"yielding", "queueing", "scheduling"} : GoTo(t, w)
    BY <2>1 DEF Yield
  <2>. QED BY <2>1, <2>2, ReleaseCore DEF Yield
<1>8. ASSUME NEW t \in Threads, YieldOn(t) \/ QueueOn(t) PROVE Core'
  <2>. USE <1>8 DEF YieldOn, QueueOn, Core, TypeOK, Waiting, Holding
  <2>1. WaitingCount'
    BY CountKept
  <2>2. MutualExclusion' /\ NoLostWakeup'
    BY DEF MutualExclusion, NoLostWakeup
  <2>3. TimerAwake'
    BY DEF TimerAwake, timers
  <2>. QED BY <2>1, <2>2, <2>3
<1>9. ASSUME NEW t \in Threads, SpuriousWakeup(t) PROVE Core'
  <2>. USE <1>9 DEF SpuriousWakeup, Core, TypeOK, Waiting, Holding
  <2>1. WaitingCount'
    BY CountKept
  <2>2. MutualExclusion' /\ NoLostWakeup'
    BY DEF MutualExclusion, NoLostWakeup
  <2>3. TimerAwake'
    BY DEF TimerAwake, timers
  <2>. QED BY <2>1, <2>2, <2>3
<1>10. ASSUME TimerStep \/ Wakeup PROVE Core'
  <2>. USE <1>10 DEF TimerStep, Wakeup, Tick, Decide, QuantumOver, TimerWoken, gvl,
                     conds, Core, TypeOK, Waiting, Holding
  <2>1. WaitingCount'
    BY CountKept
  <2>2. MutualExclusion' /\ NoLostWakeup'
    BY DEF MutualExclusion, NoLostWakeup
  <2>3. TimerAwake'
    BY DEF TimerAwake
  <2>. QED BY <2>1, <2>2, <2>3
<1>. QED
  BY <1>1, <1>2, <1>3, <1>4, <1>5, <1>6, <1>7, <1>8, <1>9, <1>10 DEF Next, ThreadStep

\* Every step keeps the invariants of the hand-over in gvl_yield.
LEMMA HandOverStep ==
  ASSUME IInv, Next
  PROVE  HandOver'
<1>. USE DEF IInv, HandOver, YieldProtocol, TypeOK, GoTo
<1>1. ASSUME NEW t \in Threads, Acquire(t) PROVE HandOver'
  <2>1. PICK w \in {"contending", "acquiring", "entering"} : GoTo(t, w)
    BY <1>1 DEF Acquire, AcquireCommon
  <2>2. waiting > 0 => waiting' > 0
    BY <1>1 DEF Acquire, AcquireCommon
  <2>. QED BY <1>1, <2>1, <2>2 DEF Acquire
<1>2. ASSUME NEW t \in Threads, WakeTimer(t) \/ WaitOn(t) PROVE HandOver'
  BY <1>2 DEF WakeTimer, WaitOn
<1>4. ASSUME NEW t \in Threads, TakeOver(t) PROVE HandOver'
  <2>1. switch_cond' = {}
    <3>1. CASE need_yield
      BY <1>4, <3>1 DEF TakeOver, Signal
    <3>2. CASE ~need_yield
      BY <1>4, <3>2 DEF TakeOver
    <3>. QED BY <3>1, <3>2
  <2>. QED BY <1>4, <2>1 DEF TakeOver
<1>5. ASSUME NEW t \in Threads, SetCurrent(t) PROVE HandOver'
  BY <1>5 DEF SetCurrent, gvl, conds
<1>6. ASSUME NEW t \in Threads, Release(t) \/ Finish(t) PROVE HandOver'
  BY <1>6 DEF Release, Finish
<1>7. ASSUME NEW t \in Threads, Pass(t) \/ TimeSlice(t) PROVE HandOver'
  <2>1. Yield(t)
    BY <1>7 DEF Pass, TimeSlice
  <2>2. CASE wait_yield
    BY <2>1, <2>2 DEF Yield
  <2>3. CASE ~wait_yield /\ waiting > 0
    BY <2>1, <2>3 DEF Yield
  <2>4. CASE ~wait_yield /\ ~(waiting > 0)
    BY <2>1, <2>4 DEF Yield
  <2>. QED BY <2>2, <2>3, <2>4
<1>8. ASSUME NEW t \in Threads, YieldOn(t) \/ QueueOn(t) PROVE HandOver'
  BY <1>8 DEF YieldOn, QueueOn
<1>9. ASSUME NEW t \in Threads, YieldOver(t) \/ Rescheduled(t) \/ QueueOver(t)
      PROVE  HandOver'
  <2>1. PICK w \in {"contending", "acquiring", "entering"} : GoTo(t, w)
    BY <1>9 DEF YieldOver, Rescheduled, QueueOver, AcquireCommon
  <2>2. waiting > 0 => waiting' > 0
    BY <1>9 DEF YieldOver, Rescheduled, QueueOver, AcquireCommon
  <2>3. CASE YieldOver(t)
    BY <2>1, <2>2, <2>3 DEF YieldOver
  <2>4. CASE Rescheduled(t)
    BY <2>1, <2>2, <2>4 DEF Rescheduled
  <2>5. CASE QueueOver(t)
    BY <2>1, <2>2, <2>5 DEF QueueOver
  <2>. QED BY <1>9, <2>3, <2>4, <2>5
<1>10. ASSUME NEW t \in Threads, SpuriousWakeup(t) PROVE HandOver'
  BY <1>10 DEF SpuriousWakeup
<1>11. ASSUME TimerStep \/ Wakeup PROVE HandOver'
  BY <1>11 DEF TimerStep, Wakeup, Tick, Decide, QuantumOver, TimerWoken, gvl, conds
<1>. QED
  BY <1>1, <1>2, <1>4, <1>5, <1>6, <1>7, <1>8, <1>9, <1>10, <1>11 DEF Next, ThreadStep

\* The invariant holds when the main thread has taken the lock.
LEMMA InvInit ==
  ASSUME Init
  PROVE  IInv
<1>. USE ThreadAssumption DEF Init
<1>1. TypeOK /\ HandOver
  BY DEF TypeOK, HandOver, YieldProtocol
<1>2. {t \in Threads : Waiting(t)} = {}
  BY DEF Waiting
<1>3. WaitingCount
  BY <1>2, FS_EmptySet DEF WaitingCount
<1>4. MutualExclusion
  BY DEF MutualExclusion, Holding
<1>5. NoLostWakeup /\ TimerAwake
  BY DEF NoLostWakeup, TimerAwake
<1>. QED BY <1>1, <1>3, <1>4, <1>5 DEF IInv, Core

\* A stuttering step changes nothing the invariant speaks of.
LEMMA InvStutter ==
  ASSUME IInv, UNCHANGED vars
  PROVE  IInv'
<1>. USE DEF IInv, vars, gvl, conds, timers
<1>1. TypeOK' /\ HandOver'
  BY DEF TypeOK, HandOver, YieldProtocol
<1>2. WaitingCount'
  BY CountKept DEF Core, Waiting
<1>3. MutualExclusion' /\ NoLostWakeup' /\ TimerAwake'
  BY DEF Core, MutualExclusion, NoLostWakeup, TimerAwake, Holding
<1>. QED BY <1>1, <1>2, <1>3 DEF Core

\* The invariant of the lock, the timer thread and the hand-over.
THEOREM Invariance == Spec => []IInv
<1>1. Init => IInv
  BY InvInit
<1>2. IInv /\ [Next]_vars => IInv'
  BY TypeStep, CoreStep, HandOverStep, InvStutter DEF IInv
<1>. QED BY <1>1, <1>2, PTL DEF Spec

\* The lock, its counter and its condition variables keep their types.
THEOREM TypeCorrect == Spec => []TypeOK
<1>1. IInv => TypeOK
  BY DEF IInv
<1>. QED BY <1>1, Invariance, PTL

\* However many threads acquire, release and yield, and whichever condition
\* waits return without a signal, one at a time is inside the VM.
THEOREM OneThreadInside == Spec => []MutualExclusion
<1>1. IInv => MutualExclusion
  BY DEF IInv, Core
<1>. QED BY <1>1, Invariance, PTL

\* gvl.waiting, on which gvl_release, gvl_yield and the timer thread rely, is
\* the number of threads in gvl_acquire_common.
THEOREM WaitersAreCounted == Spec => []WaitingCount
<1>1. IInv => WaitingCount
  BY DEF IInv, Core
<1>. QED BY <1>1, Invariance, PTL

\* The single signal of gvl_release_common is enough: a free lock that is
\* waited for has a waiter that is awake.
THEOREM WakeupsAreNotLost == Spec => []NoLostWakeup
<1>1. IInv => NoLostWakeup
  BY DEF IInv, Core
<1>. QED BY <1>1, Invariance, PTL

\* gvl_yield never leaves a yielder asleep with nobody to wake it up.
THEOREM HandOverIsSound == Spec => []YieldProtocol
<1>1. IInv => YieldProtocol
  BY DEF IInv, HandOver
<1>. QED BY <1>1, Invariance, PTL

\* The timer thread does not sleep without a wakeup on its way while a thread
\* waits for the lock, although it reads gvl.waiting without the lock.
THEOREM TimerIsAwake == Spec => []TimerAwake
<1>1. IInv => TimerAwake
  BY DEF IInv, Core
<1>. QED BY <1>1, Invariance, PTL

-----------------------------------------------------------------------------
\* The owner and the waiters that AbstractLock sees.
Owner == IF acquired THEN CHOOSE t \in Threads : Holding(t) ELSE NULL

\* The owner is the one thread inside the VM.
LEMMA OwnerHolds ==
  ASSUME MutualExclusion
  PROVE  /\ \A t \in Threads : Holding(t) => Owner = t
         /\ acquired => \E t \in Threads : Owner = t /\ Holding(t)
         /\ ~acquired => Owner = NULL
BY DEF MutualExclusion, Owner

\* The same of the next state.
LEMMA OwnerHoldsNext ==
  ASSUME MutualExclusion'
  PROVE  /\ \A t \in Threads : Holding(t)' => Owner' = t
         /\ acquired' => \E t \in Threads : Owner' = t /\ Holding(t)'
         /\ ~acquired' => Owner' = NULL
BY DEF MutualExclusion, Owner

\* A step that takes no thread into the VM or out of it, and moves no waiter, is
\* none of the lock's.
LEMMA LockStutter ==
  ASSUME MutualExclusion, MutualExclusion',
         \A t \in Threads : (Holding(t)' <=> Holding(t)) /\ (Waiting(t)' <=> Waiting(t))
  PROVE  Owner' = Owner /\ Waiters' = Waiters
<1>1. Waiters' = Waiters
  BY DEF Waiters
<1>2. CASE acquired
  <2>1. PICK o \in Threads : Owner = o /\ Holding(o)
    BY <1>2, OwnerHolds
  <2>. QED BY <1>1, <2>1, OwnerHoldsNext
<1>3. CASE ~acquired
  <2>1. ~acquired'
    BY <1>3 DEF MutualExclusion
  <2>. QED BY <1>1, <1>3, <2>1, OwnerHolds, OwnerHoldsNext
<1>. QED BY <1>1, <1>2, <1>3

\* gvl_acquire_common up to its wait is a request of a lock that is owned, or a
\* grant of one that is not.
LEMMA AcquireIsLock ==
  ASSUME TypeOK, MutualExclusion, MutualExclusion', NEW t \in Threads, AcquireCommon(t),
         ~Holding(t), ~Waiting(t)
  PROVE  Lock!Request(t) \/ Lock!Grant(t)
<1>. USE DEF TypeOK, GoTo, Holding, Waiting
<1>1. CASE acquired
  <2>1. PICK w \in {"contending", "acquiring"} : pc' = [pc EXCEPT ![t] = w]
    BY <1>1 DEF AcquireCommon, GoTo
  <2>2. acquired' = acquired
    BY <1>1 DEF AcquireCommon
  <2>3. Owner' = Owner /\ Owner # t
    <3>1. PICK o \in Threads : Owner = o /\ Holding(o)
      BY <1>1, OwnerHolds
    <3>2. Holding(o)' /\ o # t
      BY <2>1, <3>1
    <3>. QED BY <3>1, <3>2, OwnerHoldsNext
  <2>4. Waiters' = Waiters \cup {t} /\ t \notin Waiters
    BY <2>1 DEF Waiters
  <2>. QED BY <2>3, <2>4 DEF Lock!Request, Owner, Waiters
<1>2. CASE ~acquired
  <2>1. acquired' /\ pc' = [pc EXCEPT ![t] = "entering"]
    BY <1>2 DEF AcquireCommon
  <2>2. Owner = NULL /\ Owner' = t
    BY <1>2, <2>1, OwnerHolds, OwnerHoldsNext
  <2>3. Waiters' = Waiters \ {t}
    BY <2>1 DEF Waiters
  <2>. QED BY <2>2, <2>3 DEF Lock!Grant, Owner, Waiters
<1>. QED BY <1>1, <1>2

\* gvl_release_common frees it, and the thread joins no waiters.
LEMMA ReleaseIsLock ==
  ASSUME TypeOK, MutualExclusion, MutualExclusion', NEW t \in Threads, pc[t] = "running",
         ReleaseCommon, NEW w \in {"outside", "yielding", "queueing", "scheduling"}, GoTo(t, w)
  PROVE  Lock!Free(t)
<1>. USE DEF TypeOK, GoTo, Holding, Waiting
<1>1. Owner = t
  BY OwnerHolds
<1>2. Owner' = NULL
  BY OwnerHoldsNext DEF ReleaseCommon
<1>3. Waiters' = Waiters
  BY DEF Waiters
<1>. QED BY <1>1, <1>2, <1>3 DEF Lock!Free, Owner, Waiters

\* Every step of the code is a step of the abstract lock or leaves it as it is.
LEMMA StepIsLock ==
  ASSUME IInv, MutualExclusion', Next
  PROVE  Lock!Next \/ (Owner' = Owner /\ Waiters' = Waiters)
<1>. DEFINE Goal == Lock!Next \/ (Owner' = Owner /\ Waiters' = Waiters)
<1>0. TypeOK /\ MutualExclusion
  BY DEF IInv, Core
<1>1. ASSUME NEW t \in Threads,
             Acquire(t) \/ YieldOver(t) \/ Rescheduled(t) \/ QueueOver(t)
      PROVE  Goal
  <2>1. AcquireCommon(t) /\ ~Holding(t) /\ ~Waiting(t)
    BY <1>1 DEF Acquire, YieldOver, Rescheduled, QueueOver, Holding, Waiting
  <2>. QED BY <1>0, <2>1, AcquireIsLock DEF Lock!Next
<1>2. ASSUME NEW t \in Threads, TakeOver(t) PROVE Goal
  <2>1. ~acquired /\ acquired' /\ pc' = [pc EXCEPT ![t] = "entering"]
    BY <1>2 DEF TakeOver, GoTo
  <2>2. Owner = NULL /\ Owner' = t
    BY <1>0, <2>1, OwnerHolds, OwnerHoldsNext DEF TypeOK, Holding
  <2>3. Waiters' = Waiters \ {t}
    BY <1>0, <2>1 DEF TypeOK, Waiters, Waiting
  <2>. QED BY <2>2, <2>3 DEF Lock!Next, Lock!Grant, Owner, Waiters
<1>3. ASSUME NEW t \in Threads, Release(t) \/ Finish(t) PROVE Goal
  BY <1>0, <1>3, ReleaseIsLock DEF Release, Finish, Lock!Next
<1>4. ASSUME NEW t \in Threads, Pass(t) \/ TimeSlice(t) PROVE Goal
  <2>1. Yield(t)
    BY <1>4 DEF Pass, TimeSlice
  <2>2. PICK w \in {"yielding", "queueing", "scheduling"} : GoTo(t, w)
    BY <2>1 DEF Yield
  <2>. QED BY <1>0, <2>1, <2>2, ReleaseIsLock DEF Yield, Lock!Next
<1>5. ASSUME NEW t \in Threads,
             WakeTimer(t) \/ WaitOn(t) \/ SetCurrent(t) \/ YieldOn(t) \/ QueueOn(t) \/ SpuriousWakeup(t)
      PROVE  Goal
  <2>1. \A u \in Threads : (Holding(u)' <=> Holding(u)) /\ (Waiting(u)' <=> Waiting(u))
    BY <1>0, <1>5 DEF WakeTimer, WaitOn, SetCurrent, YieldOn, QueueOn, SpuriousWakeup, GoTo,
                      TypeOK, Holding, Waiting
  <2>. QED BY <1>0, <2>1, LockStutter
<1>6. ASSUME TimerStep \/ Wakeup PROVE Goal
  <2>1. pc' = pc
    BY <1>6 DEF TimerStep, Wakeup, Tick, Decide, QuantumOver, TimerWoken
  <2>. QED BY <1>0, <2>1, LockStutter DEF Holding, Waiting
<1>. QED BY <1>1, <1>2, <1>3, <1>4, <1>5, <1>6 DEF Next, ThreadStep

\* The safety part of the refinement: to the rest of the interpreter, the condition
\* variables, the counter and the hand-over are a lock with one owner that is only
\* granted when it is free and only freed by its owner.
THEOREM GVLIsALock == Spec => Lock!Safety
<1>1. Init => Lock!Init
  <2>. SUFFICES ASSUME Init PROVE Lock!Init
    OBVIOUS
  <2>1. MutualExclusion
    BY InvInit DEF IInv, Core
  <2>2. Owner = MainThread
    BY <2>1, OwnerHolds, ThreadAssumption DEF Init, Holding
  <2>3. Waiters = {}
    BY DEF Init, Waiters, Waiting
  <2>. QED BY <2>2, <2>3 DEF Lock!Init, Owner, Waiters
<1>2. IInv /\ IInv' /\ [Next]_vars => [Lock!Next]_<<Owner, Waiters>>
  <2>. SUFFICES ASSUME IInv, IInv', [Next]_vars
                PROVE  Lock!Next \/ (Owner' = Owner /\ Waiters' = Waiters)
    OBVIOUS
  <2>1. CASE Next
    BY <2>1, StepIsLock DEF IInv, Core
  <2>2. CASE UNCHANGED vars
    BY <2>2, LockStutter DEF vars, IInv, Core, Holding, Waiting
  <2>. QED BY <2>1, <2>2
<1>3. [Lock!Next]_<<Owner, Waiters>> =>
        [Lock!Next]_<<IF acquired THEN CHOOSE t \in Threads : Holding(t) ELSE NULL,
                      {t \in Threads : Waiting(t)}>>
  BY DEF Owner, Waiters
<1>. QED BY <1>1, <1>2, <1>3, Invariance, PTL DEF Spec, Lock!Safety
=============================================================================
