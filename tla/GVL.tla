-------------------------------- MODULE GVL --------------------------------
(***************************************************************************)
(* The global VM lock and the timer thread (ruby/thread_pthread.c), with   *)
(* the places of ruby/thread.c that take, release and yield the lock.      *)
(*                                                                         *)
(* vm->gvl.lock is held over every piece of gvl_acquire, gvl_release and   *)
(* gvl_yield that lies between two waits, so such a piece is one step.     *)
(* Only the write to the timer thread's pipe in gvl_acquire_common is a    *)
(* step of its own, since the timer thread reads gvl.waiting without the   *)
(* lock; the other threads cannot move meanwhile (LockFree).  A condition  *)
(* variable is the set of threads asleep on it.                            *)
(***************************************************************************)
EXTENDS Naturals, FiniteSets

CONSTANTS Threads, MainThread, NULL

ASSUME ThreadAssumption ==
  /\ IsFiniteSet(Threads) /\ MainThread \in Threads /\ NULL \notin Threads

VARIABLES
  acquired, waiting, need_yield, wait_yield,   \* vm->gvl
  cond, switch_cond, switch_wait_cond,         \* the threads asleep on each
  pc,                                          \* where a thread stands
  running_thread,                              \* vm->running_thread
  interrupt,                                   \* threads with TIMER_INTERRUPT_MASK set
  timer,                                       \* where the timer thread stands
  normal, low                                  \* whether its two pipes hold a byte

conds == <<cond, switch_cond, switch_wait_cond>>
gvl == <<acquired, waiting, need_yield, wait_yield, conds>>
timers == <<timer, normal, low>>
vars == <<gvl, pc, running_thread, interrupt, timers>>

TypeOK ==
  /\ acquired \in BOOLEAN /\ need_yield \in BOOLEAN /\ wait_yield \in BOOLEAN
  /\ waiting \in Nat
  /\ cond \subseteq Threads /\ switch_cond \subseteq Threads
  /\ switch_wait_cond \subseteq Threads
  /\ pc \in [Threads -> {"outside", "contending", "acquiring", "entering", "running",
                         "yielding", "queueing", "scheduling"}]
  /\ running_thread \in Threads \cup {NULL}
  /\ interrupt \subseteq Threads
  /\ timer \in {"tick", "decide", "poll", "sleep"}
  /\ normal \in BOOLEAN /\ low \in BOOLEAN

\* gvl_init, then the main thread takes the lock.
Init ==
  /\ acquired = TRUE /\ waiting = 0 /\ need_yield = FALSE /\ wait_yield = FALSE
  /\ cond = {} /\ switch_cond = {} /\ switch_wait_cond = {}
  /\ pc = [t \in Threads |-> IF t = MainThread THEN "running" ELSE "outside"]
  /\ running_thread = MainThread
  /\ interrupt = {}
  /\ timer = "tick" /\ normal = FALSE /\ low = FALSE

-----------------------------------------------------------------------------
LockFree == \A t \in Threads : pc[t] # "contending"

GoTo(t, where) == pc' = [pc EXCEPT ![t] = where]

\* native_cond_signal: one sleeper, if there is any, wakes up.
Signal(c, c1) == IF c = {} THEN c1 = {} ELSE \E t \in c : c1 = c \ {t}

\* gvl_acquire_common up to its wait: take a free lock, or join the waiters,
\* of whom the first wakes the timer thread up.
AcquireCommon(t) ==
  IF acquired
    THEN /\ waiting' = waiting + 1
         /\ GoTo(t, IF waiting = 0 THEN "contending" ELSE "acquiring")
         /\ cond' = IF waiting = 0 THEN cond ELSE cond \cup {t}
         /\ UNCHANGED acquired
    ELSE /\ acquired' = TRUE
         /\ GoTo(t, "entering")
         /\ UNCHANGED <<waiting, cond>>

\* gvl_acquire, at the start of a thread and at the end of a blocking region.
Acquire(t) ==
  /\ pc[t] = "outside" /\ LockFree
  /\ AcquireCommon(t)
  /\ UNCHANGED <<need_yield, wait_yield, switch_cond, switch_wait_cond,
                 running_thread, interrupt, timers>>

\* rb_thread_wakeup_timer_thread_low, then native_cond_wait.
WakeTimer(t) ==
  /\ pc[t] = "contending"
  /\ low' = TRUE
  /\ cond' = cond \cup {t}
  /\ GoTo(t, "acquiring")
  /\ UNCHANGED <<acquired, waiting, need_yield, wait_yield, switch_cond,
                 switch_wait_cond, running_thread, interrupt, timer, normal>>

\* A waiter wakes up and the lock is taken: it waits on.
WaitOn(t) ==
  /\ pc[t] = "acquiring" /\ t \notin cond /\ LockFree /\ acquired
  /\ cond' = cond \cup {t}
  /\ UNCHANGED <<acquired, waiting, need_yield, wait_yield, switch_cond,
                 switch_wait_cond, pc, running_thread, interrupt, timers>>

\* Mutant: an `if` in place of the loop around the wait.
TakeOverAwake(t) ==
  /\ pc[t] = "acquiring" /\ t \notin cond /\ LockFree
  /\ waiting' = waiting - 1
  /\ need_yield' = FALSE
  /\ IF need_yield THEN Signal(switch_cond, switch_cond') ELSE UNCHANGED switch_cond
  /\ acquired' = TRUE
  /\ GoTo(t, "entering")
  /\ UNCHANGED <<wait_yield, cond, switch_wait_cond, running_thread, interrupt, timers>>

\* Mutant: gvl.waiting is not decremented.
TakeOverUncounted(t) ==
  /\ pc[t] = "acquiring" /\ t \notin cond /\ LockFree /\ ~acquired
  /\ need_yield' = FALSE
  /\ IF need_yield THEN Signal(switch_cond, switch_cond') ELSE UNCHANGED switch_cond
  /\ acquired' = TRUE
  /\ GoTo(t, "entering")
  /\ UNCHANGED <<waiting, wait_yield, cond, switch_wait_cond, running_thread, interrupt, timers>>

\* Mutant: the yielding thread is not signalled.
TakeOverSilent(t) ==
  /\ pc[t] = "acquiring" /\ t \notin cond /\ LockFree /\ ~acquired
  /\ waiting' = waiting - 1
  /\ need_yield' = FALSE
  /\ acquired' = TRUE
  /\ GoTo(t, "entering")
  /\ UNCHANGED <<wait_yield, conds, running_thread, interrupt, timers>>

\* A waiter wakes up and takes the lock, and tells a yielding thread so.
TakeOver(t) ==
  /\ pc[t] = "acquiring" /\ t \notin cond /\ LockFree /\ ~acquired
  /\ waiting' = waiting - 1
  /\ need_yield' = FALSE
  /\ IF need_yield THEN Signal(switch_cond, switch_cond') ELSE UNCHANGED switch_cond
  /\ acquired' = TRUE
  /\ GoTo(t, "entering")
  /\ UNCHANGED <<wait_yield, cond, switch_wait_cond, running_thread, interrupt, timers>>

\* Mutant: rb_thread_set_current_raw, which leaves vm->running_thread alone.
SetCurrentRaw(t) ==
  /\ pc[t] = "entering"
  /\ GoTo(t, "running")
  /\ UNCHANGED <<gvl, running_thread, interrupt, timers>>

\* rb_thread_set_current, after each of the ways to get the lock.
SetCurrent(t) ==
  /\ pc[t] = "entering"
  /\ running_thread' = t
  /\ GoTo(t, "running")
  /\ UNCHANGED <<gvl, interrupt, timers>>

\* Mutant: the last waiter is not signalled.
ReleaseCommonShort ==
  /\ acquired' = FALSE
  /\ IF waiting > 1 THEN Signal(cond, cond') ELSE UNCHANGED cond

\* gvl_release_common
ReleaseCommon ==
  /\ acquired' = FALSE
  /\ IF waiting > 0 THEN Signal(cond, cond') ELSE UNCHANGED cond

\* gvl_release, at the start of a blocking region.
Release(t) ==
  /\ pc[t] = "running" /\ LockFree
  /\ ReleaseCommon
  /\ GoTo(t, "outside")
  /\ UNCHANGED <<waiting, need_yield, wait_yield, switch_cond, switch_wait_cond,
                 running_thread, interrupt, timers>>

\* The end of thread_start_func_2, which the main thread does not run.  The
\* thread that starts next takes its place in Threads.
Finish(t) ==
  /\ pc[t] = "running" /\ LockFree /\ t # MainThread
  /\ running_thread' = NULL
  /\ ReleaseCommon
  /\ GoTo(t, "outside")
  /\ UNCHANGED <<waiting, need_yield, wait_yield, switch_cond, switch_wait_cond,
                 interrupt, timers>>

\* gvl_yield up to its first wait.
Yield(t) ==
  /\ pc[t] = "running" /\ LockFree
  /\ ReleaseCommon
  /\ IF wait_yield
       THEN /\ switch_wait_cond' = switch_wait_cond \cup {t}
            /\ GoTo(t, "queueing")
            /\ UNCHANGED <<need_yield, wait_yield, switch_cond>>
       ELSE IF waiting > 0
       THEN /\ need_yield' = TRUE /\ wait_yield' = TRUE
            /\ switch_cond' = switch_cond \cup {t}
            /\ GoTo(t, "yielding")
            /\ UNCHANGED switch_wait_cond
       ELSE /\ GoTo(t, "scheduling")
            /\ UNCHANGED <<need_yield, wait_yield, switch_cond, switch_wait_cond>>
  /\ UNCHANGED <<waiting, running_thread, timers>>

\* rb_thread_schedule, from Thread.pass: no time slice has to be used up.
Pass(t) == Yield(t) /\ UNCHANGED interrupt

\* rb_threadptr_execute_interrupts finds the timer interrupt and clears it.
TimeSlice(t) == t \in interrupt /\ Yield(t) /\ interrupt' = interrupt \ {t}

\* The loop around the wait for another thread to take the lock.
YieldOn(t) ==
  /\ pc[t] = "yielding" /\ t \notin switch_cond /\ LockFree /\ need_yield
  /\ switch_cond' = switch_cond \cup {t}
  /\ UNCHANGED <<acquired, waiting, need_yield, wait_yield, cond, switch_wait_cond, pc,
                 running_thread, interrupt, timers>>

\* Mutant: the queue of yielders is not woken up.
YieldOverSilent(t) ==
  /\ pc[t] = "yielding" /\ t \notin switch_cond /\ LockFree /\ ~need_yield
  /\ wait_yield' = FALSE
  /\ AcquireCommon(t)
  /\ UNCHANGED <<need_yield, switch_cond, switch_wait_cond, running_thread, interrupt,
                 timers>>

\* Another thread has taken the lock: let the queue of yielders go on, and
\* compete for the lock.
YieldOver(t) ==
  /\ pc[t] = "yielding" /\ t \notin switch_cond /\ LockFree /\ ~need_yield
  /\ wait_yield' = FALSE
  /\ switch_wait_cond' = {}
  /\ AcquireCommon(t)
  /\ UNCHANGED <<need_yield, switch_cond, running_thread, interrupt, timers>>

\* Nobody was waiting: after sched_yield, the same.
Rescheduled(t) ==
  /\ pc[t] = "scheduling" /\ LockFree
  /\ switch_wait_cond' = {}
  /\ AcquireCommon(t)
  /\ UNCHANGED <<need_yield, wait_yield, switch_cond, running_thread, interrupt, timers>>

\* The loop of a yielder that waits for the one before it.
QueueOn(t) ==
  /\ pc[t] = "queueing" /\ t \notin switch_wait_cond /\ LockFree /\ wait_yield
  /\ switch_wait_cond' = switch_wait_cond \cup {t}
  /\ UNCHANGED <<acquired, waiting, need_yield, wait_yield, cond, switch_cond, pc,
                 running_thread, interrupt, timers>>

QueueOver(t) ==
  /\ pc[t] = "queueing" /\ t \notin switch_wait_cond /\ LockFree /\ ~wait_yield
  /\ AcquireCommon(t)
  /\ UNCHANGED <<need_yield, wait_yield, switch_cond, switch_wait_cond, running_thread,
                 interrupt, timers>>

\* pthread_cond_wait may return without a signal.
SpuriousWakeup(t) ==
  /\ t \in cond \cup switch_cond \cup switch_wait_cond
  /\ cond' = cond \ {t} /\ switch_cond' = switch_cond \ {t}
  /\ switch_wait_cond' = switch_wait_cond \ {t}
  /\ UNCHANGED <<acquired, waiting, need_yield, wait_yield, pc, running_thread,
                 interrupt, timers>>

-----------------------------------------------------------------------------
\* Mutant: vm->running_thread is not tested for NULL.
TickUnchecked ==
  /\ timer = "tick"
  /\ interrupt' = interrupt \cup {running_thread}
  /\ timer' = "decide"
  /\ UNCHANGED <<gvl, pc, running_thread, normal, low>>

\* timer_thread_function: interrupt whoever vm->running_thread names, which may
\* be the thread that ran before.
Tick ==
  /\ timer = "tick"
  /\ interrupt' = interrupt \cup ({running_thread} \ {NULL})
  /\ timer' = "decide"
  /\ UNCHANGED <<gvl, pc, running_thread, normal, low>>

\* Mutant: a single waiter does not make the timer thread poll.
DecideShort ==
  /\ timer = "decide"
  /\ timer' \in IF waiting > 1 THEN {"poll"} ELSE {"poll", "sleep"}
  /\ UNCHANGED <<gvl, pc, running_thread, interrupt, normal, low>>

\* timer_thread_sleep reads gvl.waiting: poll for one quantum, or for ever.  It
\* also polls while the list of threads to signal is not empty.
Decide ==
  /\ timer = "decide"
  /\ timer' \in IF waiting > 0 THEN {"poll"} ELSE {"poll", "sleep"}
  /\ UNCHANGED <<gvl, pc, running_thread, interrupt, normal, low>>

\* The timed poll watches the normal pipe only, and both are emptied when it
\* finds a byte there.
QuantumOver ==
  /\ timer = "poll"
  /\ timer' = "tick"
  /\ normal' = FALSE /\ low' = (low /\ ~normal)
  /\ UNCHANGED <<gvl, pc, running_thread, interrupt>>

\* The endless poll watches both.
TimerWoken ==
  /\ timer = "sleep" /\ (normal \/ low)
  /\ timer' = "tick"
  /\ normal' = FALSE /\ low' = FALSE
  /\ UNCHANGED <<gvl, pc, running_thread, interrupt>>

\* rb_thread_wakeup_timer_thread, from a signal handler or ubf_select.
Wakeup ==
  /\ normal' = TRUE
  /\ UNCHANGED <<gvl, pc, running_thread, interrupt, timer, low>>

ThreadStep(t) ==
  \/ WakeTimer(t) \/ WaitOn(t) \/ TakeOver(t) \/ SetCurrent(t) \/ TimeSlice(t)
  \/ YieldOn(t) \/ YieldOver(t) \/ Rescheduled(t) \/ QueueOn(t) \/ QueueOver(t)

TimerStep == Tick \/ Decide \/ QuantumOver \/ TimerWoken

Next ==
  \/ \E t \in Threads :
       \/ ThreadStep(t) \/ Acquire(t) \/ Release(t) \/ Finish(t) \/ Pass(t)
       \/ SpuriousWakeup(t)
  \/ TimerStep \/ Wakeup

\* Every native thread that can run runs; a Ruby thread looks at its interrupts
\* (TimeSlice) but need not block, pass or end.  Contention for gvl.lock does
\* not keep a yielder out for ever, and a signalled waiter does not lose the
\* free GVL for ever to threads that arrive later.
Fairness ==
  /\ \A t \in Threads : WF_vars(ThreadStep(t)) /\ WF_vars(TimeSlice(t))
  /\ SF_vars(\E t \in Threads : YieldOver(t))
  /\ SF_vars(\E t \in Threads : TakeOver(t))
  /\ WF_vars(TimerStep)

Spec == Init /\ [][Next]_vars /\ Fairness

-----------------------------------------------------------------------------
Holding(t) == pc[t] \in {"entering", "running"}
Waiting(t) == pc[t] \in {"contending", "acquiring"}

\* The lock as AbstractLock sees it.
Lock ==
  INSTANCE AbstractLock WITH
    FirstOwner <- MainThread,
    owner <- IF acquired THEN CHOOSE t \in Threads : Holding(t) ELSE NULL,
    waiters <- {t \in Threads : Waiting(t)}

\* The condition variables, the counter and the hand-over implement a lock that
\* one thread owns at a time and that is granted while threads wait: no step of
\* acquire, release or yield takes it from its owner or leaves it free for ever.
ImplementsLock == Lock!Spec

\* One thread at a time is inside the VM, and gvl.acquired says whether one is,
\* through every interleaving of acquire, release, yield and spurious wakeups.
MutualExclusion ==
  /\ \A t, u \in Threads : Holding(t) /\ Holding(u) => t = u
  /\ acquired <=> \E t \in Threads : Holding(t)

\* gvl.waiting counts the threads in gvl_acquire_common.
WaitingCount == waiting = Cardinality({t \in Threads : Waiting(t)})

\* No wakeup is lost: when the lock is free and threads wait for it, one of
\* them is awake, although gvl_release wakes only one and a thread that comes
\* from outside may take the lock before it.
NoLostWakeup ==
  ~acquired /\ waiting > 0 => \E t \in Threads : pc[t] = "acquiring" /\ t \notin cond

\* The hand-over of gvl_yield cannot be forgotten: while need_yield is set a
\* waiter is there to reset it and exactly one thread yields; once it is reset
\* the yielder is awake; and a queued yielder sleeps only behind a yielder.
YieldProtocol ==
  /\ need_yield => waiting > 0 /\ wait_yield
  /\ wait_yield <=> \E t \in Threads : pc[t] = "yielding"
  /\ \A t, u \in Threads : pc[t] = "yielding" /\ pc[u] = "yielding" => t = u
  /\ switch_cond # {} => need_yield
  /\ switch_wait_cond # {} => wait_yield

\* The timer thread does not sleep through contention: with a thread waiting
\* for the lock it is ticking, or a byte is in its pipe or about to be.
TimerAwake ==
  timer = "sleep" /\ waiting > 0 =>
    low \/ normal \/ \E t \in Threads : pc[t] = "contending"

\* A thread that runs while others wait is made to give the lock up.
TimeSliceEnds ==
  \A t \in Threads : pc[t] = "running" /\ waiting > 0 ~> pc[t] # "running"

\* A hand-over in gvl_yield completes: the yielder comes back to compete for
\* the lock and lets the yielders queued behind it go on.
YieldReturns == wait_yield ~> ~wait_yield
=============================================================================
