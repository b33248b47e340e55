------------------------------- MODULE Mutex -------------------------------
(***************************************************************************)
(* Mutexes, sleeping threads, join, interrupts between threads, the end of *)
(* a thread, fork, and the detection of deadlocks (ruby/thread.c).         *)
(*                                                                         *)
(* A thread runs Ruby code under the GVL, which is an AbstractLock here.   *)
(* What a thread does between two points where it may lose the GVL is one  *)
(* step; lock_func and native_sleep run without it, under mutex->lock and  *)
(* th->interrupt_lock.  Those two are held over whole steps.  The status   *)
(* of a living thread is THREAD_STOPPED_FOREVER if it is in `stopped' and  *)
(* THREAD_RUNNABLE if not; the other states of a thread, timed sleeps, IO, *)
(* trap handlers and masked interrupts are left out, and a killed thread   *)
(* is one to which an exception is raised and which then ends.             *)
(***************************************************************************)
EXTENDS Integers, FiniteSets

CONSTANTS
  Threads, FirstThread, Mutexes, NULL,
  MaxInterrupts, \* bound: threads that the program has interrupted at a time
  Forking        \* whether the model follows the child of a fork

ASSUME MutexAssumption ==
  /\ IsFiniteSet(Threads) /\ FirstThread \in Threads
  /\ NULL \notin Threads \cup Mutexes /\ Threads \cap Mutexes = {}
  /\ MaxInterrupts \in Nat /\ Forking \in BOOLEAN

VARIABLES
  gvl,                         \* the thread that has the GVL
  living, main_thread,         \* vm->living_threads, vm->main_thread
  pc, arg,                     \* where a thread stands, with which mutex or thread
  stopped,                     \* the threads whose status is THREAD_STOPPED_FOREVER
  interrupt, pending,          \* th->interrupt_flag, length of pending_interrupt_queue
  keeping_mutexes,             \* th->keeping_mutexes
  th, cond_waiting, cond,      \* of the mutexes; cond: threads asleep in lock_func
  sleeper, patrol_thread,
  reports                      \* history: deadlocks that have been reported

threads == <<living, main_thread>>
signals == <<interrupt, pending>>
mutexes == <<keeping_mutexes, th, cond_waiting, cond>>
watch == <<sleeper, patrol_thread, reports>>
vars == <<gvl, threads, pc, arg, stopped, signals, mutexes, watch>>

InLock == {"waiting", "locked", "interrupted", "timedout"}   \* locking_mutex is set
InSleep == {"sleeping", "asleep", "woken"}
Counted == InLock \cup {"relock", "asleep"}         \* between sleeper++ and --

TypeOK ==
  /\ gvl \in Threads \cup {NULL}
  /\ living \subseteq Threads /\ main_thread \in Threads
  /\ pc \in [Threads -> InLock \cup InSleep \cup
             {"running", "locking", "relock", "ended", "dead"}]
  /\ arg \in [Threads -> Threads \cup Mutexes \cup {NULL}]
  /\ stopped \subseteq Threads /\ interrupt \subseteq Threads
  /\ pending \in [Threads -> 0 .. 1]
  /\ keeping_mutexes \in [Threads -> SUBSET Mutexes]
  /\ th \in [Mutexes -> Threads \cup {NULL}]
  /\ cond_waiting \in [Mutexes -> 0 .. Cardinality(Threads)]
  /\ cond \subseteq Threads
  /\ sleeper \in Int /\ patrol_thread \in Threads \cup {NULL}
  /\ reports \in Nat

Init ==
  /\ gvl = FirstThread /\ main_thread = FirstThread /\ living = Threads
  /\ pc = [t \in Threads |-> "running"] /\ arg = [t \in Threads |-> NULL]
  /\ stopped = {} /\ interrupt = {} /\ pending = [t \in Threads |-> 0]
  /\ keeping_mutexes = [t \in Threads |-> {}]
  /\ th = [m \in Mutexes |-> NULL] /\ cond_waiting = [m \in Mutexes |-> 0] /\ cond = {}
  /\ sleeper = 0 /\ patrol_thread = NULL /\ reports = 0

-----------------------------------------------------------------------------
\* The GVL has no queue here: any thread that needs it may get it.
GVL == INSTANCE AbstractLock WITH owner <- gvl, waiters <- {}, FirstOwner <- FirstThread

GoTo(t, where) == pc' = [pc EXCEPT ![t] = where]

Running(t) == gvl = t /\ pc[t] = "running"

\* A point where interrupts are checked, and where a time slice may end.
AtCheck(t) == gvl = t /\ pc[t] \in {"running", "locking", "sleeping", "woken"}

\* A time slice ends.  If no other thread needs the GVL, t has it back at once.
Switch(t) ==
  /\ AtCheck(t) /\ GVL!Free(t)
  /\ \E u \in living \ {t} : pc[u] # "waiting"
  /\ UNCHANGED <<threads, pc, arg, stopped, signals, mutexes, watch>>

Resume(t) ==
  /\ t \in living /\ pc[t] \in {"running", "locking", "sleeping", "woken"}
  /\ GVL!Grant(t)
  /\ UNCHANGED <<threads, pc, arg, stopped, signals, mutexes, watch>>

\* Mutant: a single waiter is not signalled.
SignalShort(ms, c) ==
  {d \in SUBSET c :
     /\ \A t \in c \ d : arg[t] \in ms /\ cond_waiting[arg[t]] > 1
     /\ \A m \in ms : LET w == {t \in c : arg[t] = m}
                      IN cond_waiting[m] > 1 /\ w # {} => Cardinality(w \ d) = 1}

\* The sleepers that native_cond_signal leaves asleep on the mutexes ms that
\* have waiters: one of each wakes up.
Signal(ms, c) ==
  {d \in SUBSET c :
     /\ \A t \in c \ d : arg[t] \in ms /\ cond_waiting[arg[t]] > 0
     /\ \A m \in ms : LET w == {t \in c : arg[t] = m}
                      IN cond_waiting[m] > 0 /\ w # {} => Cardinality(w \ d) = 1}

\* The sleepers that are left when the threads in us are interrupted: the unblock
\* function of a thread in rb_mutex_lock is lock_interrupt, which broadcasts.
Interrupted(us, c) ==
  {t \in c : \A u \in us : pc[u] \in InLock /\ arg[u] = arg[t] => cond_waiting[arg[t]] = 0}

\* rb_threadptr_raise, called by t.  A thread that runs has no unblock function:
\* the patrol resets its own before it looks for a deadlock.
RaiseTo(t, u) ==
  /\ pending' = [pending EXCEPT ![u] = @ + 1]
  /\ interrupt' = interrupt \cup {u}
  /\ cond' = Interrupted({u} \ {t}, cond)

\* Mutant: the mutex that a thread is locking is not looked at.
NotFoundByStatus(u) == u \in stopped \ interrupt

\* What rb_check_deadlock takes for dead.
NotFound(u) ==
  /\ u \in stopped \ interrupt
  /\ pc[u] \in InLock => th[arg[u]] # u /\ ~(th[arg[u]] = NULL /\ cond_waiting[arg[u]] > 0)

\* Mutant: sleeper is not decremented for the main thread.
CheckDeadlockKeep(t, count) ==
  /\ sleeper' = count
  /\ IF /\ count = Cardinality(living) /\ patrol_thread \in {NULL, t}
        /\ \A u \in living : NotFound(u)
       THEN RaiseTo(t, main_thread) /\ reports' = reports + 1
       ELSE UNCHANGED <<signals, cond, reports>>

\* rb_check_deadlock, called by t when vm->sleeper is count.
CheckDeadlock(t, count) ==
  IF /\ count = Cardinality(living) /\ patrol_thread \in {NULL, t}
     /\ \A u \in living : NotFound(u)
    THEN /\ sleeper' = count - 1
         /\ RaiseTo(t, main_thread)
         /\ reports' = reports + 1
    ELSE /\ sleeper' = count
         /\ UNCHANGED <<signals, cond, reports>>

-----------------------------------------------------------------------------
\* rb_mutex_trylock, and the loop of rb_mutex_lock if it fails.
EnterLock(t, m) ==
  IF th[m] = NULL
    THEN /\ th' = [th EXCEPT ![m] = t]
         /\ keeping_mutexes' = [keeping_mutexes EXCEPT ![t] = @ \cup {m}]
         /\ GoTo(t, "running")
         /\ arg' = [arg EXCEPT ![t] = NULL]
    ELSE /\ GoTo(t, "locking")
         /\ arg' = [arg EXCEPT ![t] = m]
         /\ UNCHANGED <<th, keeping_mutexes>>

Lock(t, m) ==
  /\ Running(t) /\ th[m] # t
  /\ EnterLock(t, m)
  /\ UNCHANGED <<gvl, threads, stopped, signals, cond_waiting, cond, watch>>

\* Mutant: no thread waits with a timeout.
NoPatrol(t) == patrol_thread

\* The last thread to fall asleep becomes the patrol thread, whose wait has a
\* timeout, unless there is one.
Patrol(t) ==
  IF sleeper + 1 = Cardinality(living) /\ patrol_thread = NULL THEN t ELSE patrol_thread

\* Mutant: the waiter is not counted.
WaitUncounted(t, m) == cond' = cond \cup {t} /\ GoTo(t, "waiting") /\ UNCHANGED <<th, cond_waiting>>

\* The first wait in lock_func.
Wait(t, m) ==
  /\ cond_waiting' = [cond_waiting EXCEPT ![m] = @ + 1]
  /\ cond' = cond \cup {t}
  /\ GoTo(t, "waiting")
  /\ UNCHANGED th

\* One round of the loop in rb_mutex_lock, up to the wait.
Block(t) ==
  /\ gvl = t /\ pc[t] = "locking" /\ t \notin interrupt
  /\ stopped' = stopped \cup {t}
  /\ sleeper' = sleeper + 1
  /\ patrol_thread' = Patrol(t)
  /\ GVL!Free(t)
  /\ IF th[arg[t]] = NULL
       THEN /\ th' = [th EXCEPT ![arg[t]] = t]
            /\ GoTo(t, "locked")
            /\ UNCHANGED <<cond_waiting, cond>>
       ELSE Wait(t, arg[t])
  /\ UNCHANGED <<threads, arg, signals, keeping_mutexes, reports>>

\* What lock_func finds when its wait returns.
Outcome(t, timeout) ==
  CASE th[arg[t]] = NULL -> "locked"
    [] th[arg[t]] # NULL /\ t \in interrupt -> "interrupted"
    [] th[arg[t]] # NULL /\ t \notin interrupt -> IF timeout THEN "timedout" ELSE "waiting"

\* lock_func after native_cond_wait or native_cond_timedwait has returned.
LockFunc(t, timeout) ==
  /\ pc[t] = "waiting"
  /\ IF timeout THEN t \in cond /\ patrol_thread = t ELSE t \notin cond
  /\ GoTo(t, Outcome(t, timeout))
  /\ IF Outcome(t, timeout) = "waiting"
       THEN cond' = cond \cup {t} /\ UNCHANGED cond_waiting
       ELSE /\ cond' = cond \ {t}
            /\ cond_waiting' = [cond_waiting EXCEPT ![arg[t]] = @ - 1]
  /\ th' = IF Outcome(t, timeout) = "locked" THEN [th EXCEPT ![arg[t]] = t] ELSE th
  /\ UNCHANGED <<gvl, threads, arg, stopped, signals, keeping_mutexes, watch>>

\* GVL_UNLOCK_END after lock_func, and the check of a patrol that timed out.
Relock(t) ==
  /\ pc[t] \in {"locked", "interrupted", "timedout"}
  /\ GVL!Grant(t)
  /\ patrol_thread' = IF patrol_thread = t THEN NULL ELSE patrol_thread
  /\ GoTo(t, "relock")
  /\ IF pc[t] = "timedout" /\ th[arg[t]] # NULL
       THEN CheckDeadlock(t, sleeper)
       ELSE UNCHANGED <<sleeper, signals, cond, reports>>
  /\ UNCHANGED <<threads, arg, stopped, keeping_mutexes, th, cond_waiting>>

\* The rest of the round.  The interrupts that ended a wait are handled in
\* CheckInts, before the next round.
Relocked(t) ==
  /\ gvl = t /\ pc[t] = "relock"
  /\ stopped' = stopped \ {t}
  /\ sleeper' = sleeper - 1
  /\ IF th[arg[t]] = t
       THEN /\ keeping_mutexes' = [keeping_mutexes EXCEPT ![t] = @ \cup {arg[t]}]
            /\ GoTo(t, "running")
            /\ arg' = [arg EXCEPT ![t] = NULL]
       ELSE /\ GoTo(t, "locking")
            /\ UNCHANGED <<keeping_mutexes, arg>>
  /\ UNCHANGED <<gvl, threads, signals, th, cond_waiting, cond, patrol_thread, reports>>

\* rb_mutex_unlock_th; a mutex of another thread is refused.
Release(t, m) ==
  /\ th' = [th EXCEPT ![m] = NULL]
  /\ keeping_mutexes' = [keeping_mutexes EXCEPT ![t] = @ \ {m}]
  /\ cond' \in Signal({m}, cond)

Unlock(t, m) ==
  /\ Running(t) /\ th[m] = t
  /\ Release(t, m)
  /\ UNCHANGED <<gvl, threads, pc, arg, stopped, signals, cond_waiting, watch>>

-----------------------------------------------------------------------------
\* sleep_forever from rb_mutex_sleep, rb_thread_stop and thread_join, up to its
\* first check of interrupts.  `arg' is the mutex to lock again, nothing, or the
\* thread to join.
FallAsleep(t, a) ==
  /\ stopped' = stopped \cup {t}
  /\ GoTo(t, "sleeping")
  /\ arg' = [arg EXCEPT ![t] = a]

MutexSleep(t, m) ==
  /\ Running(t) /\ th[m] = t
  /\ Release(t, m)
  /\ FallAsleep(t, m)
  /\ UNCHANGED <<gvl, threads, signals, cond_waiting, watch>>

Stop(t) ==
  /\ Running(t) /\ living # {t}
  /\ FallAsleep(t, NULL)
  /\ UNCHANGED <<gvl, threads, signals, mutexes, watch>>

Join(t, u) ==
  /\ Running(t) /\ u \in living \ {t, main_thread}
  /\ FallAsleep(t, u)
  /\ UNCHANGED <<gvl, threads, signals, mutexes, watch>>

\* The loop of sleep_forever: count, look for a deadlock, give up the GVL and wait.
GoToSleep(t) ==
  /\ gvl = t /\ pc[t] = "sleeping" /\ t \in stopped \ interrupt
  /\ CheckDeadlock(t, sleeper + 1)
  /\ GVL!Free(t)
  /\ GoTo(t, "asleep")
  /\ UNCHANGED <<threads, arg, stopped, keeping_mutexes, th, cond_waiting, patrol_thread>>

\* native_sleep returns with the GVL: interrupted, or as pthread_cond_wait may, for
\* no reason.  Only rb_thread_stop goes back to sleep then.
WakeUp(t) ==
  /\ pc[t] = "asleep"
  /\ GVL!Grant(t)
  /\ sleeper' = sleeper - 1
  /\ GoTo(t, IF arg[t] = NULL THEN "sleeping" ELSE "woken")
  /\ UNCHANGED <<threads, arg, stopped, signals, mutexes, patrol_thread, reports>>

\* The way out of sleep_forever, and what its caller does then: rb_mutex_lock in
\* the ensure part of rb_mutex_sleep, the loop of thread_join_sleep.
LeaveSleep(t) ==
  /\ gvl = t /\ t \notin interrupt
  /\ pc[t] = "woken" \/ (pc[t] = "sleeping" /\ t \notin stopped)
  /\ \/ /\ arg[t] \in Mutexes
        /\ EnterLock(t, arg[t]) /\ stopped' = stopped \ {t}
     \/ /\ arg[t] \in living
        /\ FallAsleep(t, arg[t])
        /\ UNCHANGED <<th, keeping_mutexes>>
     \/ /\ arg[t] \notin Mutexes \cup living
        /\ GoTo(t, "running")
        /\ arg' = [arg EXCEPT ![t] = NULL]
        /\ stopped' = stopped \ {t}
        /\ UNCHANGED <<th, keeping_mutexes>>
  /\ UNCHANGED <<gvl, threads, signals, cond_waiting, cond, watch>>

\* RUBY_VM_CHECK_INTS: the flag is cleared, and an exception in the queue is
\* raised.  It leaves rb_mutex_lock and the sleeps, rb_mutex_sleep by way of
\* rb_mutex_lock, and is rescued somewhere in the program.
CheckInts(t) ==
  /\ AtCheck(t) /\ t \in interrupt
  /\ interrupt' = interrupt \ {t}
  /\ IF pending[t] = 0
       THEN UNCHANGED <<pending, stopped, pc, arg, th, keeping_mutexes>>
       ELSE /\ pending' = [pending EXCEPT ![t] = @ - 1]
            /\ stopped' = stopped \ {t}
            /\ IF pc[t] \in InSleep /\ arg[t] \in Mutexes
                 THEN EnterLock(t, arg[t])
                 ELSE /\ GoTo(t, "running")
                      /\ arg' = [arg EXCEPT ![t] = NULL]
                      /\ UNCHANGED <<th, keeping_mutexes>>
  /\ UNCHANGED <<gvl, threads, cond_waiting, cond, watch>>

-----------------------------------------------------------------------------
\* rb_thread_wakeup_alive
Wakeup(t, u) ==
  /\ Running(t) /\ u \in living \ {t} /\ Cardinality(interrupt) < MaxInterrupts
  /\ interrupt' = interrupt \cup {u}
  /\ cond' = Interrupted({u}, cond)
  /\ stopped' = stopped \ {u}
  /\ UNCHANGED <<gvl, threads, pc, arg, pending, keeping_mutexes, th, cond_waiting, watch>>

\* rb_threadptr_raise, from Thread#raise and Thread#kill.  Bound: a queue holds one
\* exception, since a second one would wait for the next blocking check.
Raise(t, u) ==
  /\ Running(t) /\ u \in living \ {t} /\ pending[u] = 0 /\ Cardinality(interrupt) < MaxInterrupts
  /\ RaiseTo(t, u)
  /\ UNCHANGED <<gvl, threads, pc, arg, stopped, keeping_mutexes, th, cond_waiting, watch>>

\* The end of a thread in thread_start_func_2: leave living_threads, wake up the
\* main thread if it is the last and those that join, release all mutexes.
End(t) ==
  /\ Running(t) /\ t # main_thread
  /\ living' = living \ {t}
  /\ LET joining == {u \in living : pc[u] \in InSleep /\ arg[u] = t}
         woken == joining \cup (IF Cardinality(living) = 2 THEN {main_thread} ELSE {})
     IN /\ interrupt' = (interrupt \ {t}) \cup woken
        /\ stopped' = stopped \ joining
        /\ cond' \in Signal(keeping_mutexes[t], Interrupted(woken, cond))
  /\ th' = [m \in Mutexes |-> IF m \in keeping_mutexes[t] THEN NULL ELSE th[m]]
  /\ keeping_mutexes' = [keeping_mutexes EXCEPT ![t] = {}]
  /\ pending' = [pending EXCEPT ![t] = 0]
  /\ GoTo(t, "ended")
  /\ UNCHANGED <<gvl, main_thread, arg, cond_waiting, watch>>

\* Its last look for a deadlock before gvl_release.
Ended(t) ==
  /\ pc[t] = "ended"
  /\ CheckDeadlock(t, sleeper)
  /\ GVL!Free(t)
  /\ GoTo(t, "dead")
  /\ UNCHANGED <<threads, arg, stopped, keeping_mutexes, th, cond_waiting, patrol_thread>>

\* Mutant: a mutex that a thread is just locking is not abandoned.
AbandonedKept(u, m) == m \in keeping_mutexes[u]

\* rb_mutex_abandon_keeping_mutexes and rb_mutex_abandon_locking_mutex
Abandoned(u, m) ==
  m \in keeping_mutexes[u] \/ (pc[u] \in InLock /\ arg[u] = m /\ th[m] = u)

\* rb_thread_atfork in the child: only t is left, the mutexes of the others are
\* abandoned, and patrol_thread, a static variable, stays as it is.
Fork(t) ==
  /\ Forking /\ Running(t) /\ living # {t}
  /\ main_thread' = t /\ living' = {t}
  /\ th' = [m \in Mutexes |->
              IF \E u \in living \ {t} : Abandoned(u, m) THEN NULL ELSE th[m]]
  /\ keeping_mutexes' = [u \in Threads |-> IF u = t THEN keeping_mutexes[t] ELSE {}]
  /\ pc' = [u \in Threads |-> IF u = t THEN "running" ELSE "dead"]
  /\ arg' = [u \in Threads |-> NULL]
  /\ stopped' = {} /\ cond' = {} /\ interrupt' = interrupt \cap {t}
  /\ pending' = [u \in Threads |-> IF u = t THEN pending[t] ELSE 0]
  /\ sleeper' = 0 /\ reports' = 0
  /\ UNCHANGED <<gvl, cond_waiting, patrol_thread>>

\* native_cond_wait in lock_func may return for no reason.
SpuriousWakeup(t) ==
  /\ t \in cond
  /\ cond' = cond \ {t}
  /\ UNCHANGED <<gvl, threads, pc, arg, stopped, signals, keeping_mutexes, th, cond_waiting,
                 watch>>

\* What the program may ask for.
Call(t) ==
  \/ \E m \in Mutexes : Lock(t, m) \/ Unlock(t, m) \/ MutexSleep(t, m)
  \/ \E u \in Threads : Join(t, u) \/ Wakeup(t, u) \/ Raise(t, u)
  \/ Stop(t) \/ End(t) \/ Fork(t)

Next ==
  \E t \in Threads :
    \/ Call(t) \/ Switch(t) \/ Resume(t) \/ CheckInts(t) \/ Ended(t) \/ SpuriousWakeup(t)
    \/ Block(t) \/ LockFunc(t, FALSE) \/ LockFunc(t, TRUE) \/ Relock(t) \/ Relocked(t)
    \/ GoToSleep(t) \/ WakeUp(t) \/ LeaveSleep(t)

Spec == Init /\ [][Next]_vars

-----------------------------------------------------------------------------
\* Every owner of a mutex is alive and has it in keeping_mutexes, which is what
\* releases it in the end, or is between lock_func and mutex_locked, where only
\* locking_mutex names it: no end of a thread and no fork leaves a mutex locked.
OwnersRelease ==
  \A m \in Mutexes, t \in Threads :
    /\ th[m] = t => t \in living
    /\ th[m] = t <=> \/ m \in keeping_mutexes[t]
                     \/ pc[t] \in {"locked", "relock"} /\ arg[t] = m /\ th[m] = t

\* A free mutex that is waited for has a waiter that is awake, although unlocking
\* wakes up one waiter, which may be interrupted or time out at the same moment.
NoLostWakeup ==
  \A m \in Mutexes : th[m] = NULL =>
    LET w == {t \in living : pc[t] = "waiting" /\ arg[t] = m} IN w = {} \/ w \ cond # {}

\* vm->sleeper counts the threads in lock_func and sleep_forever; each report
\* leaves it one too low, so that rb_bug in rb_check_deadlock is never reached.
SleeperCount == sleeper + reports = Cardinality({t \in living : pc[t] \in Counted})

\* What a thread cannot get out of by itself.
Stuck(t) ==
  \/ pc[t] = "asleep" /\ t \in stopped /\ arg[t] \notin Threads \ living
  \/ pc[t] \in {"waiting", "timedout", "relock"} /\ th[arg[t]] \in living \ {t}

\* rb_check_deadlock raises no false alarm: at a report no thread that is alive
\* had an interrupt, could lock its mutex or waits for a thread that has ended.
NoFalseDeadlock ==
  [][reports' > reports => \A t \in living' : Stuck(t)' /\ t \notin interrupt]_vars

\* No deadlock goes unnoticed, up to the first report: if all threads are stuck, no
\* one is interrupted and nobody has the GVL, then one of them is the patrol thread,
\* which times out and looks.  The child of a fork may find patrol_thread set to a
\* thread it does not have, and then it has no patrol.
DeadlockWatched ==
  /\ gvl = NULL /\ reports = 0
  /\ \A t \in living : Stuck(t) /\ t \notin interrupt
  => /\ patrol_thread # NULL
     /\ patrol_thread \in living => pc[patrol_thread] # "asleep"
=============================================================================
