---------------------------- MODULE MutexProofs ----------------------------
(***************************************************************************)
(* Proofs about the mutexes of module Mutex, for any finite set of         *)
(* threads, any set of mutexes and any number of interrupts.  The owner    *)
(* lists and the wakeups are not inductive as they stand: the first need   *)
(* to know where the thread with the GVL stands, the second that           *)
(* cond_waiting counts every waiter (IInv).                                *)
(*                                                                         *)
(* The deadlock check (rb_check_deadlock, the patrol thread, vm->sleeper)  *)
(* comes on top of it.  That no deadlock goes unnoticed needs an invariant *)
(* of all the states in which every thread is counted as asleep, stuck or  *)
(* not (DInv).                                                             *)
(***************************************************************************)
EXTENDS Mutex, FiniteSetTheorems, TLAPS

\* Where a thread stands, with the GVL and without it.
AtHand == {"running", "locking", "sleeping", "woken"}
Gone == {"ended", "dead"}

Waiters(m) == {t \in Threads : pc[t] = "waiting" /\ arg[t] = m}
DeadOrWaiting(m) == Waiters(m) \cup {t \in Threads : pc[t] = "dead"}

\* The life of a thread, its use of the GVL and of `arg'.
Control ==
  /\ main_thread \in living
  /\ \A t \in Threads :
       /\ t \in living <=> pc[t] \notin Gone
       /\ gvl = t => pc[t] \in AtHand \cup {"relock", "ended"}
       /\ pc[t] \in {"relock", "ended"} => gvl = t
       /\ pc[t] \in InLock \cup {"locking", "relock"} => arg[t] \in Mutexes
       /\ t \in cond => pc[t] = "waiting"

\* Why a thread that waits or sleeps is left alone, or is not.
Flags ==
  \A t \in Threads :
    /\ pending[t] = 0 \/ t \in interrupt
    /\ pc[t] = "interrupted" => t \in interrupt
    /\ pc[t] \in InLock \cup {"relock"} => t \in stopped \cup interrupt
    /\ pc[t] \in InSleep /\ t \in stopped /\ arg[t] \in Threads => arg[t] \in living

\* cond_waiting counts the waiters, and after a fork perhaps some that are dead.
WaitersCounted ==
  \A m \in Mutexes : /\ Cardinality(Waiters(m)) <= cond_waiting[m]
                     /\ cond_waiting[m] <= Cardinality(DeadOrWaiting(m))

IInv ==
  /\ TypeOK /\ Control /\ Flags /\ OwnersRelease /\ WaitersCounted /\ NoLostWakeup

USE MutexAssumption

-----------------------------------------------------------------------------
\* Control is kept by every step: it says where the thread with the GVL stands,
\* which is all that the guards of the steps without the GVL leave open.
LEMMA ControlStep ==
  TypeOK /\ Control /\ [Next]_vars => Control'
<1> SUFFICES ASSUME TypeOK, Control, [Next]_vars PROVE Control'
  BY Zenon
<1> USE DEF Control, TypeOK, AtHand, Gone, InLock, InSleep, GoTo, AtCheck, Running,
            threads, mutexes, signals, watch
<1>1. UNCHANGED vars => Control'
  BY Zenon DEF vars
<1>2. \A t \in Threads, m \in Mutexes : Lock(t, m) => Control'
  BY DEF Lock, EnterLock
<1>3. \A t \in Threads, m \in Mutexes : Unlock(t, m) => Control'
  BY DEF Unlock, Release, Signal
<1>4. \A t \in Threads, m \in Mutexes : MutexSleep(t, m) => Control'
  BY DEF MutexSleep, FallAsleep, Release, Signal
<1>5. \A t \in Threads, u \in Threads : Join(t, u) => Control'
  BY DEF Join, FallAsleep
<1>6. \A t \in Threads, u \in Threads : Wakeup(t, u) => Control'
  BY DEF Wakeup, Interrupted
<1>7. \A t \in Threads, u \in Threads : Raise(t, u) => Control'
  BY DEF Raise, RaiseTo, Interrupted
<1>8. \A t \in Threads : Stop(t) => Control'
  BY DEF Stop, FallAsleep
<1>9. \A t \in Threads : End(t) => Control'
  BY DEF End, Signal, Interrupted
<1>10. \A t \in Threads : Fork(t) => Control'
  BY DEF Fork
<1>11. \A t \in Threads : Switch(t) => Control'
  BY DEF Switch, GVL!Free
<1>12. \A t \in Threads : Resume(t) => Control'
  BY DEF Resume, GVL!Grant
<1>13. \A t \in Threads : CheckInts(t) => Control'
  BY DEF CheckInts, EnterLock
<1>14. \A t \in Threads : Ended(t) => Control'
  BY DEF Ended, CheckDeadlock, RaiseTo, Interrupted, GVL!Free
<1>15. \A t \in Threads : SpuriousWakeup(t) => Control'
  BY DEF SpuriousWakeup
<1>16. \A t \in Threads : Block(t) => Control'
  BY DEF Block, Wait, GVL!Free
<1>17. \A t \in Threads, b \in BOOLEAN : LockFunc(t, b) => Control'
  BY DEF LockFunc, Outcome
<1>18. \A t \in Threads : Relock(t) => Control'
  BY DEF Relock, CheckDeadlock, RaiseTo, Interrupted, GVL!Grant
<1>19. \A t \in Threads : Relocked(t) => Control'
  BY DEF Relocked
<1>20. \A t \in Threads : GoToSleep(t) => Control'
  BY DEF GoToSleep, CheckDeadlock, RaiseTo, Interrupted, GVL!Free
<1>21. \A t \in Threads : WakeUp(t) => Control'
  BY DEF WakeUp, GVL!Grant
<1>22. \A t \in Threads : LeaveSleep(t) => Control'
  BY SMTT(20) DEF LeaveSleep, EnterLock, FallAsleep
<1> QED
  BY <1>1, <1>2, <1>3, <1>4, <1>5, <1>6, <1>7, <1>8, <1>9, <1>10, <1>11, <1>12,
     <1>13, <1>14, <1>15, <1>16, <1>17, <1>18, <1>19, <1>20, <1>21, <1>22, Zenon DEF Next, Call

-----------------------------------------------------------------------------
\* The owner of a mutex keeps it in a list until it releases it, and nobody else
\* takes it meanwhile.
LEMMA OwnersStep ==
  TypeOK /\ Control /\ OwnersRelease /\ [Next]_vars => OwnersRelease'
<1> SUFFICES ASSUME TypeOK, Control, OwnersRelease, [Next]_vars PROVE OwnersRelease'
  BY Zenon
<1> USE DEF OwnersRelease, Control, TypeOK, AtHand, Gone, InLock, InSleep, GoTo, AtCheck, Running,
            threads, mutexes, signals, watch
<1>1. UNCHANGED vars => OwnersRelease'
  BY Zenon DEF vars
<1>2. \A t \in Threads, m \in Mutexes : Lock(t, m) => OwnersRelease'
  BY DEF Lock, EnterLock
<1>3. \A t \in Threads, m \in Mutexes : Unlock(t, m) => OwnersRelease'
  BY DEF Unlock, Release, Signal
<1>4. \A t \in Threads, m \in Mutexes : MutexSleep(t, m) => OwnersRelease'
  BY DEF MutexSleep, FallAsleep, Release, Signal
<1>5. \A t \in Threads, u \in Threads : Join(t, u) => OwnersRelease'
  BY DEF Join, FallAsleep
<1>6. \A t \in Threads, u \in Threads : Wakeup(t, u) => OwnersRelease'
  BY DEF Wakeup, Interrupted
<1>7. \A t \in Threads, u \in Threads : Raise(t, u) => OwnersRelease'
  BY DEF Raise, RaiseTo, Interrupted
<1>8. \A t \in Threads : Stop(t) => OwnersRelease'
  BY DEF Stop, FallAsleep
<1>9. \A t \in Threads : End(t) => OwnersRelease'
  BY DEF End, Signal, Interrupted
<1>10. \A t \in Threads : Fork(t) => OwnersRelease'
  BY DEF Fork, Abandoned
<1>11. \A t \in Threads : Switch(t) => OwnersRelease'
  BY DEF Switch, GVL!Free
<1>12. \A t \in Threads : Resume(t) => OwnersRelease'
  BY DEF Resume, GVL!Grant
<1>13. \A t \in Threads : CheckInts(t) => OwnersRelease'
  BY DEF CheckInts, EnterLock
<1>14. \A t \in Threads : Ended(t) => OwnersRelease'
  BY DEF Ended, CheckDeadlock, RaiseTo, Interrupted, GVL!Free
<1>15. \A t \in Threads : SpuriousWakeup(t) => OwnersRelease'
  BY DEF SpuriousWakeup
<1>16. \A t \in Threads : Block(t) => OwnersRelease'
  BY DEF Block, Wait, GVL!Free
<1>17. \A t \in Threads, b \in BOOLEAN : LockFunc(t, b) => OwnersRelease'
  BY DEF LockFunc, Outcome
<1>18. \A t \in Threads : Relock(t) => OwnersRelease'
  BY DEF Relock, CheckDeadlock, RaiseTo, Interrupted, GVL!Grant
<1>19. \A t \in Threads : Relocked(t) => OwnersRelease'
  BY DEF Relocked
<1>20. \A t \in Threads : GoToSleep(t) => OwnersRelease'
  BY DEF GoToSleep, CheckDeadlock, RaiseTo, Interrupted, GVL!Free
<1>21. \A t \in Threads : WakeUp(t) => OwnersRelease'
  BY DEF WakeUp, GVL!Grant
<1>22. \A t \in Threads : LeaveSleep(t) => OwnersRelease'
  BY SMTT(20) DEF LeaveSleep, EnterLock, FallAsleep
<1> QED
  BY <1>1, <1>2, <1>3, <1>4, <1>5, <1>6, <1>7, <1>8, <1>9, <1>10, <1>11, <1>12,
     <1>13, <1>14, <1>15, <1>16, <1>17, <1>18, <1>19, <1>20, <1>21, <1>22, Zenon DEF Next, Call

\* An interrupt stays until its thread looks for interrupts, and a thread that is
\* joined wakes up those that join it when it leaves living_threads.
LEMMA FlagsStep ==
  TypeOK /\ Control /\ Flags /\ [Next]_vars => Flags'
<1> SUFFICES ASSUME TypeOK, Control, Flags, [Next]_vars PROVE Flags'
  BY Zenon
<1> USE DEF Flags, Control, TypeOK, AtHand, Gone, InLock, InSleep, GoTo, AtCheck, Running,
            threads, mutexes, signals, watch
<1>1. UNCHANGED vars => Flags'
  BY DEF vars
<1>2. \A t \in Threads, m \in Mutexes : Lock(t, m) => Flags'
  BY DEF Lock, EnterLock
<1>3. \A t \in Threads, m \in Mutexes : Unlock(t, m) => Flags'
  BY Zenon DEF Unlock, Release, Signal
<1>4. \A t \in Threads, m \in Mutexes : MutexSleep(t, m) => Flags'
  BY DEF MutexSleep, FallAsleep, Release, Signal
<1>5. \A t \in Threads, u \in Threads : Join(t, u) => Flags'
  BY DEF Join, FallAsleep
<1>6. \A t \in Threads, u \in Threads : Wakeup(t, u) => Flags'
  BY Zenon DEF Wakeup, Interrupted
<1>7. \A t \in Threads, u \in Threads : Raise(t, u) => Flags'
  BY DEF Raise, RaiseTo, Interrupted
<1>8. \A t \in Threads : Stop(t) => Flags'
  BY DEF Stop, FallAsleep
<1>9. \A t \in Threads : End(t) => Flags'
  BY DEF End, Signal, Interrupted
<1>10. \A t \in Threads : Fork(t) => Flags'
  BY DEF Fork
<1>11. \A t \in Threads : Switch(t) => Flags'
  BY Zenon DEF Switch, GVL!Free
<1>12. \A t \in Threads : Resume(t) => Flags'
  BY Zenon DEF Resume, GVL!Grant
<1>13. \A t \in Threads : CheckInts(t) => Flags'
  BY DEF CheckInts, EnterLock
<1>14. \A t \in Threads : Ended(t) => Flags'
  BY DEF Ended, CheckDeadlock, RaiseTo, Interrupted, GVL!Free
<1>15. \A t \in Threads : SpuriousWakeup(t) => Flags'
  BY DEF SpuriousWakeup
<1>16. \A t \in Threads : Block(t) => Flags'
  BY DEF Block, Wait, GVL!Free
<1>17. \A t \in Threads, b \in BOOLEAN : LockFunc(t, b) => Flags'
  BY DEF LockFunc, Outcome
<1>18. \A t \in Threads : Relock(t) => Flags'
  BY DEF Relock, CheckDeadlock, RaiseTo, Interrupted, GVL!Grant
<1>19. \A t \in Threads : Relocked(t) => Flags'
  BY DEF Relocked
<1>20. \A t \in Threads : GoToSleep(t) => Flags'
  BY DEF GoToSleep, CheckDeadlock, RaiseTo, Interrupted, GVL!Free
<1>21. \A t \in Threads : WakeUp(t) => Flags'
  BY DEF WakeUp, GVL!Grant
<1>22. \A t \in Threads : LeaveSleep(t) => Flags'
  BY DEF LeaveSleep, EnterLock, FallAsleep
<1> QED
  BY <1>1, <1>2, <1>3, <1>4, <1>5, <1>6, <1>7, <1>8, <1>9, <1>10, <1>11, <1>12,
     <1>13, <1>14, <1>15, <1>16, <1>17, <1>18, <1>19, <1>20, <1>21, <1>22, Zenon DEF Next, Call

-----------------------------------------------------------------------------
\* The sets that are counted are finite.
LEMMA CountsFinite ==
  ASSUME NEW S, S \subseteq Threads
  PROVE  IsFiniteSet(S) /\ Cardinality(S) \in Nat /\ Cardinality(S) <= Cardinality(Threads)
BY FS_Subset, FS_CardinalityType, Zenon

\* Steps that no waiter takes leave the counts of waiters right.
LEMMA SameWaiters ==
  ASSUME TypeOK, WaitersCounted, cond_waiting' = cond_waiting,
         \A u \in Threads : /\ pc'[u] = "waiting" <=> pc[u] = "waiting"
                            /\ pc[u] = "waiting" => arg'[u] = arg[u]
                            /\ pc[u] = "dead" => pc'[u] = "dead"
  PROVE  WaitersCounted'
<1> SUFFICES ASSUME NEW m \in Mutexes
             PROVE  /\ Cardinality(Waiters(m)') <= cond_waiting[m]
                    /\ cond_waiting[m] <= Cardinality(DeadOrWaiting(m)')
  BY Zenon DEF WaitersCounted
<1>1. Waiters(m)' = Waiters(m) /\ DeadOrWaiting(m) \subseteq DeadOrWaiting(m)'
  BY Zenon DEF Waiters, DeadOrWaiting
<1>2. DeadOrWaiting(m)' \subseteq Threads
  BY Zenon DEF Waiters, DeadOrWaiting
<1>3. Cardinality(DeadOrWaiting(m)) <= Cardinality(DeadOrWaiting(m)')
  BY <1>1, <1>2, CountsFinite, FS_Subset, Zenon
<1>4. /\ cond_waiting[m] \in Nat /\ Cardinality(DeadOrWaiting(m)) \in Nat
      /\ Cardinality(DeadOrWaiting(m)') \in Nat
  BY <1>1, <1>2, CountsFinite DEF TypeOK
<1> QED
  BY <1>1, <1>3, <1>4 DEF WaitersCounted

\* lock_func counts a waiter in before its first wait.
LEMMA WaiterAdded ==
  ASSUME TypeOK, WaitersCounted, NEW t \in Threads, NEW m \in Mutexes,
         pc[t] \notin {"waiting", "dead"}, arg[t] = m, arg' = arg,
         pc' = [pc EXCEPT ![t] = "waiting"],
         cond_waiting' = [cond_waiting EXCEPT ![m] = @ + 1]
  PROVE  WaitersCounted'
<1> SUFFICES ASSUME NEW n \in Mutexes
             PROVE  /\ Cardinality(Waiters(n)') <= cond_waiting'[n]
                    /\ cond_waiting'[n] <= Cardinality(DeadOrWaiting(n)')
  BY Zenon DEF WaitersCounted
<1>1. /\ Waiters(n) \subseteq Threads /\ DeadOrWaiting(n) \subseteq Threads
      /\ t \notin DeadOrWaiting(n) /\ t \notin Waiters(n)
  BY Zenon DEF Waiters, DeadOrWaiting
<1>2. /\ IsFiniteSet(Waiters(n)) /\ IsFiniteSet(DeadOrWaiting(n))
      /\ Cardinality(Waiters(n)) \in Nat /\ Cardinality(DeadOrWaiting(n)) \in Nat
      /\ cond_waiting[n] \in Nat
  BY <1>1, CountsFinite DEF TypeOK
<1>3. CASE n = m
  <2>1. /\ Waiters(n)' = Waiters(n) \cup {t}
        /\ DeadOrWaiting(n)' = DeadOrWaiting(n) \cup {t}
    BY <1>3 DEF Waiters, DeadOrWaiting, TypeOK
  <2>2. cond_waiting'[n] = cond_waiting[n] + 1
    BY <1>3, Zenon DEF TypeOK
  <2>3. /\ Cardinality(Waiters(n)') = Cardinality(Waiters(n)) + 1
        /\ Cardinality(DeadOrWaiting(n)') = Cardinality(DeadOrWaiting(n)) + 1
    BY <1>1, <1>2, <2>1, FS_AddElement, Zenon
  <2> QED
    BY <1>2, <2>2, <2>3 DEF WaitersCounted
<1>4. CASE n # m
  <2>1. Waiters(n)' = Waiters(n) /\ DeadOrWaiting(n)' = DeadOrWaiting(n)
    BY <1>4, Zenon DEF Waiters, DeadOrWaiting, TypeOK
  <2>2. cond_waiting'[n] = cond_waiting[n]
    BY <1>4, Zenon DEF TypeOK
  <2> QED
    BY <2>1, <2>2, Zenon DEF WaitersCounted
<1> QED
  BY <1>3, <1>4, Zenon

\* lock_func counts a waiter out after its last wait.
LEMMA WaiterRemoved ==
  ASSUME TypeOK, WaitersCounted, NEW t \in Threads, NEW m \in Mutexes,
         pc[t] = "waiting", arg[t] = m, arg' = arg,
         NEW where, where \notin {"waiting", "dead"},
         pc' = [pc EXCEPT ![t] = where],
         cond_waiting' = [cond_waiting EXCEPT ![m] = @ - 1]
  PROVE  WaitersCounted'
<1> SUFFICES ASSUME NEW n \in Mutexes
             PROVE  /\ Cardinality(Waiters(n)') <= cond_waiting'[n]
                    /\ cond_waiting'[n] <= Cardinality(DeadOrWaiting(n)')
  BY Zenon DEF WaitersCounted
<1>1. /\ Waiters(n) \subseteq Threads /\ DeadOrWaiting(n) \subseteq Threads
  BY Zenon DEF Waiters, DeadOrWaiting
<1>2. /\ IsFiniteSet(Waiters(n)) /\ IsFiniteSet(DeadOrWaiting(n))
      /\ Cardinality(Waiters(n)) \in Nat /\ Cardinality(DeadOrWaiting(n)) \in Nat
      /\ cond_waiting[n] \in Nat
  BY <1>1, CountsFinite DEF TypeOK
<1>3. CASE n = m
  <2>1. /\ t \in Waiters(n) /\ Waiters(n)' = Waiters(n) \ {t}
        /\ t \in DeadOrWaiting(n) /\ DeadOrWaiting(n)' = DeadOrWaiting(n) \ {t}
    BY <1>3, Zenon DEF Waiters, DeadOrWaiting, TypeOK
  <2>2. cond_waiting'[n] = cond_waiting[n] - 1
    BY <1>3, Zenon DEF TypeOK
  <2>3. /\ Cardinality(Waiters(n)') = Cardinality(Waiters(n)) - 1
        /\ Cardinality(DeadOrWaiting(n)') = Cardinality(DeadOrWaiting(n)) - 1
    BY <1>1, <1>2, <2>1, FS_RemoveElement, ZenonT(30)
  <2> QED
    BY <1>2, <2>2, <2>3 DEF WaitersCounted
<1>4. CASE n # m
  <2>1. Waiters(n)' = Waiters(n) /\ DeadOrWaiting(n)' = DeadOrWaiting(n)
    BY <1>4, Zenon DEF Waiters, DeadOrWaiting, TypeOK
  <2>2. cond_waiting'[n] = cond_waiting[n]
    BY <1>4, Zenon DEF TypeOK
  <2> QED
    BY <2>1, <2>2, Zenon DEF WaitersCounted
<1> QED
  BY <1>3, <1>4, Zenon

\* A waiter is counted.
LEMMA WaiterCounted ==
  ASSUME TypeOK, WaitersCounted, NEW t \in Threads, NEW m \in Mutexes,
         pc[t] = "waiting", arg[t] = m
  PROVE  cond_waiting[m] > 0
<1>1. t \in Waiters(m) /\ Waiters(m) \subseteq Threads
  BY Zenon DEF Waiters
<1>2. IsFiniteSet(Waiters(m)) /\ Cardinality(Waiters(m)) \in Nat
  BY <1>1, CountsFinite, Zenon
<1>3. Cardinality(Waiters(m)) # 0
  BY <1>1, <1>2, FS_EmptySet, Zenon
<1> QED
  BY <1>2, <1>3 DEF WaitersCounted, TypeOK

\* cond_waiting stays between its two bounds.
LEMMA CountStep ==
  TypeOK /\ Control /\ WaitersCounted /\ [Next]_vars => WaitersCounted'
<1> SUFFICES ASSUME TypeOK, Control, WaitersCounted, [Next]_vars PROVE WaitersCounted'
  BY Zenon
<1> USE DEF Control, TypeOK, AtHand, Gone, InLock, InSleep, GoTo, AtCheck, Running,
            threads, mutexes, signals, watch
<1>1. CASE UNCHANGED vars
  BY <1>1, SameWaiters, Zenon DEF vars
<1>2. \A t \in Threads, m \in Mutexes : Lock(t, m) => WaitersCounted'
  BY SameWaiters DEF Lock, EnterLock
<1>3. \A t \in Threads, m \in Mutexes : Unlock(t, m) => WaitersCounted'
  BY SameWaiters, Zenon DEF Unlock, Release, Signal
<1>4. \A t \in Threads, m \in Mutexes : MutexSleep(t, m) => WaitersCounted'
  BY SameWaiters DEF MutexSleep, FallAsleep, Release, Signal
<1>5. \A t \in Threads, u \in Threads : Join(t, u) => WaitersCounted'
  BY SameWaiters DEF Join, FallAsleep
<1>6. \A t \in Threads, u \in Threads : Wakeup(t, u) => WaitersCounted'
  BY SameWaiters, Zenon DEF Wakeup, Interrupted
<1>7. \A t \in Threads, u \in Threads : Raise(t, u) => WaitersCounted'
  BY SameWaiters, Zenon DEF Raise, RaiseTo, Interrupted
<1>8. \A t \in Threads : Stop(t) => WaitersCounted'
  BY SameWaiters DEF Stop, FallAsleep
<1>9. \A t \in Threads : End(t) => WaitersCounted'
  BY SameWaiters DEF End, Signal, Interrupted
<1>10. ASSUME NEW t \in Threads, Fork(t) PROVE WaitersCounted'
  <2> SUFFICES ASSUME NEW m \in Mutexes
               PROVE  /\ Cardinality(Waiters(m)') <= cond_waiting[m]
                      /\ cond_waiting[m] <= Cardinality(DeadOrWaiting(m)')
    BY <1>10, Zenon DEF Fork, WaitersCounted
  <2>1. Waiters(m)' = {} /\ DeadOrWaiting(m) \subseteq DeadOrWaiting(m)'
    BY <1>10, Zenon DEF Fork, Waiters, DeadOrWaiting
  <2>2. DeadOrWaiting(m)' \subseteq Threads
    BY Zenon DEF Waiters, DeadOrWaiting
  <2>3. /\ Cardinality(Waiters(m)') = 0 /\ cond_waiting[m] \in Nat
        /\ Cardinality(DeadOrWaiting(m)) <= Cardinality(DeadOrWaiting(m)')
    BY <2>1, <2>2, CountsFinite, FS_Subset, FS_EmptySet
  <2>4. /\ Cardinality(DeadOrWaiting(m)) \in Nat
        /\ Cardinality(DeadOrWaiting(m)') \in Nat
    BY <2>1, <2>2, CountsFinite, Zenon
  <2> QED
    BY <2>3, <2>4 DEF WaitersCounted
<1>11. \A t \in Threads : Switch(t) => WaitersCounted'
  BY SameWaiters, Zenon DEF Switch, GVL!Free
<1>12. \A t \in Threads : Resume(t) => WaitersCounted'
  BY SameWaiters, Zenon DEF Resume, GVL!Grant
<1>13. \A t \in Threads : CheckInts(t) => WaitersCounted'
  BY SameWaiters DEF CheckInts, EnterLock
<1>14. \A t \in Threads : Ended(t) => WaitersCounted'
  BY SameWaiters DEF Ended, CheckDeadlock, RaiseTo, Interrupted, GVL!Free
<1>15. \A t \in Threads : SpuriousWakeup(t) => WaitersCounted'
  BY SameWaiters, Zenon DEF SpuriousWakeup
<1>16. ASSUME NEW t \in Threads, Block(t) PROVE WaitersCounted'
  <2>1. CASE th[arg[t]] = NULL
    BY <1>16, <2>1, SameWaiters DEF Block, GVL!Free
  <2>2. CASE th[arg[t]] # NULL
    BY <1>16, <2>2, WaiterAdded, Zenon DEF Block, Wait, GVL!Free
  <2> QED
    BY <2>1, <2>2, Zenon
<1>17. ASSUME NEW t \in Threads, NEW b \in BOOLEAN, LockFunc(t, b) PROVE WaitersCounted'
  <2>1. CASE Outcome(t, b) = "waiting"
    BY <1>17, <2>1, SameWaiters DEF LockFunc
  <2>2. CASE Outcome(t, b) # "waiting"
    <3>1. Outcome(t, b) \in {"locked", "interrupted", "timedout"}
      BY <1>17, <2>2, Zenon DEF Outcome
    <3> QED
      BY <1>17, <2>2, <3>1, WaiterRemoved, Zenon DEF LockFunc
  <2> QED
    BY <2>1, <2>2, Zenon
<1>18. \A t \in Threads : Relock(t) => WaitersCounted'
  BY SameWaiters DEF Relock, CheckDeadlock, RaiseTo, Interrupted, GVL!Grant
<1>19. \A t \in Threads : Relocked(t) => WaitersCounted'
  BY SameWaiters DEF Relocked
<1>20. \A t \in Threads : GoToSleep(t) => WaitersCounted'
  BY SameWaiters DEF GoToSleep, CheckDeadlock, RaiseTo, Interrupted, GVL!Free
<1>21. \A t \in Threads : WakeUp(t) => WaitersCounted'
  BY SameWaiters DEF WakeUp, GVL!Grant
<1>22. \A t \in Threads : LeaveSleep(t) => WaitersCounted'
  BY SameWaiters DEF LeaveSleep, EnterLock, FallAsleep
<1> QED
  BY <1>1, <1>2, <1>3, <1>4, <1>5, <1>6, <1>7, <1>8, <1>9, <1>10, <1>11, <1>12,
     <1>13, <1>14, <1>15, <1>16, <1>17, <1>18, <1>19, <1>20, <1>21, <1>22, Zenon DEF Next, Call

\* The bounds on cond_waiting give its type.
LEMMA CountType ==
  ASSUME cond_waiting' \in [Mutexes -> Int], WaitersCounted'
  PROVE  cond_waiting' \in [Mutexes -> 0 .. Cardinality(Threads)]
<1> SUFFICES ASSUME NEW m \in Mutexes PROVE cond_waiting'[m] \in 0 .. Cardinality(Threads)
  BY Zenon
<1>1. Waiters(m)' \subseteq Threads /\ DeadOrWaiting(m)' \subseteq Threads
  BY Zenon DEF Waiters, DeadOrWaiting
<1>2. /\ Cardinality(Waiters(m)') \in Nat /\ Cardinality(DeadOrWaiting(m)') \in Nat
      /\ Cardinality(DeadOrWaiting(m)') <= Cardinality(Threads)
      /\ Cardinality(Threads) \in Nat
  BY <1>1, CountsFinite, Zenon
<1>3. /\ Cardinality(Waiters(m)') <= cond_waiting'[m]
      /\ cond_waiting'[m] <= Cardinality(DeadOrWaiting(m)')
  BY Zenon DEF WaitersCounted
<1> QED
  BY <1>2, <1>3

\* The exception of a report finds an empty queue, since rb_check_deadlock takes no
\* interrupted thread for dead.
LEMMA CheckDeadlockType ==
  ASSUME TypeOK, Control, Flags, NEW t \in Threads, NEW count \in Int, CheckDeadlock(t, count)
  PROVE  /\ interrupt' \subseteq Threads /\ pending' \in [Threads -> 0 .. 1]
         /\ cond' \subseteq cond /\ sleeper' \in Int /\ reports' \in Nat
<1>1. CASE UNCHANGED <<signals, cond, reports>> /\ sleeper' = count
  BY <1>1, Zenon DEF signals, TypeOK
<1>2. CASE /\ \A u \in living : NotFound(u)
           /\ RaiseTo(t, main_thread) /\ sleeper' = count - 1 /\ reports' = reports + 1
  <2>1. pending[main_thread] = 0
    BY <1>2, Zenon DEF NotFound, Control, Flags, TypeOK
  <2>2. pending' = [pending EXCEPT ![main_thread] = 1]
    BY <1>2, <2>1 DEF RaiseTo
  <2>3. pending' \in [Threads -> 0 .. 1]
    BY <2>2 DEF TypeOK
  <2>4. interrupt' \subseteq Threads /\ cond' \subseteq cond
    BY <1>2, Zenon DEF RaiseTo, Interrupted, TypeOK
  <2> QED
    BY <1>2, <2>3, <2>4 DEF TypeOK
<1> QED
  BY <1>1, <1>2, Zenon DEF CheckDeadlock

\* The types of the variables.
LEMMA TypeStep ==
  TypeOK /\ Control /\ Flags /\ WaitersCounted /\ [Next]_vars => TypeOK'
<1> SUFFICES ASSUME TypeOK, Control, Flags, WaitersCounted, [Next]_vars PROVE TypeOK'
  BY Zenon
<1> USE DEF Control, TypeOK, AtHand, Gone, InLock, InSleep, GoTo, AtCheck, Running, Flags, threads, mutexes, signals, watch
<1>1. UNCHANGED vars => TypeOK'
  BY DEF vars
<1>2. \A t \in Threads, m \in Mutexes : Lock(t, m) => TypeOK'
  BY DEF Lock, EnterLock
<1>3. \A t \in Threads, m \in Mutexes : Unlock(t, m) => TypeOK'
  BY DEF Unlock, Release, Signal
<1>4. \A t \in Threads, m \in Mutexes : MutexSleep(t, m) => TypeOK'
  BY DEF MutexSleep, FallAsleep, Release, Signal
<1>5. \A t \in Threads, u \in Threads : Join(t, u) => TypeOK'
  BY DEF Join, FallAsleep
<1>6. \A t \in Threads, u \in Threads : Wakeup(t, u) => TypeOK'
  BY DEF Wakeup, Interrupted
<1>7. \A t \in Threads, u \in Threads : Raise(t, u) => TypeOK'
  BY DEF Raise, RaiseTo, Interrupted
<1>8. \A t \in Threads : Stop(t) => TypeOK'
  BY DEF Stop, FallAsleep
<1>9. \A t \in Threads : End(t) => TypeOK'
  BY DEF End, Signal, Interrupted
<1>10. \A t \in Threads : Fork(t) => TypeOK'
  BY DEF Fork
<1>11. \A t \in Threads : Switch(t) => TypeOK'
  BY DEF Switch, GVL!Free
<1>12. \A t \in Threads : Resume(t) => TypeOK'
  BY DEF Resume, GVL!Grant
<1>13. \A t \in Threads : CheckInts(t) => TypeOK'
  BY DEF CheckInts, EnterLock
<1>14. \A t \in Threads : Ended(t) => TypeOK'
  BY CheckDeadlockType DEF Ended, GVL!Free
<1>15. \A t \in Threads : SpuriousWakeup(t) => TypeOK'
  BY DEF SpuriousWakeup
<1>16. ASSUME NEW t \in Threads, Block(t) PROVE TypeOK'
  <2>1. WaitersCounted'
    BY <1>16, CountStep, Zenon DEF Next
  <2>2. cond_waiting' \in [Mutexes -> 0 .. Cardinality(Threads)]
    <3>1. cond_waiting' \in [Mutexes -> Int]
      BY <1>16 DEF Block, Wait
    <3> QED
      BY <2>1, <3>1, CountType, Zenon
  <2> QED
    BY <1>16, <2>2 DEF Block, Wait, Patrol, GVL!Free
<1>17. ASSUME NEW t \in Threads, NEW b \in BOOLEAN, LockFunc(t, b) PROVE TypeOK'
  <2>1. WaitersCounted'
    BY <1>17, CountStep, Zenon DEF Next
  <2>2. cond_waiting' \in [Mutexes -> 0 .. Cardinality(Threads)]
    <3>1. cond_waiting' \in [Mutexes -> Int]
      BY <1>17 DEF LockFunc
    <3> QED
      BY <2>1, <3>1, CountType, Zenon
  <2>3. Outcome(t, b) \in InLock
    BY Zenon DEF Outcome
  <2> QED
    BY <1>17, <2>2, <2>3, SMTT(20) DEF LockFunc
<1>18. \A t \in Threads : Relock(t) => TypeOK'
  BY CheckDeadlockType DEF Relock, GVL!Grant
<1>19. \A t \in Threads : Relocked(t) => TypeOK'
  BY DEF Relocked
<1>20. \A t \in Threads : GoToSleep(t) => TypeOK'
  BY CheckDeadlockType DEF GoToSleep, GVL!Free
<1>21. \A t \in Threads : WakeUp(t) => TypeOK'
  BY DEF WakeUp, GVL!Grant
<1>22. \A t \in Threads : LeaveSleep(t) => TypeOK'
  BY DEF LeaveSleep, EnterLock, FallAsleep
<1> QED
  BY <1>1, <1>2, <1>3, <1>4, <1>5, <1>6, <1>7, <1>8, <1>9, <1>10, <1>11, <1>12,
     <1>13, <1>14, <1>15, <1>16, <1>17, <1>18, <1>19, <1>20, <1>21, <1>22, Zenon DEF Next, Call

-----------------------------------------------------------------------------
\* native_cond_signal wakes up a thread that waits for the mutex, if there is one,
\* and only such threads.
LEMMA SignalWakes ==
  ASSUME NEW ms \in SUBSET Mutexes, NEW c \in SUBSET Threads, NEW d \in Signal(ms, c),
         NEW m \in ms, cond_waiting[m] > 0, NEW u \in c, arg[u] = m
  PROVE  \E v \in c \ d : arg[v] = m
<1> DEFINE w == {t \in c : arg[t] = m}
<1>1. w # {} /\ w \subseteq c
  BY Zenon
<1>2. Cardinality(w \ d) = 1
  BY <1>1, Zenon DEF Signal
<1>3. w \ d # {}
  BY <1>2, FS_EmptySet
<1> QED
  BY <1>3

\* When the mutexes ms become free and are signalled, each of them has a waiter that
\* is awake, or none.
LEMMA SignalKeepsWakeup ==
  ASSUME TypeOK, Control, WaitersCounted, NoLostWakeup,
         NEW ms \in SUBSET Mutexes, NEW c \in SUBSET cond, cond' \in Signal(ms, c),
         \A m \in Mutexes \ ms : th'[m] = NULL => th[m] = NULL,
         living' \subseteq living,
         \A t \in living : /\ pc'[t] = "waiting" <=> pc[t] = "waiting"
                           /\ pc[t] = "waiting" => t \in living' /\ arg'[t] = arg[t]
  PROVE  NoLostWakeup'
<1> SUFFICES ASSUME NEW m \in Mutexes, th'[m] = NULL,
                    NEW t \in living', pc'[t] = "waiting", arg'[t] = m
             PROVE  \E v \in living' : pc'[v] = "waiting" /\ arg'[v] = m /\ v \notin cond'
  BY DEF NoLostWakeup
<1>1. t \in Threads /\ pc[t] = "waiting" /\ arg[t] = m
  BY Zenon DEF TypeOK
<1>2. cond_waiting[m] > 0
  BY <1>1, WaiterCounted, Zenon
<1>3. cond' \subseteq c
  BY Zenon DEF Signal
<1>4. CASE m \in ms
  <2>1. CASE t \in c
    <3>1. PICK v \in c \ cond' : arg[v] = m
      BY <1>1, <1>2, <1>4, <2>1, SignalWakes DEF TypeOK
    <3> QED
      BY <3>1, Zenon DEF TypeOK, Control, Gone
  <2>2. CASE t \notin c
    BY <1>3, <2>2, Zenon
  <2> QED
    BY <2>1, <2>2, Zenon
<1>5. CASE m \notin ms
  <2>1. PICK v \in living : pc[v] = "waiting" /\ arg[v] = m /\ v \notin cond
    BY <1>1, <1>5 DEF NoLostWakeup
  <2> QED
    BY <1>3, <2>1, Zenon
<1> QED
  BY <1>4, <1>5, Zenon

\* No step leaves a free mutex with waiters that all sleep.
LEMMA WakeupStep ==
  TypeOK /\ Control /\ WaitersCounted /\ NoLostWakeup /\ [Next]_vars => NoLostWakeup'
<1> SUFFICES ASSUME TypeOK, Control, WaitersCounted, NoLostWakeup, [Next]_vars PROVE NoLostWakeup'
  BY Zenon
<1> USE DEF Control, TypeOK, AtHand, Gone, InLock, InSleep, GoTo, AtCheck, Running,
            threads, mutexes, signals, watch
<1>1. CASE UNCHANGED vars
  BY <1>1 DEF NoLostWakeup, vars
<1>2. \A t \in Threads, m \in Mutexes : Lock(t, m) => NoLostWakeup'
  BY DEF NoLostWakeup, Lock, EnterLock
<1>3. ASSUME NEW t \in Threads, NEW m \in Mutexes, Unlock(t, m) PROVE NoLostWakeup'
  <2>1. /\ cond' \in Signal({m}, cond) /\ th' = [th EXCEPT ![m] = NULL] /\ living' = living
        /\ \A u \in living : /\ pc'[u] = "waiting" <=> pc[u] = "waiting"
                             /\ pc[u] = "waiting" => u \in living' /\ arg'[u] = arg[u]
    BY <1>3, Zenon DEF Unlock, Release
  <2>2. \A n \in Mutexes \ {m} : th'[n] = NULL => th[n] = NULL
    BY <2>1, SMTT(20)
  <2> QED
    <3> HIDE DEF TypeOK, Control
    <3> QED BY <2>1, <2>2, SignalKeepsWakeup, ZenonT(30)
<1>4. ASSUME NEW t \in Threads, NEW m \in Mutexes, MutexSleep(t, m) PROVE NoLostWakeup'
  <2>1. /\ cond' \in Signal({m}, cond) /\ th' = [th EXCEPT ![m] = NULL] /\ living' = living
        /\ \A u \in living : /\ pc'[u] = "waiting" <=> pc[u] = "waiting"
                             /\ pc[u] = "waiting" => u \in living' /\ arg'[u] = arg[u]
    BY <1>4 DEF MutexSleep, Release, FallAsleep
  <2>2. \A n \in Mutexes \ {m} : th'[n] = NULL => th[n] = NULL
    BY <2>1, SMTT(20)
  <2> QED
    <3> HIDE DEF TypeOK, Control
    <3> QED BY <2>1, <2>2, SignalKeepsWakeup, ZenonT(30)
<1>5. \A t \in Threads, u \in Threads : Join(t, u) => NoLostWakeup'
  BY DEF NoLostWakeup, Join, FallAsleep
<1>6. \A t \in Threads, u \in Threads : Wakeup(t, u) => NoLostWakeup'
  BY DEF NoLostWakeup, Wakeup, Interrupted
<1>7. \A t \in Threads, u \in Threads : Raise(t, u) => NoLostWakeup'
  BY DEF NoLostWakeup, Raise, RaiseTo, Interrupted
<1>8. \A t \in Threads : Stop(t) => NoLostWakeup'
  BY DEF NoLostWakeup, Stop, FallAsleep
<1>9. ASSUME NEW t \in Threads, End(t) PROVE NoLostWakeup'
  <2>1. PICK woken : cond' \in Signal(keeping_mutexes[t], Interrupted(woken, cond))
    BY <1>9, Zenon DEF End
  <2>2. Interrupted(woken, cond) \subseteq cond
    BY Zenon DEF Interrupted
  <2>3. /\ \A m \in Mutexes \ keeping_mutexes[t] : th'[m] = NULL => th[m] = NULL
        /\ living' \subseteq living
        /\ \A u \in living : /\ pc'[u] = "waiting" <=> pc[u] = "waiting"
                             /\ pc[u] = "waiting" => u \in living' /\ arg'[u] = arg[u]
    BY <1>9, Zenon DEF End
  <2> QED
    BY <2>1, <2>2, <2>3, SignalKeepsWakeup, ZenonT(30)
<1>10. \A t \in Threads : Fork(t) => NoLostWakeup'
  BY DEF NoLostWakeup, Fork
<1>11. \A t \in Threads : Switch(t) => NoLostWakeup'
  BY DEF NoLostWakeup, Switch, GVL!Free
<1>12. \A t \in Threads : Resume(t) => NoLostWakeup'
  BY DEF NoLostWakeup, Resume, GVL!Grant
<1>13. \A t \in Threads : CheckInts(t) => NoLostWakeup'
  BY DEF NoLostWakeup, CheckInts, EnterLock
<1>14. \A t \in Threads : Ended(t) => NoLostWakeup'
  BY DEF NoLostWakeup, Ended, CheckDeadlock, RaiseTo, Interrupted, GVL!Free
<1>15. \A t \in Threads : SpuriousWakeup(t) => NoLostWakeup'
  BY DEF NoLostWakeup, SpuriousWakeup
<1>16. \A t \in Threads : Block(t) => NoLostWakeup'
  BY DEF NoLostWakeup, Block, Wait, GVL!Free
<1>17. \A t \in Threads, b \in BOOLEAN : LockFunc(t, b) => NoLostWakeup'
  BY DEF NoLostWakeup, LockFunc, Outcome
<1>18. \A t \in Threads : Relock(t) => NoLostWakeup'
  BY DEF NoLostWakeup, Relock, CheckDeadlock, RaiseTo, Interrupted, GVL!Grant
<1>19. \A t \in Threads : Relocked(t) => NoLostWakeup'
  BY DEF NoLostWakeup, Relocked
<1>20. \A t \in Threads : GoToSleep(t) => NoLostWakeup'
  BY DEF NoLostWakeup, GoToSleep, CheckDeadlock, RaiseTo, Interrupted, GVL!Free
<1>21. \A t \in Threads : WakeUp(t) => NoLostWakeup'
  BY DEF NoLostWakeup, WakeUp, GVL!Grant
<1>22. \A t \in Threads : LeaveSleep(t) => NoLostWakeup'
  BY DEF NoLostWakeup, LeaveSleep, EnterLock, FallAsleep
<1> QED
  BY <1>1, <1>2, <1>3, <1>4, <1>5, <1>6, <1>7, <1>8, <1>9, <1>10, <1>11, <1>12,
     <1>13, <1>14, <1>15, <1>16, <1>17, <1>18, <1>19, <1>20, <1>21, <1>22, Zenon DEF Next, Call

-----------------------------------------------------------------------------
\* The program starts with all threads running and all mutexes free.
LEMMA InitInv == Init => IInv
<1> SUFFICES ASSUME Init PROVE IInv
  BY Zenon
<1>1. TypeOK
  BY CountsFinite DEF Init, TypeOK
<1>2. Control /\ Flags /\ OwnersRelease /\ NoLostWakeup
  BY Zenon DEF Init, Control, Flags, OwnersRelease, NoLostWakeup, Gone, AtHand, InLock, InSleep
<1>3. WaitersCounted
  <2> SUFFICES ASSUME NEW m \in Mutexes
               PROVE  /\ Cardinality(Waiters(m)) <= cond_waiting[m]
                      /\ cond_waiting[m] <= Cardinality(DeadOrWaiting(m))
    BY Zenon DEF WaitersCounted
  <2>1. Waiters(m) = {} /\ DeadOrWaiting(m) = {} /\ cond_waiting[m] = 0
    BY Zenon DEF Init, Waiters, DeadOrWaiting
  <2> QED
    BY <2>1, FS_EmptySet
<1> QED
  BY <1>1, <1>2, <1>3, Zenon DEF IInv

\* IInv is inductive.
LEMMA StepInv == IInv /\ [Next]_vars => IInv'
BY TypeStep, ControlStep, FlagsStep, OwnersStep, CountStep, WakeupStep, Zenon DEF IInv

\* IInv holds in every state that the threads can reach.
THEOREM Inductive == Spec => []IInv
BY InitInv, StepInv, PTL DEF Spec

\* The variables have their types; in particular cond_waiting never becomes negative
\* and no second exception is queued by a deadlock report.
THEOREM TypeCorrect == Spec => []TypeOK
<1>1. IInv => TypeOK
  BY Zenon DEF IInv
<1> QED
  BY <1>1, Inductive, PTL

\* No end of a thread, exception or fork leaves a mutex locked: every owner is alive
\* and has the mutex in the list that releases it, or is on its way there from lock_func.
THEOREM OwnersReleaseAlways == Spec => []OwnersRelease
<1>1. IInv => OwnersRelease
  BY Zenon DEF IInv
<1> QED
  BY <1>1, Inductive, PTL

\* rb_mutex_unlock loses no wakeup: a free mutex that is waited for has a waiter
\* that is awake.
THEOREM WakeupsKept == Spec => []NoLostWakeup
<1>1. IInv => NoLostWakeup
  BY Zenon DEF IInv
<1> QED
  BY <1>1, Inductive, PTL

-----------------------------------------------------------------------------
Sleepers == {t \in living : pc[t] \in Counted}

\* A thread that lock_func has given its mutex owns it.
LockedOwns == \A t \in Threads : pc[t] = "locked" => th[arg[t]] = t

\* The patrol thread is in lock_func, or was when the process was forked; only it
\* can time out.
PatrolWaits ==
  /\ patrol_thread # NULL => pc[patrol_thread] \in InLock \cup {"dead"}
  /\ \A t \in Threads : pc[t] = "timedout" => patrol_thread = t

\* What rb_check_deadlock sees of a thread that is going to run again.
Unsettled(t) ==
  \/ t \in interrupt
  \/ pc[t] = "asleep" /\ t \notin stopped
  \/ pc[t] \in InLock /\ th[arg[t]] \in {NULL, t}

\* Once all threads are counted as asleep, one of them is the patrol or is going
\* to run again, or a deadlock has been reported.
Watched ==
  /\ gvl = NULL /\ reports = 0
  /\ \A t \in living : pc[t] \in Counted
  => patrol_thread # NULL \/ \E u \in living : Unsettled(u)

DInv == IInv /\ LockedOwns /\ SleeperCount /\ PatrolWaits /\ Watched

-----------------------------------------------------------------------------
\* Only the end of lock_func makes a thread "locked", and the mutex is its own then.
LEMMA LockedStep ==
  TypeOK /\ Control /\ OwnersRelease /\ LockedOwns /\ [Next]_vars => LockedOwns'
<1> SUFFICES ASSUME TypeOK, Control, OwnersRelease, LockedOwns, [Next]_vars PROVE LockedOwns'
  BY Zenon
<1> USE DEF LockedOwns, OwnersRelease, Control, TypeOK, AtHand, Gone, InLock, InSleep, GoTo, AtCheck, Running,
            threads, mutexes, signals, watch
<1>1. UNCHANGED vars => LockedOwns'
  BY Zenon DEF vars
<1>2. \A t \in Threads, m \in Mutexes : Lock(t, m) => LockedOwns'
  BY DEF Lock, EnterLock
<1>3. \A t \in Threads, m \in Mutexes : Unlock(t, m) => LockedOwns'
  BY DEF Unlock, Release, Signal
<1>4. \A t \in Threads, m \in Mutexes : MutexSleep(t, m) => LockedOwns'
  BY DEF MutexSleep, FallAsleep, Release, Signal
<1>5. \A t \in Threads, u \in Threads : Join(t, u) => LockedOwns'
  BY DEF Join, FallAsleep
<1>6. \A t \in Threads, u \in Threads : Wakeup(t, u) => LockedOwns'
  BY Zenon DEF Wakeup, Interrupted
<1>7. \A t \in Threads, u \in Threads : Raise(t, u) => LockedOwns'
  BY Zenon DEF Raise, RaiseTo, Interrupted
<1>8. \A t \in Threads : Stop(t) => LockedOwns'
  BY DEF Stop, FallAsleep
<1>9. \A t \in Threads : End(t) => LockedOwns'
  BY DEF End, Signal, Interrupted
<1>10. \A t \in Threads : Fork(t) => LockedOwns'
  BY DEF Fork
<1>11. \A t \in Threads : Switch(t) => LockedOwns'
  BY Zenon DEF Switch, GVL!Free
<1>12. \A t \in Threads : Resume(t) => LockedOwns'
  BY Zenon DEF Resume, GVL!Grant
<1>13. \A t \in Threads : CheckInts(t) => LockedOwns'
  BY DEF CheckInts, EnterLock
<1>14. \A t \in Threads : Ended(t) => LockedOwns'
  BY DEF Ended, CheckDeadlock, RaiseTo, Interrupted, GVL!Free
<1>15. \A t \in Threads : SpuriousWakeup(t) => LockedOwns'
  BY Zenon DEF SpuriousWakeup
<1>16. \A t \in Threads : Block(t) => LockedOwns'
  BY DEF Block, Wait, GVL!Free
<1>17. \A t \in Threads, b \in BOOLEAN : LockFunc(t, b) => LockedOwns'
  BY DEF LockFunc, Outcome
<1>18. \A t \in Threads : Relock(t) => LockedOwns'
  BY DEF Relock, CheckDeadlock, RaiseTo, Interrupted, GVL!Grant
<1>19. \A t \in Threads : Relocked(t) => LockedOwns'
  BY DEF Relocked
<1>20. \A t \in Threads : GoToSleep(t) => LockedOwns'
  BY DEF GoToSleep, CheckDeadlock, RaiseTo, Interrupted, GVL!Free
<1>21. \A t \in Threads : WakeUp(t) => LockedOwns'
  BY DEF WakeUp, GVL!Grant
<1>22. \A t \in Threads : LeaveSleep(t) => LockedOwns'
  BY DEF LeaveSleep, EnterLock, FallAsleep
<1> QED
  BY <1>1, <1>2, <1>3, <1>4, <1>5, <1>6, <1>7, <1>8, <1>9, <1>10, <1>11, <1>12,
     <1>13, <1>14, <1>15, <1>16, <1>17, <1>18, <1>19, <1>20, <1>21, <1>22, Zenon DEF Next, Call

\* There is one patrol thread at a time, and it gives the role up when it returns.
LEMMA PatrolStep ==
  TypeOK /\ Control /\ PatrolWaits /\ [Next]_vars => PatrolWaits'
<1> SUFFICES ASSUME TypeOK, Control, PatrolWaits, [Next]_vars PROVE PatrolWaits'
  BY Zenon
<1> USE DEF PatrolWaits, Control, TypeOK, AtHand, Gone, InLock, InSleep, GoTo, AtCheck, Running,
            threads, mutexes, signals, watch
<1>1. UNCHANGED vars => PatrolWaits'
  BY Zenon DEF vars
<1>2. \A t \in Threads, m \in Mutexes : Lock(t, m) => PatrolWaits'
  BY DEF Lock, EnterLock
<1>3. \A t \in Threads, m \in Mutexes : Unlock(t, m) => PatrolWaits'
  BY Zenon DEF Unlock, Release, Signal
<1>4. \A t \in Threads, m \in Mutexes : MutexSleep(t, m) => PatrolWaits'
  BY DEF MutexSleep, FallAsleep, Release, Signal
<1>5. \A t \in Threads, u \in Threads : Join(t, u) => PatrolWaits'
  BY DEF Join, FallAsleep
<1>6. \A t \in Threads, u \in Threads : Wakeup(t, u) => PatrolWaits'
  BY Zenon DEF Wakeup, Interrupted
<1>7. \A t \in Threads, u \in Threads : Raise(t, u) => PatrolWaits'
  BY Zenon DEF Raise, RaiseTo, Interrupted
<1>8. \A t \in Threads : Stop(t) => PatrolWaits'
  BY DEF Stop, FallAsleep
<1>9. \A t \in Threads : End(t) => PatrolWaits'
  BY DEF End, Signal, Interrupted
<1>10. \A t \in Threads : Fork(t) => PatrolWaits'
  BY DEF Fork
<1>11. \A t \in Threads : Switch(t) => PatrolWaits'
  BY Zenon DEF Switch, GVL!Free
<1>12. \A t \in Threads : Resume(t) => PatrolWaits'
  BY Zenon DEF Resume, GVL!Grant
<1>13. \A t \in Threads : CheckInts(t) => PatrolWaits'
  BY DEF CheckInts, EnterLock
<1>14. \A t \in Threads : Ended(t) => PatrolWaits'
  BY DEF Ended, CheckDeadlock, RaiseTo, Interrupted, GVL!Free
<1>15. \A t \in Threads : SpuriousWakeup(t) => PatrolWaits'
  BY Zenon DEF SpuriousWakeup
<1>16. \A t \in Threads : Block(t) => PatrolWaits'
  BY DEF Block, Wait, Patrol, GVL!Free
<1>17. \A t \in Threads, b \in BOOLEAN : LockFunc(t, b) => PatrolWaits'
  BY DEF LockFunc, Outcome
<1>18. \A t \in Threads : Relock(t) => PatrolWaits'
  BY DEF Relock, CheckDeadlock, RaiseTo, Interrupted, GVL!Grant
<1>19. \A t \in Threads : Relocked(t) => PatrolWaits'
  BY DEF Relocked
<1>20. \A t \in Threads : GoToSleep(t) => PatrolWaits'
  BY DEF GoToSleep, CheckDeadlock, RaiseTo, Interrupted, GVL!Free
<1>21. \A t \in Threads : WakeUp(t) => PatrolWaits'
  BY DEF WakeUp, GVL!Grant
<1>22. \A t \in Threads : LeaveSleep(t) => PatrolWaits'
  BY DEF LeaveSleep, EnterLock, FallAsleep
<1> QED
  BY <1>1, <1>2, <1>3, <1>4, <1>5, <1>6, <1>7, <1>8, <1>9, <1>10, <1>11, <1>12,
     <1>13, <1>14, <1>15, <1>16, <1>17, <1>18, <1>19, <1>20, <1>21, <1>22, Zenon DEF Next, Call

-----------------------------------------------------------------------------
\* A report leaves sleeper one lower than it was.
LEMMA CheckDeadlockCount ==
  ASSUME TypeOK, NEW t, NEW count \in Int, CheckDeadlock(t, count)
  PROVE  sleeper' + reports' = count + reports
BY DEF CheckDeadlock, TypeOK

\* Most steps change neither the sleepers nor the count.
LEMMA SameSleepers ==
  ASSUME SleeperCount, Sleepers' = Sleepers, sleeper' + reports' = sleeper + reports
  PROVE  SleeperCount'
BY Zenon DEF SleeperCount, Sleepers

\* A thread that falls asleep is counted in.
LEMMA SleeperAdded ==
  ASSUME TypeOK, SleeperCount, NEW t \in Threads, t \notin Sleepers,
         Sleepers' = Sleepers \cup {t}, sleeper' + reports' = sleeper + 1 + reports
  PROVE  SleeperCount'
<1>1. IsFiniteSet(Sleepers) /\ Cardinality(Sleepers) \in Nat
  BY CountsFinite, Zenon DEF Sleepers, TypeOK
<1>2. Cardinality(Sleepers') = Cardinality(Sleepers) + 1
  BY <1>1, FS_AddElement, Zenon
<1> QED
  BY <1>1, <1>2 DEF SleeperCount, Sleepers, TypeOK

\* A thread that returns from lock_func or native_sleep is counted out.
LEMMA SleeperRemoved ==
  ASSUME TypeOK, SleeperCount, NEW t \in Sleepers,
         Sleepers' = Sleepers \ {t}, sleeper' = sleeper - 1, reports' = reports
  PROVE  SleeperCount'
<1>1. IsFiniteSet(Sleepers) /\ Cardinality(Sleepers) \in Nat
  BY CountsFinite, Zenon DEF Sleepers, TypeOK
<1>2. Cardinality(Sleepers') = Cardinality(Sleepers) - 1
  BY <1>1, FS_RemoveElement, Zenon
<1> QED
  BY <1>1, <1>2 DEF SleeperCount, Sleepers, TypeOK

\* sleeper and the reports together count the sleepers.
LEMMA SleeperStep ==
  TypeOK /\ Control /\ SleeperCount /\ [Next]_vars => SleeperCount'
<1> SUFFICES ASSUME TypeOK, Control, SleeperCount, [Next]_vars PROVE SleeperCount'
  BY Zenon
<1> USE DEF Control, TypeOK, AtHand, Gone, InLock, InSleep, Counted, GoTo, AtCheck, Running,
            threads, mutexes, signals, watch
<1>1. CASE UNCHANGED vars
  BY <1>1, SameSleepers, Zenon DEF Sleepers, vars
<1>2. \A t \in Threads, m \in Mutexes : Lock(t, m) => SleeperCount'
  BY SameSleepers DEF Sleepers, Lock, EnterLock
<1>3. \A t \in Threads, m \in Mutexes : Unlock(t, m) => SleeperCount'
  BY SameSleepers DEF Sleepers, Unlock, Release, Signal
<1>4. \A t \in Threads, m \in Mutexes : MutexSleep(t, m) => SleeperCount'
  BY SameSleepers DEF Sleepers, MutexSleep, FallAsleep, Release, Signal
<1>5. \A t \in Threads, u \in Threads : Join(t, u) => SleeperCount'
  BY SameSleepers DEF Sleepers, Join, FallAsleep
<1>6. \A t \in Threads, u \in Threads : Wakeup(t, u) => SleeperCount'
  BY SameSleepers DEF Sleepers, Wakeup, Interrupted
<1>7. \A t \in Threads, u \in Threads : Raise(t, u) => SleeperCount'
  BY SameSleepers DEF Sleepers, Raise, RaiseTo, Interrupted
<1>8. \A t \in Threads : Stop(t) => SleeperCount'
  BY SameSleepers DEF Sleepers, Stop, FallAsleep
<1>9. \A t \in Threads : End(t) => SleeperCount'
  BY SameSleepers DEF Sleepers, End, Signal, Interrupted
<1>10. ASSUME NEW t \in Threads, Fork(t) PROVE SleeperCount'
  <2>1. Sleepers' = {}
    BY <1>10 DEF Sleepers, Fork
  <2>2. Cardinality(Sleepers') = 0
    BY <2>1, FS_EmptySet, Zenon
  <2> QED
    BY <1>10, <2>2 DEF SleeperCount, Sleepers, Fork
<1>11. \A t \in Threads : Switch(t) => SleeperCount'
  BY SameSleepers DEF Sleepers, Switch, GVL!Free
<1>12. \A t \in Threads : Resume(t) => SleeperCount'
  BY SameSleepers, Zenon DEF Sleepers, Resume, GVL!Grant
<1>13. \A t \in Threads : CheckInts(t) => SleeperCount'
  BY SameSleepers DEF Sleepers, CheckInts, EnterLock
<1>14. ASSUME NEW t \in Threads, Ended(t) PROVE SleeperCount'
  <2>1. Sleepers' = Sleepers
    BY <1>14, Zenon DEF Sleepers, Ended
  <2>2. sleeper' + reports' = sleeper + reports
    BY <1>14, CheckDeadlockCount, Zenon DEF Ended
  <2> QED
    BY <2>1, <2>2, SameSleepers, Zenon
<1>15. \A t \in Threads : SpuriousWakeup(t) => SleeperCount'
  BY SameSleepers DEF Sleepers, SpuriousWakeup
<1>16. ASSUME NEW t \in Threads, Block(t) PROVE SleeperCount'
  <2>1. t \notin Sleepers /\ Sleepers' = Sleepers \cup {t}
    BY <1>16 DEF Sleepers, Block, Wait
  <2>2. sleeper' + reports' = sleeper + 1 + reports
    BY <1>16, Zenon DEF Block
  <2> QED
    BY <2>1, <2>2, SleeperAdded, Zenon
<1>17. \A t \in Threads, b \in BOOLEAN : LockFunc(t, b) => SleeperCount'
  BY SameSleepers DEF Sleepers, LockFunc, Outcome
<1>18. ASSUME NEW t \in Threads, Relock(t) PROVE SleeperCount'
  <2>1. Sleepers' = Sleepers
    BY <1>18 DEF Sleepers, Relock, GVL!Grant
  <2>2. sleeper' + reports' = sleeper + reports
    BY <1>18, CheckDeadlockCount, Zenon DEF Relock
  <2> QED
    BY <2>1, <2>2, SameSleepers, Zenon
<1>19. ASSUME NEW t \in Threads, Relocked(t) PROVE SleeperCount'
  <2>1. t \in Sleepers /\ Sleepers' = Sleepers \ {t}
    BY <1>19 DEF Sleepers, Relocked
  <2> QED
    BY <1>19, <2>1, SleeperRemoved, Zenon DEF Relocked
<1>20. ASSUME NEW t \in Threads, GoToSleep(t) PROVE SleeperCount'
  <2>1. t \notin Sleepers /\ Sleepers' = Sleepers \cup {t}
    BY <1>20 DEF Sleepers, GoToSleep
  <2>2. sleeper' + reports' = sleeper + 1 + reports
    BY <1>20, CheckDeadlockCount DEF GoToSleep
  <2> QED
    BY <2>1, <2>2, SleeperAdded, Zenon
<1>21. ASSUME NEW t \in Threads, WakeUp(t) PROVE SleeperCount'
  <2>1. t \in Sleepers /\ Sleepers' = Sleepers \ {t}
    BY <1>21 DEF Sleepers, WakeUp, GVL!Grant
  <2> QED
    BY <1>21, <2>1, SleeperRemoved, Zenon DEF WakeUp
<1>22. \A t \in Threads : LeaveSleep(t) => SleeperCount'
  BY SameSleepers DEF Sleepers, LeaveSleep, EnterLock, FallAsleep
<1> QED
  BY <1>1, <1>2, <1>3, <1>4, <1>5, <1>6, <1>7, <1>8, <1>9, <1>10, <1>11, <1>12,
     <1>13, <1>14, <1>15, <1>16, <1>17, <1>18, <1>19, <1>20, <1>21, <1>22, Zenon DEF Next, Call

-----------------------------------------------------------------------------
\* At a report every living thread is asleep, and it is the first report.
LEMMA ReportCounts ==
  ASSUME TypeOK, TypeOK', SleeperCount', living' = living, NEW t, NEW count \in Int,
         CheckDeadlock(t, count), reports' # reports
  PROVE  living = Sleepers' /\ reports = 0
<1>1. /\ count = Cardinality(living) /\ sleeper' + reports' = count + reports
  BY CheckDeadlockCount, Zenon DEF CheckDeadlock
<1>2. Cardinality(Sleepers') = Cardinality(living) + reports
  BY <1>1, Zenon DEF SleeperCount, Sleepers
<1>3. Sleepers' \subseteq living /\ living \subseteq Threads
  BY Zenon DEF Sleepers, TypeOK
<1>4. IsFiniteSet(living) /\ Cardinality(living) \in Nat /\ reports \in Nat
  BY <1>3, CountsFinite, Zenon DEF TypeOK
<1>5. Cardinality(Sleepers') <= Cardinality(living) /\ Cardinality(Sleepers') \in Nat
  BY <1>3, <1>4, FS_Subset, FS_CardinalityType, Zenon
<1>6. reports = 0 /\ Cardinality(Sleepers') = Cardinality(living)
  BY <1>2, <1>4, <1>5
<1> QED
  BY <1>3, <1>4, <1>6, FS_Subset, Zenon

\* What rb_check_deadlock takes for dead cannot get out by itself: a thread with the
\* GVL apart, a sleeper sleeps on, and a mutex that is waited for has another owner.
LEMMA NotFoundStuck ==
  ASSUME DInv, NEW u \in living, NotFound(u), pc[u] \in Counted \ {"relock"},
         pc[u] = "timedout" => th[arg[u]] # NULL
  PROVE  Stuck(u)
<1> USE DEF Control, TypeOK, InLock, InSleep, Counted
<1>1. u \in Threads /\ u \in stopped /\ u \notin interrupt
  BY Zenon DEF NotFound, DInv, IInv
<1>2. CASE pc[u] = "asleep"
  BY <1>1, <1>2, Zenon DEF DInv, IInv, Flags, Stuck
<1>3. CASE pc[u] \in {"waiting", "timedout"}
  <2>1. arg[u] \in Mutexes /\ th[arg[u]] # u
    BY <1>1, <1>3, Zenon DEF DInv, IInv, NotFound
  <2>2. th[arg[u]] # NULL
    <3>1. CASE pc[u] = "waiting"
      <4>1. cond_waiting[arg[u]] > 0
        BY <1>1, <2>1, <3>1, WaiterCounted, Zenon DEF DInv, IInv
      <4> QED
        BY <1>1, <3>1, <4>1, Zenon DEF NotFound
    <3> QED
      BY <1>3, <3>1, Zenon
  <2>3. th[arg[u]] \in living
    BY <2>1, <2>2 DEF DInv, IInv, OwnersRelease
  <2> QED
    BY <1>3, <2>1, <2>3, Zenon DEF Stuck
<1>4. CASE pc[u] = "locked"
  BY <1>1, <1>4, Zenon DEF NotFound, DInv, IInv, LockedOwns
<1>5. CASE pc[u] = "interrupted"
  BY <1>1, <1>5, Zenon DEF DInv, IInv, Flags
<1> QED
  BY <1>2, <1>3, <1>4, <1>5, Zenon

\* A report is true of the state it is made in.
LEMMA ReportStep ==
  ASSUME DInv, TypeOK', SleeperCount', [Next]_vars, reports' > reports
  PROVE  \A u \in living' : Stuck(u)' /\ u \notin interrupt
<1> USE DEF Control, TypeOK, InLock, InSleep, Counted, GoTo
<1>1. ASSUME NEW t \in Threads, Relock(t) PROVE \A u \in living' : Stuck(u)' /\ u \notin interrupt
  <2>1. /\ CheckDeadlock(t, sleeper) /\ reports' # reports /\ living' = living
        /\ pc[t] = "timedout" /\ th[arg[t]] # NULL
    BY <1>1 DEF Relock, threads, DInv, IInv
  <2>2. living = Sleepers' /\ reports = 0
    BY <2>1, ReportCounts, Zenon DEF DInv, IInv
  <2> SUFFICES ASSUME NEW u \in living PROVE Stuck(u)' /\ u \notin interrupt
    BY <2>1, Zenon
  <2>3. NotFound(u) /\ u \in Threads /\ u \notin interrupt
    BY <2>1, Zenon DEF CheckDeadlock, NotFound, DInv, IInv
  <2>4. /\ pc'[u] \in Counted /\ gvl = NULL /\ stopped' = stopped /\ th' = th /\ arg' = arg
        /\ pc' = [pc EXCEPT ![t] = "relock"]
    BY <1>1, <2>1, <2>2, Zenon DEF Sleepers, Relock, GVL!Grant
  <2>5. pc[u] \in Counted \ {"relock"} /\ (pc[u] = "timedout" => th[arg[u]] # NULL)
    BY <1>1, <2>1, <2>3, <2>4 DEF DInv, IInv, PatrolWaits
  <2>6. Stuck(u)
    BY <2>3, <2>5, NotFoundStuck, Zenon
  <2> QED
    BY <2>1, <2>3, <2>4, <2>5, <2>6 DEF Stuck, DInv, IInv
<1>2. ASSUME NEW t \in Threads, GoToSleep(t)
      PROVE  \A u \in living' : Stuck(u)' /\ u \notin interrupt
  <2>1. CheckDeadlock(t, sleeper + 1) /\ reports' # reports /\ living' = living
    BY <1>2 DEF GoToSleep, threads, DInv, IInv
  <2>2. living = Sleepers' /\ reports = 0
    BY <2>1, ReportCounts DEF DInv, IInv
  <2> SUFFICES ASSUME NEW u \in living PROVE Stuck(u)' /\ u \notin interrupt
    BY <2>1, Zenon
  <2>3. NotFound(u) /\ u \in Threads /\ u \notin interrupt /\ patrol_thread \in {NULL, t}
    BY <2>1, Zenon DEF CheckDeadlock, NotFound, DInv, IInv
  <2>4. /\ pc'[u] \in Counted /\ gvl = t /\ stopped' = stopped /\ th' = th /\ arg' = arg
        /\ pc[t] = "sleeping" /\ t \in stopped /\ pc' = [pc EXCEPT ![t] = "asleep"]
    BY <1>2, <2>1, <2>2, Zenon DEF Sleepers, GoToSleep
  <2>5. CASE u = t
    BY <2>1, <2>3, <2>4, <2>5 DEF DInv, IInv, Flags, Stuck
  <2>6. CASE u # t
    <3>1. pc[u] \in Counted \ {"relock"} /\ pc[u] # "timedout" /\ pc'[u] = pc[u]
      BY <2>3, <2>4, <2>6 DEF DInv, IInv, PatrolWaits
    <3>2. Stuck(u)
      BY <2>3, <3>1, NotFoundStuck, Zenon
    <3> QED
      BY <2>1, <2>3, <2>4, <3>1, <3>2, Zenon DEF Stuck, DInv, IInv
  <2> QED
    BY <2>5, <2>6, Zenon
<1>3. ASSUME NEW t \in Threads, Ended(t) PROVE \A u \in living' : Stuck(u)' /\ u \notin interrupt
  <2>1. CheckDeadlock(t, sleeper) /\ reports' # reports /\ living' = living
    BY <1>3 DEF Ended, threads, DInv, IInv
  <2>2. living = Sleepers' /\ reports = 0
    BY <2>1, ReportCounts, Zenon DEF DInv, IInv
  <2> SUFFICES ASSUME NEW u \in living PROVE Stuck(u)' /\ u \notin interrupt
    BY <2>1, Zenon
  <2>3. NotFound(u) /\ u \in Threads /\ u \notin interrupt /\ patrol_thread \in {NULL, t}
    BY <2>1, Zenon DEF CheckDeadlock, NotFound, DInv, IInv
  <2>4. /\ pc'[u] \in Counted /\ gvl = t /\ stopped' = stopped /\ th' = th /\ arg' = arg
        /\ pc[t] = "ended" /\ t # u /\ pc' = [pc EXCEPT ![t] = "dead"]
    BY <1>3, <2>1, <2>2, <2>3, Zenon DEF Sleepers, Ended, GVL!Free, DInv, IInv, Gone
  <2>5. pc[u] \in Counted \ {"relock"} /\ pc[u] # "timedout" /\ pc'[u] = pc[u]
    BY <2>3, <2>4 DEF DInv, IInv, PatrolWaits
  <2>6. Stuck(u)
    BY <2>3, <2>5, NotFoundStuck, Zenon
  <2> QED
    BY <2>1, <2>3, <2>4, <2>5, <2>6, Zenon DEF Stuck, DInv, IInv
<1>4. reports' # reports /\ reports' # 0
  BY DEF DInv, IInv
<1>5. ASSUME NEW t \in Threads, Call(t) PROVE reports' = reports \/ reports' = 0
  BY <1>5, ZenonT(30) DEF Call, Lock, Unlock, MutexSleep, Join, Wakeup, Raise, Stop, End, Fork, watch
<1>6. ASSUME NEW t \in Threads,
             \/ Switch(t) \/ Resume(t) \/ CheckInts(t) \/ SpuriousWakeup(t) \/ Block(t)
             \/ LockFunc(t, FALSE) \/ LockFunc(t, TRUE) \/ Relocked(t) \/ WakeUp(t)
             \/ LeaveSleep(t)
      PROVE  reports' = reports
  BY <1>6, Zenon DEF Switch, Resume, CheckInts, SpuriousWakeup, Block, LockFunc, Relocked, WakeUp,
              LeaveSleep, watch
<1> QED
  BY <1>1, <1>2, <1>3, <1>4, <1>5, <1>6, Zenon DEF Next, vars, watch

-----------------------------------------------------------------------------
\* A check of all threads that reports nothing has found a patrol, or a thread that
\* is going to run again.
LEMMA CheckFinds ==
  ASSUME DInv, NEW t \in Threads, CheckDeadlock(t, Cardinality(living)), reports' = 0,
         gvl = t, pc[t] = "ended" \/ (pc[t] = "sleeping" /\ t \in stopped \ interrupt),
         \A u \in living \ {t} : pc[u] \in Counted
  PROVE  /\ UNCHANGED interrupt
         /\ patrol_thread # NULL \/ \E u \in living \ {t} : Unsettled(u)
<1> USE DEF Control, TypeOK, InLock, InSleep, Counted, Gone
<1>1. ~(patrol_thread \in {NULL, t} /\ \A u \in living : NotFound(u))
  BY DEF CheckDeadlock, DInv, IInv
<1>2. UNCHANGED interrupt
  BY <1>1, Zenon DEF CheckDeadlock, signals
<1>3. ASSUME NEW u \in living, ~NotFound(u) PROVE u # t /\ Unsettled(u)
  <2>1. u \in Threads /\ u # t
    BY <1>3 DEF DInv, IInv, NotFound
  <2>2. pc[u] \in Counted \ {"relock"}
    BY <2>1, Zenon DEF DInv, IInv
  <2>3. CASE u \in interrupt
    BY <2>1, <2>3, Zenon DEF Unsettled
  <2>4. CASE u \notin stopped /\ u \notin interrupt
    BY <2>1, <2>2, <2>4, Zenon DEF Unsettled, DInv, IInv, Flags
  <2>5. CASE u \in stopped \ interrupt
    BY <1>3, <2>1, <2>5, Zenon DEF NotFound, Unsettled
  <2> QED
    BY <2>3, <2>4, <2>5, Zenon
<1> QED
  BY <1>1, <1>2, <1>3, Zenon

\* No step lets all threads fall asleep unwatched.
LEMMA WatchedStep ==
  ASSUME DInv, TypeOK', Control', SleeperCount', [Next]_vars
  PROVE  Watched'
<1> DEFINE Goal == patrol_thread' # NULL \/ \E u \in living' : Unsettled(u)'
<1> SUFFICES ASSUME gvl' = NULL, reports' = 0, \A u \in living' : pc'[u] \in Counted
             PROVE  Goal
  BY Zenon DEF Watched
<1>1. sleeper' = Cardinality(living')
  <2>1. Sleepers' = living'
    BY Zenon DEF Sleepers
  <2>2. sleeper' + reports' = Cardinality(Sleepers')
    BY Zenon DEF SleeperCount, Sleepers
  <2> QED
    BY <2>1, <2>2 DEF TypeOK
<1> USE DEF Control, TypeOK, InLock, InSleep, Counted, Gone, AtHand, GoTo, Running, AtCheck
<1>2. CASE UNCHANGED vars
  BY <1>2, Zenon DEF vars, threads, signals, mutexes, watch, DInv, IInv, Watched, Unsettled
<1>3. ASSUME NEW t \in Threads, Call(t) PROVE Goal
  <2>1. gvl' = t
    BY <1>3, Zenon DEF Call, Lock, Unlock, MutexSleep, Join, Wakeup, Raise, Stop, End, Fork
  <2> QED
    BY <2>1, SMTT(20)
<1>4. ASSUME NEW t \in Threads, Switch(t) PROVE Goal
  <2>1. t \in living' /\ pc'[t] \notin Counted
    BY <1>4, Zenon DEF Switch, threads, DInv, IInv
  <2> QED
    BY <2>1, Zenon
<1>5. ASSUME NEW t \in Threads, Resume(t) \/ Relock(t) \/ WakeUp(t) PROVE Goal
  BY <1>5, Zenon DEF Resume, Relock, WakeUp, GVL!Grant
<1>6. ASSUME NEW t \in Threads, CheckInts(t) \/ Relocked(t) \/ LeaveSleep(t) PROVE Goal
  <2>1. gvl' = t
    BY <1>6, Zenon DEF CheckInts, Relocked, LeaveSleep
  <2> QED
    BY <2>1, Zenon
<1>7. ASSUME NEW t \in Threads, SpuriousWakeup(t) PROVE Goal
  BY <1>7, Zenon DEF SpuriousWakeup, threads, signals, mutexes, watch, DInv, IInv, Watched, Unsettled
<1>8. ASSUME NEW t \in Threads, NEW b \in BOOLEAN, LockFunc(t, b) PROVE Goal
  <2>1. /\ UNCHANGED <<gvl, living, arg, stopped, interrupt, patrol_thread, reports>>
        /\ pc[t] = "waiting" /\ t \in living /\ arg[t] \in Mutexes
        /\ \A u \in Threads \ {t} : pc'[u] = pc[u]
    BY <1>8 DEF LockFunc, threads, signals, watch, DInv, IInv
  <2>2. Outcome(t, b) \in InLock /\ pc'[t] \in InLock
    BY <1>8 DEF LockFunc, Outcome, DInv, IInv
  <2>3. CASE patrol_thread # NULL
    BY <2>1, <2>3, Zenon
  <2>4. ASSUME NEW u \in living, Unsettled(u) PROVE Goal
    <3>1. CASE Outcome(t, b) = "locked"
      <4>1. th'[arg'[t]] = t
        BY <1>8, <2>1, <3>1, SMTT(20) DEF LockFunc, DInv, IInv
      <4> QED
        BY <2>1, <2>2, <4>1, SMTT(20) DEF Unsettled
    <3>2. CASE Outcome(t, b) # "locked"
      <4>1. th' = th
        BY <1>8, <3>2, Zenon DEF LockFunc
      <4> QED
        BY <2>1, <2>2, <2>4, <4>1, Zenon DEF Unsettled, DInv, IInv
    <3> QED
      BY <3>1, <3>2, Zenon
  <2>5. \A u \in living : pc[u] \in Counted
    BY <2>1, Zenon DEF DInv, IInv
  <2> QED
    BY <2>1, <2>3, <2>4, <2>5, SMTT(20) DEF DInv, IInv, Watched
<1>9. ASSUME NEW t \in Threads, Block(t) PROVE Goal
  BY <1>1, <1>9, ZenonT(30) DEF Block, Patrol, threads
<1>10. ASSUME NEW t \in Threads, GoToSleep(t) \/ Ended(t) PROVE Goal
  <2>1. /\ UNCHANGED <<living, arg, stopped, patrol_thread, th>>
        /\ gvl = t /\ \A u \in Threads \ {t} : pc'[u] = pc[u]
        /\ pc[t] = "ended" \/ (pc[t] = "sleeping" /\ t \in stopped \ interrupt)
        /\ CheckDeadlock(t, sleeper + 1) \/ CheckDeadlock(t, sleeper)
    BY <1>10 DEF GoToSleep, Ended, threads, GVL!Free, DInv, IInv
  <2>2. CheckDeadlock(t, Cardinality(living))
    <3>1. PICK count \in Int : CheckDeadlock(t, count)
      BY <2>1 DEF DInv, IInv
    <3>2. sleeper' = count
      BY <3>1 DEF CheckDeadlock, DInv, IInv
    <3> QED
      BY <1>1, <2>1, <3>1, <3>2, SMTT(20)
  <2>3. \A u \in living \ {t} : pc[u] \in Counted
    BY <2>1, SMTT(20) DEF DInv, IInv
  <2>4. /\ UNCHANGED interrupt
        /\ patrol_thread # NULL \/ \E u \in living \ {t} : Unsettled(u)
    <3> HIDE DEF Control, TypeOK, Counted
    <3> QED BY <2>1, <2>2, <2>3, CheckFinds, Zenon
  <2> QED
    BY <2>1, <2>4, Zenon DEF Unsettled, DInv, IInv
<1> QED
  BY <1>2, <1>3, <1>4, <1>5, <1>6, <1>7, <1>8, <1>9, <1>10, Zenon DEF Next

-----------------------------------------------------------------------------
\* Nobody sleeps in the beginning.
LEMMA InitDeadlock == Init => DInv
<1> SUFFICES ASSUME Init PROVE DInv
  BY Zenon
<1>1. LockedOwns /\ PatrolWaits /\ Watched
  BY Zenon DEF Init, LockedOwns, PatrolWaits, Watched, Counted, InLock
<1>2. SleeperCount
  <2>1. Sleepers = {} /\ sleeper = 0 /\ reports = 0
    BY Zenon DEF Init, Sleepers, Counted, InLock
  <2>2. Cardinality(Sleepers) = 0
    BY <2>1, FS_EmptySet, Zenon
  <2> QED
    BY <2>1, <2>2 DEF SleeperCount, Sleepers
<1> QED
  BY <1>1, <1>2, InitInv, Zenon DEF DInv

\* DInv is inductive.
LEMMA StepDeadlock == DInv /\ [Next]_vars => DInv'
<1> SUFFICES ASSUME DInv, [Next]_vars PROVE DInv'
  BY Zenon
<1>1. IInv' /\ TypeOK' /\ Control'
  BY StepInv, Zenon DEF DInv, IInv
<1>2. LockedOwns' /\ SleeperCount' /\ PatrolWaits'
  BY LockedStep, SleeperStep, PatrolStep, Zenon DEF DInv, IInv
<1>3. Watched'
  BY <1>1, <1>2, WatchedStep, Zenon
<1> QED
  BY <1>1, <1>2, <1>3, Zenon DEF DInv

\* DInv holds in every state that the threads can reach.
THEOREM DeadlockInductive == Spec => []DInv
BY InitDeadlock, StepDeadlock, PTL DEF Spec

\* If all threads are stuck, one of them is the patrol: the inductive invariant
\* leaves no thread that is going to run again.
LEMMA WatchedImplies == DInv => DeadlockWatched
<1> SUFFICES ASSUME DInv, gvl = NULL, reports = 0,
                    \A t \in living : Stuck(t) /\ t \notin interrupt
             PROVE  /\ patrol_thread # NULL
                    /\ patrol_thread \in living => pc[patrol_thread] # "asleep"
  BY Zenon DEF DeadlockWatched
<1>1. \A t \in living : pc[t] \in Counted /\ ~Unsettled(t)
  BY DEF Stuck, Unsettled, Counted, InLock, DInv, IInv, TypeOK
<1>2. patrol_thread # NULL
  BY <1>1, Zenon DEF DInv, IInv, Watched
<1> QED
  BY <1>2, Zenon DEF DInv, IInv, PatrolWaits, InLock

\* vm->sleeper is the number of threads asleep, less the reports made.
THEOREM SleepersCounted == Spec => []SleeperCount
<1>1. DInv => SleeperCount
  BY Zenon DEF DInv
<1> QED
  BY <1>1, DeadlockInductive, PTL

\* No deadlock goes unnoticed before the first report.
THEOREM DeadlocksWatched == Spec => []DeadlockWatched
BY WatchedImplies, DeadlockInductive, PTL

\* rb_check_deadlock raises no false alarm.
THEOREM NoFalseAlarm == Spec => NoFalseDeadlock
<1>1. DInv /\ [Next]_vars =>
        [reports' > reports => \A t \in living' : Stuck(t)' /\ t \notin interrupt]_vars
  BY StepDeadlock, ReportStep, Zenon DEF DInv, IInv
<1> QED
  BY <1>1, DeadlockInductive, PTL DEF Spec, NoFalseDeadlock
=============================================================================
