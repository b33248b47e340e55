------------------------------- MODULE Queue -------------------------------
(***************************************************************************)
(* Queue and SizedQueue (ruby/ext/thread/thread.c).                        *)
(*                                                                         *)
(* The methods run under the GVL and lose it only in                       *)
(* rb_thread_sleep_deadly, so what a thread does up to its sleep is one    *)
(* step.  `stopped' is the status THREAD_STOPPED_FOREVER, which            *)
(* rb_thread_wakeup_alive takes away and without which a sleeper returns.  *)
(* The queue is its length: no property tells elements apart.  Queue is    *)
(* SizedQueue without the limit.  The main thread is not one of Threads:   *)
(* it is busy elsewhere, so rb_check_deadlock (module Mutex) is silent.    *)
(***************************************************************************)
EXTENDS Naturals, FiniteSets, Sequences, Functions

CONSTANTS
  Threads,
  MaxSize        \* bound: the greatest limit of the queue

ASSUME QueueAssumption == IsFiniteSet(Threads) /\ MaxSize \in Nat \ {0}

VARIABLES
  que, max,
  waiters,         \* QUEUE_WAITERS: the threads in pop
  queue_waiters,   \* SZQUEUE_WAITERS: the threads in push
  pc, stopped,
  pending,         \* threads with Thread#kill in their queue
  swallowed        \* history: per method, threads killed after they were woken up

queue == <<que, max, waiters, queue_waiters>>
vars == <<queue, pc, stopped, pending, swallowed>>

TypeOK ==
  /\ que \in 0 .. MaxSize /\ max \in 1 .. MaxSize
  /\ waiters \in Seq(Threads) /\ queue_waiters \in Seq(Threads)
  /\ pc \in [Threads -> {"running", "pop", "push", "dead"}]
  /\ stopped \subseteq Threads /\ pending \subseteq Threads
  /\ swallowed \in [{"pop", "push"} -> Nat]

Init ==
  /\ que = 0 /\ max = 1
  /\ waiters = <<>> /\ queue_waiters = <<>>
  /\ pc = [t \in Threads |-> "running"]
  /\ stopped = {} /\ pending = {}
  /\ swallowed = [k \in {"pop", "push"} |-> 0]

-----------------------------------------------------------------------------
GoTo(t, where) == pc' = [pc EXCEPT ![t] = where]

\* wakeup_first_thread takes the first n threads off a list; the threads left in
\* the list, and those it wakes up.
Rest(list, n) == SubSeq(list, n + 1, Len(list))
First(list, n) == {list[i] : i \in 1 .. IF n < Len(list) THEN n ELSE Len(list)}

\* Mutant: a pop from a queue that was not full wakes up nobody.
SpaceMadeFull == IF que >= max THEN 1 ELSE 0

\* How many pushing threads szqueue_do_pop wakes up.
SpaceMade == IF que - 1 < max THEN 1 ELSE 0

\* Mutant: only the first element wakes up a thread.
ElementAddedFirst == IF que = 0 THEN 1 ELSE 0

\* How many popping threads queue_do_push wakes up.
ElementAdded == 1

\* Mutant: the limit is tested once, before the wait.
FullOnce(t) == que >= max /\ pc[t] = "running"

\* The condition of the loop in rb_szqueue_push.
Full(t) == que >= max

\* Mutant: a thread that finds the queue empty again is not listed again.
ListedOnce(list, t) == IF pc[t] = "running" THEN Append(list, t) ELSE list

\* The list a thread joins before it sleeps.
Listed(list, t) == Append(list, t)

\* queue_delete_from_waiting.  rb_ary_delete deletes every entry of t; a list holds
\* it at most once (ListsExact).
Deleted(list, t) ==
  IF t \notin Range(list) THEN list
  ELSE LET i == CHOOSE j \in DOMAIN list : list[j] = t
       IN [j \in 1 .. Len(list) - 1 |-> list[IF j < i THEN j ELSE j + 1]]

\* szqueue_do_pop, with t not in the list w of waiters.
TryPop(t, w) ==
  IF que = 0
    THEN /\ waiters' = Listed(w, t)
         /\ GoTo(t, "pop") /\ stopped' = stopped \cup {t}
         /\ UNCHANGED <<que, max, queue_waiters>>
    ELSE /\ que' = que - 1 /\ waiters' = w
         /\ queue_waiters' = Rest(queue_waiters, SpaceMade)
         /\ stopped' = stopped \ First(queue_waiters, SpaceMade)
         /\ GoTo(t, "running")
         /\ UNCHANGED max

\* rb_szqueue_push and queue_do_push, with t not in the list w of waiters.
TryPush(t, w) ==
  IF Full(t)
    THEN /\ queue_waiters' = Listed(w, t)
         /\ GoTo(t, "push") /\ stopped' = stopped \cup {t}
         /\ UNCHANGED <<que, max, waiters>>
    ELSE /\ que' = que + 1 /\ queue_waiters' = w
         /\ waiters' = Rest(waiters, ElementAdded)
         /\ stopped' = stopped \ First(waiters, ElementAdded)
         /\ GoTo(t, "running")
         /\ UNCHANGED max

Pop(t) == pc[t] = "running" /\ TryPop(t, waiters) /\ UNCHANGED <<pending, swallowed>>

Push(t) == pc[t] = "running" /\ TryPush(t, queue_waiters) /\ UNCHANGED <<pending, swallowed>>

\* A sleeper returns, deletes itself from the list and goes round the loop.
PopAgain(t) ==
  /\ pc[t] = "pop" /\ t \notin stopped \cup pending
  /\ TryPop(t, Deleted(waiters, t))
  /\ UNCHANGED <<pending, swallowed>>

PushAgain(t) ==
  /\ pc[t] = "push" /\ t \notin stopped \cup pending
  /\ TryPush(t, Deleted(queue_waiters, t))
  /\ UNCHANGED <<pending, swallowed>>

\* How many pushing threads rb_szqueue_max_set wakes up.
Growth(n) == IF n > max THEN n - max ELSE 0

MaxSet(t, n) ==
  /\ pc[t] = "running"
  /\ max' = n
  /\ queue_waiters' = Rest(queue_waiters, Growth(n))
  /\ stopped' = stopped \ First(queue_waiters, Growth(n))
  /\ UNCHANGED <<que, waiters, pc, pending, swallowed>>

\* rb_szqueue_clear
Clear(t) ==
  /\ pc[t] = "running"
  /\ que' = 0
  /\ queue_waiters' = <<>>
  /\ stopped' = stopped \ Range(queue_waiters)
  /\ UNCHANGED <<max, waiters, pc, pending, swallowed>>

\* rb_thread_wakeup, which leaves the lists alone.
Wakeup(t, u) ==
  /\ pc[t] = "running" /\ u \in stopped
  /\ stopped' = stopped \ {u}
  /\ UNCHANGED <<queue, pc, pending, swallowed>>

\* rb_thread_kill
Kill(t, u) ==
  /\ pc[t] = "running" /\ u # t /\ pc[u] # "dead"
  /\ pending' = pending \cup {u}
  /\ UNCHANGED <<queue, pc, stopped, swallowed>>

\* A killed sleeper leaves through queue_delete_from_waiting and ends.
Die(t) ==
  /\ t \in pending /\ pc[t] # "dead"
  /\ waiters' = Deleted(waiters, t) /\ queue_waiters' = Deleted(queue_waiters, t)
  /\ swallowed' = IF pc[t] \in {"pop", "push"} /\ t \notin Range(waiters) \cup Range(queue_waiters)
                    THEN [swallowed EXCEPT ![pc[t]] = @ + 1] ELSE swallowed
  /\ GoTo(t, "dead")
  /\ stopped' = stopped \ {t} /\ pending' = pending \ {t}
  /\ UNCHANGED <<que, max>>

Next ==
  \E t \in Threads :
    \/ Pop(t) \/ Push(t) \/ PopAgain(t) \/ PushAgain(t) \/ Clear(t) \/ Die(t)
    \/ \E n \in 1 .. MaxSize : MaxSet(t, n)
    \/ \E u \in Threads : Wakeup(t, u) \/ Kill(t, u)

\* A thread that has been woken up, or killed, runs: the GVL is granted in turn and
\* its holder gives it up at the timer's request.
Fairness == \A t \in Threads : WF_vars(PopAgain(t) \/ Die(t))

Spec == Init /\ [][Next]_vars /\ Fairness

-----------------------------------------------------------------------------
Asleep(m) == {t \in Threads : pc[t] = m /\ t \in stopped}
Woken(m) == {t \in Threads : pc[t] = m /\ t \notin stopped}

\* The lists hold each thread that sleeps once and no thread that does not wait:
\* num_waiting is right and a wakeup never goes to a thread that left, however it
\* left and however often it came back.
ListsExact ==
  /\ IsInjective(waiters) /\ IsInjective(queue_waiters)
  /\ Asleep("pop") \subseteq Range(waiters) /\ Asleep("push") \subseteq Range(queue_waiters)
  /\ \A t \in Range(waiters) : pc[t] = "pop"
  /\ \A t \in Range(queue_waiters) : pc[t] = "push"

\* While a thread sleeps in pop there is a woken thread for each element, although
\* other threads may take elements first; only a thread that is killed between its
\* wakeup and its return takes a wakeup away.
PopWakeupKept ==
  Asleep("pop") # {} => que <= Cardinality(Woken("pop")) + swallowed["pop"]

\* While a thread sleeps in push there is a woken thread for each free place,
\* through changes of the limit in both directions, with the same exception.
PushWakeupKept ==
  Asleep("push") # {} => max <= que + Cardinality(Woken("push")) + swallowed["push"]

\* No push makes the queue longer than its limit, though a woken thread finds the
\* queue as other threads and changes of the limit have left it.
WithinLimit == [][que' > que => que' <= max]_vars

\* A thread that sleeps in pop while there are elements is woken up, or the elements
\* go to others, unless a wakeup was swallowed.
PopServed ==
  \A t \in Threads :
    t \in Asleep("pop") /\ que > 0 ~> t \notin Asleep("pop") \/ que = 0 \/ swallowed["pop"] > 0

\* rb_queue_pop: a thread is suspended only until data is pushed.
SuspendedUntilPush == Asleep("pop") # {} => que <= Cardinality(Woken("pop"))
=============================================================================
