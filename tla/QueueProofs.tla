---------------------------- MODULE QueueProofs ----------------------------
(***************************************************************************)
(* What holds of Queue and SizedQueue for every set of threads and every   *)
(* greatest limit.  The wakeup invariants are not inductive: a thread that *)
(* Thread#wakeup has taken out of its sleep is still listed, and the next  *)
(* wakeup of the queue is spent on it.  The inductive invariant counts     *)
(* only the waiting threads that a wakeup of the queue took off the list,  *)
(* and holds while the list is not empty, whether or not a listed thread   *)
(* still sleeps.                                                           *)
(***************************************************************************)
EXTENDS Queue, FunctionTheorems, FiniteSetTheorems, SequenceTheorems, TLAPS

\* The threads in method m that wakeup_first_thread took off its list.
Served(m, list) == {t \in Threads : pc[t] = m /\ t \notin Range(list)}

PopCovered ==
  waiters # <<>> => que <= Cardinality(Served("pop", waiters)) + swallowed["pop"]

PushCovered ==
  queue_waiters # <<>> =>
    max <= que + Cardinality(Served("push", queue_waiters)) + swallowed["push"]

IInv == TypeOK /\ ListsExact /\ PopCovered /\ PushCovered

-----------------------------------------------------------------------------
\* A thread that joins a list it is not in is its only new member.
LEMMA ListedOnceMore ==
  ASSUME NEW S, NEW list \in Seq(S), IsInjective(list), NEW t \in S, t \notin Range(list)
  PROVE  /\ Listed(list, t) \in Seq(S) /\ IsInjective(Listed(list, t))
         /\ Range(Listed(list, t)) = Range(list) \cup {t}
<1>. DEFINE new == Listed(list, t)
<1>1. /\ new \in Seq(S) /\ Len(new) = Len(list) + 1
      /\ \A i \in 1 .. Len(list) : new[i] = list[i]
      /\ new[Len(list) + 1] = t
  BY DEF Listed
<1>. HIDE DEF new
<1>2. IsInjective(new)
  BY <1>1 DEF IsInjective, Range
<1>3. Range(new) = Range(list) \cup {t}
  BY <1>1 DEF Range
<1>. QED BY <1>1, <1>2, <1>3 DEF new

\* queue_delete_from_waiting takes a thread off the list, and nobody else.
LEMMA DeletedOnly ==
  ASSUME NEW S, NEW list \in Seq(S), IsInjective(list), NEW t
  PROVE  /\ Deleted(list, t) \in Seq(S) /\ IsInjective(Deleted(list, t))
         /\ Range(Deleted(list, t)) = Range(list) \ {t}
<1>1. CASE t \notin Range(list)
  BY <1>1 DEF Deleted
<1>2. CASE t \in Range(list)
  <2>. DEFINE i == CHOOSE j \in DOMAIN list : list[j] = t
              old(j) == IF j < i THEN j ELSE j + 1
              new == [j \in 1 .. Len(list) - 1 |-> list[old(j)]]
  <2>1. i \in 1 .. Len(list) /\ list[i] = t /\ DOMAIN list = 1 .. Len(list)
    BY <1>2 DEF Range
  <2>2. Deleted(list, t) = new
    BY <1>2 DEF Deleted
  <2>. HIDE DEF i
  <2>3. \A j \in 1 .. Len(list) - 1 : old(j) \in 1 .. Len(list) /\ old(j) # i
    BY <2>1
  <2>4. \A j, l \in 1 .. Len(list) - 1 : old(j) = old(l) => j = l
    BY <2>1
  <2>5. \A j \in 1 .. Len(list) : j # i => \E l \in 1 .. Len(list) - 1 : old(l) = j
    <3>. SUFFICES ASSUME NEW j \in 1 .. Len(list), j # i
                  PROVE  \E l \in 1 .. Len(list) - 1 : old(l) = j
      OBVIOUS
    <3>1. CASE j < i
      BY <2>1, <3>1
    <3>2. CASE j > i
      <4>1. j - 1 \in 1 .. Len(list) - 1 /\ old(j - 1) = j
        BY <2>1, <3>2
      <4>. QED BY <4>1, Zenon
    <3>. QED BY <2>1, <3>1, <3>2
  <2>6. \A j, l \in 1 .. Len(list) : list[j] = list[l] => j = l
    BY <2>1 DEF IsInjective
  <2>7. Len(list) - 1 \in Nat /\ \A j \in 1 .. Len(list) : list[j] \in S
    BY <2>1
  <2>. HIDE DEF old
  <2>8. new \in Seq(S) /\ DOMAIN new = 1 .. Len(list) - 1
    BY <2>3, <2>7
  <2>9. IsInjective(new)
    BY <2>3, <2>4, <2>6, Zenon DEF IsInjective
  <2>10. Range(new) = Range(list) \ {t}
    <3>1. ASSUME NEW j \in 1 .. Len(list) - 1 PROVE new[j] \in Range(list) /\ new[j] # t
      BY <2>1, <2>3, <2>6 DEF Range
    <3>2. ASSUME NEW j \in 1 .. Len(list), list[j] # t PROVE list[j] \in Range(new)
      <4>1. PICK l \in 1 .. Len(list) - 1 : old(l) = j
        BY <2>1, <2>5, <3>2
      <4>. QED BY <4>1 DEF Range
    <3>. QED BY <2>1, <2>8, <3>1, <3>2, Zenon DEF Range
  <2>. QED BY <2>2, <2>8, <2>9, <2>10
<1>. QED BY <1>1, <1>2

\* wakeup_first_thread, n times, wakes up n threads and takes them off the list,
\* unless the list runs out.
LEMMA FirstTaken ==
  ASSUME NEW S, NEW list \in Seq(S), IsInjective(list), NEW n \in Nat
  PROVE  /\ Rest(list, n) \in Seq(S) /\ IsInjective(Rest(list, n))
         /\ Range(Rest(list, n)) = Range(list) \ First(list, n)
         /\ First(list, n) \subseteq Range(list)
         /\ Rest(list, n) # <<>> => Cardinality(First(list, n)) = n
<1>. DEFINE new == Rest(list, n)
<1>1. CASE n < Len(list)
  <2>1. /\ new \in Seq(S) /\ Len(new) = Len(list) - n
        /\ \A i \in 1 .. Len(list) - n : new[i] = list[i + n]
    BY <1>1 DEF Rest
  <2>2. First(list, n) = {list[i] : i \in 1 .. n}
    BY <1>1 DEF First
  <2>. HIDE DEF new
  <2>3. IsInjective(new)
    <3>. SUFFICES ASSUME NEW i \in 1 .. Len(list) - n, NEW j \in 1 .. Len(list) - n, new[i] = new[j]
                  PROVE  i = j
      BY <2>1 DEF IsInjective
    <3>1. i + n \in 1 .. Len(list) /\ j + n \in 1 .. Len(list) /\ list[i + n] = list[j + n]
      BY <1>1, <2>1
    <3>. QED BY <3>1 DEF IsInjective
  <2>4. First(list, n) \subseteq Range(list)
    BY <1>1, <2>2 DEF Range
  <2>5. Range(new) \subseteq Range(list) \ First(list, n)
    <3>. SUFFICES ASSUME NEW i \in 1 .. Len(list) - n
                  PROVE  new[i] \in Range(list) /\ new[i] \notin First(list, n)
      BY <2>1 DEF Range
    <3>1. i + n \in 1 .. Len(list) /\ new[i] = list[i + n]
      BY <1>1, <2>1
    <3>2. \A j \in 1 .. n : list[j] # list[i + n]
      BY <1>1, <3>1 DEF IsInjective
    <3>. QED BY <2>2, <3>1, <3>2 DEF Range
  <2>6. Range(list) \ First(list, n) \subseteq Range(new)
    <3>. SUFFICES ASSUME NEW j \in 1 .. Len(list), j > n PROVE list[j] \in Range(new)
      BY <2>2 DEF Range
    <3>1. j - n \in 1 .. Len(new) /\ new[j - n] = list[j]
      BY <1>1, <2>1
    <3>. QED BY <2>1, <3>1 DEF Range
  <2>7. Cardinality(First(list, n)) = n
    <3>. DEFINE f == [i \in 1 .. n |-> list[i]]
    <3>1. f \in Bijection(1 .. n, First(list, n))
      BY <1>1, <2>2 DEF Bijection, Injection, Surjection, IsInjective
    <3>2. IsFiniteSet(1 .. n) /\ Cardinality(1 .. n) = n
      BY FS_Interval
    <3>. QED BY <3>1, <3>2, FS_Bijection DEF ExistsBijection
  <2>. QED BY <2>1, <2>3, <2>4, <2>5, <2>6, <2>7 DEF new
<1>2. CASE n >= Len(list)
  <2>1. new = <<>>
    BY <1>2 DEF Rest
  <2>2. First(list, n) = Range(list)
    BY <1>2 DEF First, Range
  <2>3. Range(<<>>) = {} /\ IsInjective(<<>>) /\ <<>> \in Seq(S)
    BY DEF Range, IsInjective
  <2>. QED BY <2>1, <2>2, <2>3
<1>. QED BY <1>1, <1>2

-----------------------------------------------------------------------------
\* The threads are finitely many, and so are those of any state.
LEMMA ThreadsCounted ==
  ASSUME NEW S \in SUBSET Threads
  PROVE  IsFiniteSet(S) /\ Cardinality(S) \in Nat
BY QueueAssumption, FS_Subset, FS_CardinalityType

\* A thread that leaves a set leaves at most one fewer behind.
LEMMA OneFewer ==
  ASSUME NEW S \in SUBSET Threads, NEW t
  PROVE  Cardinality(S) <= Cardinality(S \ {t}) + 1
<1>1. IsFiniteSet(S) /\ Cardinality(S) \in Nat
  BY ThreadsCounted
<1>2. Cardinality(S \ {t}) = IF t \in S THEN Cardinality(S) - 1 ELSE Cardinality(S)
  BY <1>1, FS_RemoveElement, Zenon
<1>. QED BY <1>1, <1>2

\* The threads that wakeup_first_thread takes off a list add to those served before.
LEMMA ServedMore ==
  ASSUME NEW S \in SUBSET Threads, NEW F \in SUBSET Threads, S \cap F = {}
  PROVE  Cardinality(S \cup F) = Cardinality(S) + Cardinality(F)
<1>1. IsFiniteSet(S) /\ Cardinality(S) \in Nat /\ IsFiniteSet(F) /\ Cardinality(F) \in Nat
  BY ThreadsCounted
<1>2. Cardinality(S \cup F) = Cardinality(S) + Cardinality(F) - Cardinality({})
  BY <1>1, FS_Union
<1>3. Cardinality({}) = 0
  BY FS_EmptySet
<1>. QED BY <1>1, <1>2, <1>3

\* A list without members is the empty array.
LEMMA NoneListed ==
  ASSUME NEW list \in Seq(Threads)
  PROVE  list # <<>> <=> Range(list) # {}
<1>1. DOMAIN list = 1 .. Len(list) /\ Len(list) \in Nat /\ (list = <<>> <=> Len(list) = 0)
  BY EmptySeq
<1>2. CASE Len(list) = 0
  BY <1>1, <1>2 DEF Range
<1>3. CASE Len(list) # 0
  <2>1. list[1] \in Range(list)
    BY <1>1, <1>3 DEF Range
  <2>. QED BY <1>1, <1>3, <2>1
<1>. QED BY <1>2, <1>3

\* The lengths and counts are natural numbers.
LEMMA Numbers ==
  ASSUME TypeOK
  PROVE  /\ que \in Nat /\ max \in Nat /\ MaxSize \in Nat /\ que <= MaxSize /\ max <= MaxSize
         /\ max >= 1 /\ swallowed["pop"] \in Nat /\ swallowed["push"] \in Nat
BY QueueAssumption DEF TypeOK

\* szqueue_do_pop, the first time or after a sleep, keeps the lists exact and
\* leaves a wakeup for every element and every free place.
LEMMA TryPopKeeps ==
  ASSUME IInv, NEW t \in Threads, pc[t] \in {"running", "pop"},
         NEW w \in Seq(Threads), IsInjective(w), Range(w) = Range(waiters) \ {t},
         TryPop(t, w), UNCHANGED <<pending, swallowed>>
  PROVE  IInv'
<1>. USE DEF GoTo
<1>0. /\ TypeOK /\ ListsExact /\ PopCovered /\ PushCovered
      /\ Served("pop", waiters) \in SUBSET Threads
      /\ Served("push", queue_waiters) \in SUBSET Threads
  BY DEF IInv, Served
<1>1. CASE que = 0
  <2>1. /\ waiters' = Listed(w, t) /\ pc' = [pc EXCEPT ![t] = "pop"]
        /\ stopped' = stopped \cup {t} /\ UNCHANGED <<que, max, queue_waiters>>
    BY <1>1 DEF TryPop
  <2>2. /\ Listed(w, t) \in Seq(Threads) /\ IsInjective(Listed(w, t))
        /\ Range(Listed(w, t)) = Range(waiters) \cup {t}
    BY ListedOnceMore
  <2>3. TypeOK'
    BY <1>0, <2>1, <2>2 DEF TypeOK
  <2>4. ListsExact'
    BY <1>0, <2>1, <2>2 DEF TypeOK, ListsExact, Asleep
  <2>5. PopCovered'
    <3>1. Cardinality(Served("pop", waiters)') \in Nat
      BY ThreadsCounted DEF Served
    <3>. QED BY <1>0, <1>1, <2>1, <3>1 DEF TypeOK, PopCovered
  <2>6. PushCovered'
    <3>1. Served("push", queue_waiters)' = Served("push", queue_waiters)
      BY <1>0, <2>1 DEF TypeOK, Served
    <3>. QED BY <1>0, <2>1, <3>1 DEF PushCovered
  <2>. QED BY <2>3, <2>4, <2>5, <2>6 DEF IInv
<1>2. CASE que # 0
  <2>. DEFINE n == SpaceMade
              F == First(queue_waiters, n)
  <2>1. /\ que' = que - 1 /\ waiters' = w /\ max' = max
        /\ queue_waiters' = Rest(queue_waiters, n) /\ stopped' = stopped \ F
        /\ pc' = [pc EXCEPT ![t] = "running"]
    BY <1>2 DEF TryPop
  <2>2. /\ n \in Nat
        /\ n = IF que - 1 < max THEN 1 ELSE 0
    BY DEF SpaceMade
  <2>3. /\ queue_waiters' \in Seq(Threads) /\ IsInjective(queue_waiters')
        /\ Range(queue_waiters') = Range(queue_waiters) \ F
        /\ F \subseteq Range(queue_waiters)
        /\ queue_waiters' # <<>> => Cardinality(F) = n
    BY <1>0, <2>1, <2>2, FirstTaken DEF TypeOK, ListsExact
  <2>. HIDE DEF n, F
  <2>4. TypeOK'
    BY <1>0, <1>2, <2>1, <2>3, Numbers DEF TypeOK
  <2>5. ListsExact'
    BY <1>0, <2>1, <2>3 DEF TypeOK, ListsExact, Asleep
  <2>6. PopCovered'
    <3>1. Served("pop", waiters)' = Served("pop", waiters) \ {t}
      BY <1>0, <2>1 DEF TypeOK, Served
    <3>2. Cardinality(Served("pop", waiters)) <= Cardinality(Served("pop", waiters) \ {t}) + 1
      BY <1>0, OneFewer
    <3>3. /\ Cardinality(Served("pop", waiters)) \in Nat
          /\ Cardinality(Served("pop", waiters) \ {t}) \in Nat
      BY <1>0, ThreadsCounted
    <3>4. waiters' # <<>> => waiters # <<>>
      BY <1>0, <2>1, NoneListed DEF TypeOK
    <3>5. waiters' # <<>> => que - 1 <= Cardinality(Served("pop", waiters) \ {t}) + swallowed["pop"]
      BY <1>0, <3>2, <3>3, <3>4, Numbers DEF PopCovered
    <3>. QED BY <2>1, <3>1, <3>5 DEF PopCovered
  <2>7. PushCovered'
    <3>. DEFINE S == Served("push", queue_waiters)
    <3>. SUFFICES ASSUME queue_waiters' # <<>>
                  PROVE  max' <= que' + Cardinality(Served("push", queue_waiters)') + swallowed'["push"]
      BY DEF PushCovered
    <3>1. F \in SUBSET Threads /\ S \cap F = {}
      BY <1>0, <2>3 DEF ListsExact, TypeOK, Range, Served
    <3>2. Served("push", queue_waiters)' = S \cup F
      BY <1>0, <2>1, <2>3, <3>1 DEF TypeOK, ListsExact, Served
    <3>3. Cardinality(S \cup F) = Cardinality(S) + n /\ Cardinality(S) \in Nat
      BY <1>0, <2>3, <3>1, ServedMore, ThreadsCounted
    <3>4. queue_waiters # <<>>
      BY <1>0, <2>3, NoneListed DEF TypeOK
    <3>. HIDE DEF S
    <3>5. max <= que + Cardinality(S) + swallowed["push"]
      BY <1>0, <3>4 DEF PushCovered, S
    <3>6. max <= (que - 1) + (Cardinality(S) + n) + swallowed["push"]
      BY <1>0, <2>2, <3>3, <3>5, Numbers
    <3>. QED BY <2>1, <3>2, <3>3, <3>6
  <2>. QED BY <2>4, <2>5, <2>6, <2>7 DEF IInv
<1>. QED BY <1>1, <1>2

\* rb_szqueue_push does, the first time or after a sleep.
LEMMA TryPushKeeps ==
  ASSUME IInv, NEW t \in Threads, pc[t] \in {"running", "push"},
         NEW w \in Seq(Threads), IsInjective(w), Range(w) = Range(queue_waiters) \ {t},
         TryPush(t, w), UNCHANGED <<pending, swallowed>>
  PROVE  IInv'
<1>. USE DEF GoTo
<1>0. /\ TypeOK /\ ListsExact /\ PopCovered /\ PushCovered
      /\ Served("pop", waiters) \in SUBSET Threads
      /\ Served("push", queue_waiters) \in SUBSET Threads
  BY DEF IInv, Served
<1>1. CASE Full(t)
  <2>1. /\ queue_waiters' = Listed(w, t) /\ pc' = [pc EXCEPT ![t] = "push"]
        /\ stopped' = stopped \cup {t} /\ UNCHANGED <<que, max, waiters>>
    BY <1>1 DEF TryPush
  <2>2. /\ Listed(w, t) \in Seq(Threads) /\ IsInjective(Listed(w, t))
        /\ Range(Listed(w, t)) = Range(queue_waiters) \cup {t}
    BY ListedOnceMore
  <2>3. TypeOK'
    BY <1>0, <2>1, <2>2 DEF TypeOK
  <2>4. ListsExact'
    BY <1>0, <2>1, <2>2 DEF TypeOK, ListsExact, Asleep
  <2>5. PopCovered'
    <3>1. Served("pop", waiters)' = Served("pop", waiters)
      BY <1>0, <2>1 DEF TypeOK, Served
    <3>. QED BY <1>0, <2>1, <3>1 DEF PopCovered
  <2>6. PushCovered'
    <3>1. Cardinality(Served("push", queue_waiters)') \in Nat
      BY ThreadsCounted DEF Served
    <3>2. max <= que + Cardinality(Served("push", queue_waiters)') + swallowed["push"]
      BY <1>0, <1>1, <3>1, Numbers DEF Full
    <3>. QED BY <2>1, <3>2 DEF PushCovered
  <2>. QED BY <2>3, <2>4, <2>5, <2>6 DEF IInv
<1>2. CASE ~Full(t)
  <2>. DEFINE F == First(waiters, ElementAdded)
  <2>1. /\ que' = que + 1 /\ queue_waiters' = w /\ max' = max
        /\ waiters' = Rest(waiters, ElementAdded) /\ stopped' = stopped \ F
        /\ pc' = [pc EXCEPT ![t] = "running"]
    BY <1>2 DEF TryPush
  <2>2. ElementAdded = 1
    BY DEF ElementAdded
  <2>3. /\ waiters' \in Seq(Threads) /\ IsInjective(waiters')
        /\ Range(waiters') = Range(waiters) \ F
        /\ F \subseteq Range(waiters)
        /\ waiters' # <<>> => Cardinality(F) = 1
    BY <1>0, <2>1, <2>2, FirstTaken DEF TypeOK, ListsExact
  <2>. HIDE DEF F
  <2>4. TypeOK'
    BY <1>0, <1>2, <2>1, <2>3, Numbers DEF TypeOK, Full
  <2>5. ListsExact'
    BY <1>0, <2>1, <2>3 DEF TypeOK, ListsExact, Asleep
  <2>6. PopCovered'
    <3>. DEFINE S == Served("pop", waiters)
    <3>. SUFFICES ASSUME waiters' # <<>>
                  PROVE  que' <= Cardinality(Served("pop", waiters)') + swallowed'["pop"]
      BY DEF PopCovered
    <3>1. F \in SUBSET Threads /\ S \cap F = {}
      BY <1>0, <2>3 DEF ListsExact, TypeOK, Range, Served
    <3>2. Served("pop", waiters)' = S \cup F
      BY <1>0, <2>1, <2>3, <3>1 DEF TypeOK, ListsExact, Served
    <3>3. Cardinality(S \cup F) = Cardinality(S) + 1 /\ Cardinality(S) \in Nat
      BY <1>0, <2>3, <3>1, ServedMore, ThreadsCounted
    <3>4. waiters # <<>>
      BY <1>0, <2>3, NoneListed DEF TypeOK
    <3>. HIDE DEF S
    <3>5. que <= Cardinality(S) + swallowed["pop"]
      BY <1>0, <3>4 DEF PopCovered, S
    <3>6. que + 1 <= (Cardinality(S) + 1) + swallowed["pop"]
      BY <1>0, <3>3, <3>5, Numbers
    <3>. QED BY <2>1, <3>2, <3>3, <3>6
  <2>7. PushCovered'
    <3>1. Served("push", queue_waiters)' = Served("push", queue_waiters) \ {t}
      BY <1>0, <2>1 DEF TypeOK, Served
    <3>2. Cardinality(Served("push", queue_waiters))
            <= Cardinality(Served("push", queue_waiters) \ {t}) + 1
      BY <1>0, OneFewer
    <3>3. /\ Cardinality(Served("push", queue_waiters)) \in Nat
          /\ Cardinality(Served("push", queue_waiters) \ {t}) \in Nat
      BY <1>0, ThreadsCounted
    <3>4. queue_waiters' # <<>> => queue_waiters # <<>>
      BY <1>0, <2>1, NoneListed DEF TypeOK
    <3>5. queue_waiters' # <<>> =>
            max <= (que + 1) + Cardinality(Served("push", queue_waiters) \ {t}) + swallowed["push"]
      BY <1>0, <3>2, <3>3, <3>4, Numbers DEF PushCovered
    <3>. QED BY <2>1, <3>1, <3>5 DEF PushCovered
  <2>. QED BY <2>4, <2>5, <2>6, <2>7 DEF IInv
<1>. QED BY <1>1, <1>2

\* rb_szqueue_max_set wakes up a thread for each new place, and none when the limit
\* falls, so that the queue may then be longer than its limit.
LEMMA MaxSetKeeps ==
  ASSUME IInv, NEW t \in Threads, NEW n \in 1 .. MaxSize, MaxSet(t, n)
  PROVE  IInv'
<1>. DEFINE g == Growth(n)
            F == First(queue_waiters, g)
            S == Served("push", queue_waiters)
<1>0. TypeOK /\ ListsExact /\ PopCovered /\ PushCovered /\ S \in SUBSET Threads /\ n \in Nat
  BY QueueAssumption DEF IInv, Served
<1>1. /\ max' = n /\ queue_waiters' = Rest(queue_waiters, g) /\ stopped' = stopped \ F
      /\ UNCHANGED <<que, waiters, pc, pending, swallowed>>
  BY DEF MaxSet
<1>2. g \in Nat /\ g >= n - max
  BY <1>0, Numbers DEF Growth
<1>3. /\ queue_waiters' \in Seq(Threads) /\ IsInjective(queue_waiters')
      /\ Range(queue_waiters') = Range(queue_waiters) \ F
      /\ F \subseteq Range(queue_waiters)
      /\ queue_waiters' # <<>> => Cardinality(F) = g
  BY <1>0, <1>1, <1>2, FirstTaken DEF TypeOK, ListsExact
<1>. HIDE DEF g, F
<1>4. TypeOK'
  BY <1>0, <1>1, <1>3 DEF TypeOK
<1>5. ListsExact'
  BY <1>0, <1>1, <1>3 DEF TypeOK, ListsExact, Asleep
<1>6. PopCovered'
  BY <1>0, <1>1 DEF PopCovered, Served
<1>7. PushCovered'
  <2>. SUFFICES ASSUME queue_waiters' # <<>>
                PROVE  max' <= que' + Cardinality(Served("push", queue_waiters)') + swallowed'["push"]
    BY DEF PushCovered
  <2>1. F \in SUBSET Threads /\ S \cap F = {}
    BY <1>0, <1>3 DEF ListsExact, TypeOK, Range, Served
  <2>2. Served("push", queue_waiters)' = S \cup F
    BY <1>0, <1>1, <1>3, <2>1 DEF TypeOK, ListsExact, Served
  <2>3. Cardinality(S \cup F) = Cardinality(S) + g /\ Cardinality(S) \in Nat
    BY <1>0, <1>3, <2>1, ServedMore, ThreadsCounted
  <2>4. queue_waiters # <<>>
    BY <1>0, <1>3, NoneListed DEF TypeOK
  <2>. HIDE DEF S
  <2>5. max <= que + Cardinality(S) + swallowed["push"]
    BY <1>0, <2>4 DEF PushCovered, S
  <2>6. n <= que + (Cardinality(S) + g) + swallowed["push"]
    BY <1>0, <1>2, <2>3, <2>5, Numbers
  <2>. QED BY <1>1, <2>2, <2>3, <2>6
<1>. QED BY <1>4, <1>5, <1>6, <1>7 DEF IInv

\* rb_szqueue_clear wakes up everybody who waits for a place.
LEMMA ClearKeeps ==
  ASSUME IInv, NEW t \in Threads, Clear(t)
  PROVE  IInv'
<1>0. TypeOK /\ ListsExact
  BY DEF IInv
<1>1. /\ que' = 0 /\ queue_waiters' = <<>> /\ stopped' = stopped \ Range(queue_waiters)
      /\ UNCHANGED <<max, waiters, pc, pending, swallowed>>
  BY DEF Clear
<1>2. Range(<<>>) = {} /\ IsInjective(<<>>)
  BY DEF Range, IsInjective
<1>3. TypeOK'
  BY <1>0, <1>1, Numbers DEF TypeOK
<1>4. ListsExact'
  BY <1>0, <1>1, <1>2 DEF TypeOK, ListsExact, Asleep
<1>5. PopCovered'
  <2>1. Cardinality(Served("pop", waiters)') \in Nat
    BY ThreadsCounted DEF Served
  <2>2. 0 <= Cardinality(Served("pop", waiters)') + swallowed["pop"]
    BY <1>0, <2>1, Numbers
  <2>. QED BY <1>1, <2>2 DEF PopCovered
<1>6. PushCovered'
  BY <1>1 DEF PushCovered
<1>. QED BY <1>3, <1>4, <1>5, <1>6 DEF IInv

\* A killed thread takes with it the wakeup that it was given, if it was given one;
\* `swallowed' counts these.
LEMMA DieKeeps ==
  ASSUME IInv, NEW t \in Threads, Die(t)
  PROVE  IInv'
<1>. DEFINE P == Served("pop", waiters)
            Q == Served("push", queue_waiters)
<1>0. /\ TypeOK /\ ListsExact /\ PopCovered /\ PushCovered
      /\ P \in SUBSET Threads /\ Q \in SUBSET Threads
  BY DEF IInv, Served
<1>1. /\ waiters' = Deleted(waiters, t) /\ queue_waiters' = Deleted(queue_waiters, t)
      /\ pc' = [pc EXCEPT ![t] = "dead"]
      /\ stopped' = stopped \ {t} /\ pending' = pending \ {t}
      /\ UNCHANGED <<que, max>>
  BY DEF Die, GoTo
<1>2. /\ waiters' \in Seq(Threads) /\ IsInjective(waiters')
      /\ Range(waiters') = Range(waiters) \ {t}
      /\ queue_waiters' \in Seq(Threads) /\ IsInjective(queue_waiters')
      /\ Range(queue_waiters') = Range(queue_waiters) \ {t}
  BY <1>0, <1>1, DeletedOnly DEF TypeOK, ListsExact
<1>4. /\ swallowed' \in [{"pop", "push"} -> Nat]
      /\ swallowed'["pop"] = IF t \in P THEN swallowed["pop"] + 1 ELSE swallowed["pop"]
      /\ swallowed'["push"] = IF t \in Q THEN swallowed["push"] + 1 ELSE swallowed["push"]
  BY <1>0, SMTT(20) DEF Die, TypeOK, ListsExact, Served
<1>5. TypeOK'
  BY <1>0, <1>1, <1>2, <1>4 DEF TypeOK
<1>6. ListsExact'
  BY <1>0, <1>1, <1>2 DEF TypeOK, ListsExact, Asleep
<1>7. Served("pop", waiters)' = P \ {t} /\ Served("push", queue_waiters)' = Q \ {t}
  BY <1>0, <1>1, <1>2 DEF TypeOK, Served
<1>8. (waiters' # <<>> => waiters # <<>>) /\ (queue_waiters' # <<>> => queue_waiters # <<>>)
  BY <1>0, <1>2, NoneListed DEF TypeOK
<1>. HIDE DEF P, Q
<1>9. /\ Cardinality(P \ {t}) = IF t \in P THEN Cardinality(P) - 1 ELSE Cardinality(P)
      /\ Cardinality(Q \ {t}) = IF t \in Q THEN Cardinality(Q) - 1 ELSE Cardinality(Q)
      /\ Cardinality(P) \in Nat /\ Cardinality(Q) \in Nat
  BY <1>0, ThreadsCounted, FS_RemoveElement
<1>10. PopCovered'
  <2>1. waiters # <<>> => que <= Cardinality(P) + swallowed["pop"]
    BY <1>0 DEF PopCovered, P
  <2>2. waiters # <<>> => que <= Cardinality(P \ {t}) + swallowed'["pop"]
    BY <1>0, <1>4, <1>9, <2>1, Numbers
  <2>. QED BY <1>1, <1>7, <1>8, <2>2 DEF PopCovered
<1>11. PushCovered'
  <2>1. queue_waiters # <<>> => max <= que + Cardinality(Q) + swallowed["push"]
    BY <1>0 DEF PushCovered, Q
  <2>2. queue_waiters # <<>> => max <= que + Cardinality(Q \ {t}) + swallowed'["push"]
    BY <1>0, <1>4, <1>9, <2>1, Numbers
  <2>. QED BY <1>1, <1>7, <1>8, <2>2 DEF PushCovered
<1>. QED BY <1>5, <1>6, <1>10, <1>11 DEF IInv

\* The invariant holds of a new queue.
LEMMA InitInv == Init => IInv
<1>. SUFFICES ASSUME Init PROVE IInv
  OBVIOUS
<1>1. TypeOK
  BY QueueAssumption DEF Init, TypeOK
<1>2. ListsExact
  BY DEF Init, ListsExact, IsInjective, Range, Asleep
<1>. QED BY <1>1, <1>2 DEF Init, IInv, PopCovered, PushCovered

\* Every method, wakeup and kill keeps it.
LEMMA StepInv == IInv /\ [Next]_vars => IInv'
<1>. SUFFICES ASSUME IInv, [Next]_vars PROVE IInv'
  OBVIOUS
<1>0. TypeOK /\ ListsExact
  BY DEF IInv
<1>1. ASSUME NEW t \in Threads, Pop(t) PROVE IInv'
  <2>1. Range(waiters) = Range(waiters) \ {t} /\ waiters \in Seq(Threads) /\ IsInjective(waiters)
    BY <1>0, <1>1 DEF Pop, TypeOK, ListsExact
  <2>. QED BY <1>1, <2>1, TryPopKeeps DEF Pop
<1>2. ASSUME NEW t \in Threads, Push(t) PROVE IInv'
  <2>1. /\ Range(queue_waiters) = Range(queue_waiters) \ {t}
        /\ queue_waiters \in Seq(Threads) /\ IsInjective(queue_waiters)
    BY <1>0, <1>2 DEF Push, TypeOK, ListsExact
  <2>. QED BY <1>2, <2>1, TryPushKeeps DEF Push
<1>3. ASSUME NEW t \in Threads, PopAgain(t) PROVE IInv'
  <2>1. /\ Deleted(waiters, t) \in Seq(Threads) /\ IsInjective(Deleted(waiters, t))
        /\ Range(Deleted(waiters, t)) = Range(waiters) \ {t}
    BY <1>0, DeletedOnly DEF TypeOK, ListsExact
  <2>. QED BY <1>3, <2>1, TryPopKeeps DEF PopAgain
<1>4. ASSUME NEW t \in Threads, PushAgain(t) PROVE IInv'
  <2>1. /\ Deleted(queue_waiters, t) \in Seq(Threads) /\ IsInjective(Deleted(queue_waiters, t))
        /\ Range(Deleted(queue_waiters, t)) = Range(queue_waiters) \ {t}
    BY <1>0, DeletedOnly DEF TypeOK, ListsExact
  <2>. QED BY <1>4, <2>1, TryPushKeeps DEF PushAgain
<1>5. ASSUME NEW t \in Threads, NEW u \in Threads, Wakeup(t, u) \/ Kill(t, u) PROVE IInv'
  <2>1. /\ stopped' \subseteq stopped /\ pending' \subseteq pending \cup {u}
        /\ UNCHANGED <<que, max, waiters, queue_waiters, pc, swallowed>>
    BY <1>5 DEF Wakeup, Kill, queue
  <2>2. TypeOK'
    BY <1>0, <2>1 DEF TypeOK
  <2>3. ListsExact'
    BY <1>0, <2>1 DEF ListsExact, Asleep
  <2>. QED BY <2>1, <2>2, <2>3 DEF IInv, PopCovered, PushCovered, Served
<1>6. ASSUME UNCHANGED vars PROVE IInv'
  BY <1>6 DEF vars, queue, IInv, TypeOK, ListsExact, Asleep, PopCovered, PushCovered, Served
<1>. QED BY <1>1, <1>2, <1>3, <1>4, <1>5, <1>6, ClearKeeps, DieKeeps, MaxSetKeeps DEF Next

\* The inductive invariant of the queue.
THEOREM Inductive == Spec => []IInv
BY InitInv, StepInv, PTL DEF Spec

\* The variables keep their types: in particular the queue never holds more elements
\* than the greatest limit it may be given.
THEOREM TypeCorrect == Spec => []TypeOK
<1>1. IInv => TypeOK
  BY DEF IInv
<1>. QED BY <1>1, Inductive, PTL

\* num_waiting is right: the lists hold every thread that sleeps in pop or push, once,
\* and nobody who left, however the sleep ended.
THEOREM ListsAlwaysExact == Spec => []ListsExact
<1>1. IInv => ListsExact
  BY DEF IInv
<1>. QED BY <1>1, Inductive, PTL

\* Sleepers are listed, so the threads taken off the list are awake.
LEMMA ServedAreAwake ==
  ASSUME TypeOK, NEW m, NEW list \in Seq(Threads), Asleep(m) \subseteq Range(list), Asleep(m) # {}
  PROVE  /\ list # <<>>
         /\ Cardinality(Served(m, list)) <= Cardinality(Woken(m))
         /\ Cardinality(Served(m, list)) \in Nat /\ Cardinality(Woken(m)) \in Nat
<1>1. list # <<>>
  BY NoneListed
<1>2. Served(m, list) \subseteq Woken(m) /\ Woken(m) \in SUBSET Threads
  BY DEF Served, Asleep, Woken
<1>3. IsFiniteSet(Woken(m)) /\ Cardinality(Woken(m)) \in Nat
  BY <1>2, ThreadsCounted
<1>4. Cardinality(Served(m, list)) <= Cardinality(Woken(m)) /\ Cardinality(Served(m, list)) \in Nat
  BY <1>2, <1>3, FS_Subset, ThreadsCounted
<1>. QED BY <1>1, <1>3, <1>4

\* No wakeup of a thread in pop is lost, other than with a thread that is killed:
\* queue_do_push wakes up one thread per element and whoever takes an element in
\* between leaves no more elements than woken threads.
THEOREM PopWakeups == Spec => []PopWakeupKept
<1>1. IInv => PopWakeupKept
  <2>. SUFFICES ASSUME IInv, Asleep("pop") # {}
                PROVE  que <= Cardinality(Woken("pop")) + swallowed["pop"]
    BY DEF PopWakeupKept
  <2>0. TypeOK /\ waiters \in Seq(Threads) /\ Asleep("pop") \subseteq Range(waiters)
    BY DEF IInv, TypeOK, ListsExact
  <2>1. /\ waiters # <<>>
        /\ Cardinality(Served("pop", waiters)) <= Cardinality(Woken("pop"))
        /\ Cardinality(Served("pop", waiters)) \in Nat /\ Cardinality(Woken("pop")) \in Nat
    BY <2>0, ServedAreAwake
  <2>2. que <= Cardinality(Served("pop", waiters)) + swallowed["pop"]
    BY <2>1 DEF IInv, PopCovered
  <2>. QED BY <2>0, <2>1, <2>2, Numbers
<1>. QED BY <1>1, Inductive, PTL

\* No wakeup of a thread in push is lost either: there is a woken thread for every
\* free place, through changes of the limit in both directions.
THEOREM PushWakeups == Spec => []PushWakeupKept
<1>1. IInv => PushWakeupKept
  <2>. SUFFICES ASSUME IInv, Asleep("push") # {}
                PROVE  max <= que + Cardinality(Woken("push")) + swallowed["push"]
    BY DEF PushWakeupKept
  <2>0. TypeOK /\ queue_waiters \in Seq(Threads) /\ Asleep("push") \subseteq Range(queue_waiters)
    BY DEF IInv, TypeOK, ListsExact
  <2>1. /\ queue_waiters # <<>>
        /\ Cardinality(Served("push", queue_waiters)) <= Cardinality(Woken("push"))
        /\ Cardinality(Served("push", queue_waiters)) \in Nat /\ Cardinality(Woken("push")) \in Nat
    BY <2>0, ServedAreAwake
  <2>2. max <= que + Cardinality(Served("push", queue_waiters)) + swallowed["push"]
    BY <2>1 DEF IInv, PushCovered
  <2>. QED BY <2>0, <2>1, <2>2, Numbers
<1>. QED BY <1>1, Inductive, PTL

\* rb_szqueue_push tests the limit again after each sleep: no step makes the queue
\* longer than its limit.
THEOREM LimitKept == Spec => WithinLimit
<1>1. TypeOK /\ [Next]_vars => [que' > que => que' <= max]_vars
  <2>. SUFFICES ASSUME TypeOK, Next, que' > que PROVE que' <= max
    OBVIOUS
  <2>. USE Numbers
  <2>1. PICK t \in Threads :
          \/ Pop(t) \/ Push(t) \/ PopAgain(t) \/ PushAgain(t) \/ Clear(t) \/ Die(t)
          \/ \E n \in 1 .. MaxSize : MaxSet(t, n)
          \/ \E u \in Threads : Wakeup(t, u) \/ Kill(t, u)
    BY DEF Next
  <2>2. CASE Pop(t) \/ PopAgain(t)
    <3>1. que' = que \/ que' = que - 1
      BY <2>2 DEF Pop, PopAgain, TryPop
    <3>. QED BY <3>1
  <2>3. CASE Push(t) \/ PushAgain(t)
    <3>1. que' = que \/ (que' = que + 1 /\ ~(que >= max))
      BY <2>3 DEF Push, PushAgain, TryPush, Full
    <3>. QED BY <3>1
  <2>4. CASE Clear(t) \/ Die(t) \/ \E n \in 1 .. MaxSize : MaxSet(t, n)
    <3>1. que' = que \/ que' = 0
      BY <2>4 DEF Clear, Die, MaxSet
    <3>. QED BY <3>1
  <2>5. CASE \E u \in Threads : Wakeup(t, u) \/ Kill(t, u)
    <3>1. que' = que
      BY <2>5 DEF Wakeup, Kill, queue
    <3>. QED BY <3>1
  <2>. QED BY <2>1, <2>2, <2>3, <2>4, <2>5
<1>. QED BY <1>1, TypeCorrect, PTL DEF Spec, WithinLimit
=============================================================================
