------------------------- MODULE RecordTableProofs -------------------------
(***************************************************************************)
(* The safety properties of RecordTable for every number of tasks, keys    *)
(* and slots and every hash function.                                      *)
(*                                                                         *)
(* None of the properties is inductive.  IInv adds what a task in the loop *)
(* knows about the slots it has passed: they are all taken (Scanned), and  *)
(* if its key was in the table when it began, it has not passed it yet     *)
(* (Tracked).  What holds of one task survives the steps of the others     *)
(* because a slot that is taken keeps its id (SlotsKept).                  *)
(***************************************************************************)
EXTENDS RecordTable, TLAPS

Searching(t) == pc[t] \in {"compare", "vacant", "swap"}

\* Every slot a searching task has passed is taken, and a task that looks at a
\* slot has not run past the end of the loop.
Scanned(t) ==
  Searching(t) =>
    /\ pc[t] # "compare" => probes[t] <= MAX_PROBES
    /\ \A q \in 0 .. probes[t] - 1 : record_id[Index(key[t], q)] # UNALLOCATED

\* A call whose key was in the table when it began has the key ahead of it, at
\* a place that no other slot of its probe sequence can come to precede.
Tracked(t) ==
  Searching(t) /\ first[t] < MAX_RECORDS =>
    /\ record_id[Index(key[t], first[t])] = key[t]
    /\ \A q \in 0 .. first[t] - 1 :
         record_id[Index(key[t], q)] \notin {UNALLOCATED, key[t]}
    /\ probes[t] <= first[t]
    /\ pc[t] # "compare" => probes[t] # first[t]

\* ResultHoldsKey, SettledLookup and AbortOnlyWhenFull for one task.
Outcome(t) ==
  /\ pc[t] = "returned" /\ result[t] # NULL => record_id[result[t]] = key[t]
  /\ pc[t] = "returned" /\ first[t] < MAX_RECORDS =>
       result[t] = Index(key[t], first[t])
  /\ pc[t] = "aborted" \/ (pc[t] = "returned" /\ result[t] = NULL) =>
       \A s \in Slots : record_id[s] # UNALLOCATED

TaskInv(t) == Scanned(t) /\ Tracked(t) /\ Outcome(t)

IInv == TypeOK /\ ProbeChain /\ \A t \in Tasks : TaskInv(t)

-----------------------------------------------------------------------------
\* The index computed from a probe is a slot of the table.
LEMMA IndexType ==
  ASSUME NEW k \in Keys, NEW p \in Nat
  PROVE  Index(k, p) \in Slots
  BY TableAssumption DEF Index, Slots

\* The first MAX_RECORDS probes of a key reach every slot.
LEMMA IndexOnto ==
  ASSUME NEW k \in Keys, NEW s \in Slots
  PROVE  \E p \in 0 .. MAX_RECORDS - 1 : Index(k, p) = s
<1>1. CASE s >= Base[k]
  <2>1. (Base[k] + (s - Base[k])) % MAX_RECORDS = s
    BY <1>1, TableAssumption DEF Slots
  <2>. QED BY <1>1, <2>1, TableAssumption DEF Index, Slots
<1>2. CASE s < Base[k]
  <2>1. (s + MAX_RECORDS) % MAX_RECORDS = s
    BY TableAssumption DEF Slots
  <2>2. Base[k] + (s - Base[k] + MAX_RECORDS) = s + MAX_RECORDS
    BY TableAssumption DEF Slots
  <2>3. s - Base[k] + MAX_RECORDS \in 0 .. MAX_RECORDS - 1
    BY <1>2, TableAssumption DEF Slots
  <2>4. Index(k, s - Base[k] + MAX_RECORDS) = s
    BY <2>1, <2>2 DEF Index
  <2>. QED BY <2>3, <2>4
<1>. QED BY <1>1, <1>2, TableAssumption DEF Slots

\* A sum of a base and a probe exceeds the table by less than its size.
LEMMA IndexCases ==
  ASSUME NEW k \in Keys, NEW p \in 0 .. MAX_RECORDS - 1
  PROVE  Index(k, p) = IF Base[k] + p < MAX_RECORDS
                         THEN Base[k] + p ELSE Base[k] + p - MAX_RECORDS
<1>1. Base[k] \in 0 .. MAX_RECORDS - 1 /\ MAX_RECORDS \in Nat \ {0}
  BY TableAssumption DEF Slots
<1>2. ASSUME NEW x \in 0 .. MAX_RECORDS - 1
      PROVE  x % MAX_RECORDS = x /\ (x + MAX_RECORDS) % MAX_RECORDS = x
  BY <1>1
<1>3. CASE Base[k] + p < MAX_RECORDS
  <2>1. (Base[k] + p) \in 0 .. MAX_RECORDS - 1
    BY <1>1, <1>3
  <2>. QED BY <1>2, <1>3, <2>1 DEF Index
<1>4. CASE ~(Base[k] + p < MAX_RECORDS)
  <2>1. (Base[k] + p - MAX_RECORDS) \in 0 .. MAX_RECORDS - 1
    BY <1>1, <1>4
  <2>2. (Base[k] + p - MAX_RECORDS) + MAX_RECORDS = Base[k] + p
    BY <1>1
  <2>3. (Base[k] + p) % MAX_RECORDS = Base[k] + p - MAX_RECORDS
    BY <1>2, <2>1, <2>2
  <2>. QED BY <1>4, <2>3 DEF Index
<1>. QED BY <1>3, <1>4

\* The first MAX_RECORDS probes of a key reach no slot twice.
LEMMA IndexOneToOne ==
  ASSUME NEW k \in Keys,
         NEW p \in 0 .. MAX_RECORDS - 1, NEW q \in 0 .. MAX_RECORDS - 1,
         Index(k, p) = Index(k, q)
  PROVE  p = q
<1>1. Base[k] \in 0 .. MAX_RECORDS - 1 /\ MAX_RECORDS \in Nat \ {0}
  BY TableAssumption DEF Slots
<1>. QED BY <1>1, IndexCases

\* The last probe of the loop looks at the slot of the first one again.
LEMMA IndexWraps ==
  ASSUME NEW k \in Keys
  PROVE  Index(k, MAX_RECORDS) = Index(k, 0)
  BY TableAssumption DEF Index, Slots

\* A slot that has been taken keeps its record id.
LEMMA SlotsKept ==
  ASSUME TypeOK, [Next]_vars, NEW s \in Slots, record_id[s] # UNALLOCATED
  PROVE  record_id'[s] = record_id[s]
<1>1. ASSUME NEW t \in Tasks, Swap(t)
      PROVE  record_id'[s] = record_id[s]
  BY <1>1 DEF TypeOK, Swap
<1>. QED
  BY <1>1 DEF Next, Step, Call, Compare, Vacant, SearchAgain, GiveUp, Resume, vars

-----------------------------------------------------------------------------
\* Every step keeps the types.
LEMMA TypeStep == IInv /\ [Next]_vars => TypeOK'
<1>. SUFFICES ASSUME IInv, [Next]_vars PROVE TypeOK'
  OBVIOUS
<1>. TypeOK
  BY DEF IInv
<1>0. \A t \in Tasks : pc[t] \in {"vacant", "swap"} => probes[t] <= MAX_PROBES
  BY DEF IInv, TaskInv, Scanned, Searching
<1>. USE TableAssumption DEF TypeOK, MAX_PROBES
<1>1. ASSUME NEW t \in Tasks, NEW k \in Keys, Call(t, k) PROVE TypeOK'
  BY <1>1 DEF Call
<1>2. ASSUME NEW t \in Tasks, Compare(t) PROVE TypeOK'
  <2>1. Index(key[t], probes[t]) \in Slots
    BY IndexType
  <2>. QED BY <1>2, <2>1 DEF Compare, Return
<1>3. ASSUME NEW t \in Tasks, Vacant(t) PROVE TypeOK'
  BY <1>0, <1>3 DEF Vacant, NextProbe
<1>4. ASSUME NEW t \in Tasks, Swap(t) PROVE TypeOK'
  <2>1. Index(key[t], probes[t]) \in Slots
    BY IndexType
  <2>. QED BY <1>0, <1>4, <2>1 DEF Swap, Return, NextProbe
<1>5. ASSUME NEW t \in Tasks, SearchAgain(t) PROVE TypeOK'
  BY <1>5 DEF SearchAgain
<1>6. ASSUME NEW t \in Tasks, GiveUp(t) PROVE TypeOK'
  BY <1>6 DEF GiveUp
<1>7. ASSUME NEW t \in Tasks, Resume(t) PROVE TypeOK'
  BY <1>7 DEF Resume
<1>8. CASE UNCHANGED vars
  BY <1>8 DEF vars
<1>. QED BY <1>1, <1>2, <1>3, <1>4, <1>5, <1>6, <1>7, <1>8 DEF Next, Step

\* A task that does not move keeps its part of the invariant.
LEMMA OthersKept ==
  ASSUME IInv, [Next]_vars, NEW u \in Tasks,
         pc'[u] = pc[u], key'[u] = key[u], probes'[u] = probes[u],
         result'[u] = result[u], first'[u] = first[u]
  PROVE  TaskInv(u)'
<1>. USE TableAssumption
<1>1. TypeOK /\ TaskInv(u)
  BY DEF IInv
<1>2. \A s \in Slots : record_id[s] # UNALLOCATED => record_id'[s] = record_id[s]
  BY <1>1, SlotsKept
<1>3. \A q \in Nat : Index(key[u], q) \in Slots
  BY <1>1, IndexType DEF TypeOK
<1>4. Scanned(u)'
  BY <1>1, <1>2, <1>3 DEF TypeOK, TaskInv, Scanned, Searching, MAX_PROBES
<1>5. Tracked(u)'
  BY <1>1, <1>2, <1>3 DEF TypeOK, TaskInv, Tracked, Searching
<1>6. Outcome(u)'
  BY <1>1, <1>2, <1>3 DEF TypeOK, TaskInv, Outcome
<1>. QED BY <1>4, <1>5, <1>6 DEF TaskInv

\* Taking a slot leaves no hole before it: the taker has passed only taken
\* slots, and none of them twice.
LEMMA ChainStep == IInv /\ [Next]_vars => ProbeChain'
<1>. SUFFICES ASSUME IInv, [Next]_vars,
                     NEW k \in Keys, NEW p \in 0 .. MAX_RECORDS - 1,
                     record_id'[Index(k, p)] = k,
                     NEW q \in 0 .. p - 1
              PROVE  record_id'[Index(k, q)] # UNALLOCATED
  BY DEF ProbeChain
<1>. USE TableAssumption
<1>1. TypeOK /\ ProbeChain /\ \A t \in Tasks : TaskInv(t)
  BY DEF IInv
<1>2. Index(k, p) \in Slots /\ Index(k, q) \in Slots
  BY IndexType
<1>3. SUFFICES record_id[Index(k, q)] # UNALLOCATED
  BY <1>1, <1>2, SlotsKept DEF TypeOK
<1>4. CASE record_id[Index(k, p)] = k
  BY <1>1, <1>4 DEF ProbeChain
<1>5. CASE record_id[Index(k, p)] # k
  <2>1. PICK t \in Tasks : Swap(t)
    BY <1>5 DEF Next, Step, Call, Compare, Vacant, SearchAgain, GiveUp, Resume, vars
  <2>2. /\ Index(key[t], probes[t]) = Index(k, p)
        /\ record_id[Index(key[t], probes[t])] = UNALLOCATED
        /\ key[t] = k
    BY <1>1, <1>2, <1>5, <2>1 DEF Swap, TypeOK
  <2>3. \A r \in 0 .. probes[t] - 1 : record_id[Index(k, r)] # UNALLOCATED
    BY <1>1, <2>1, <2>2 DEF TaskInv, Scanned, Searching, Swap
  <2>4. probes[t] \in 0 .. MAX_RECORDS
    BY <1>1, <2>1 DEF TypeOK, TaskInv, Scanned, Searching, Swap, MAX_PROBES
  <2>5. probes[t] # MAX_RECORDS
    BY <2>2, <2>3, IndexWraps
  <2>6. probes[t] = p
    BY <2>2, <2>4, <2>5, IndexOneToOne
  <2>. QED BY <2>3, <2>6
<1>. QED BY <1>4, <1>5

\* The task that moves keeps its part of the invariant: one case per step of
\* get_record.
LEMMA ActorKept ==
  ASSUME IInv, [Next]_vars, NEW t \in Tasks,
         Step(t) \/ Resume(t) \/ \E k \in Keys : Call(t, k)
  PROVE  TaskInv(t)'
<1>. USE TableAssumption
<1>1. TypeOK /\ ProbeChain /\ Scanned(t) /\ Tracked(t) /\ Outcome(t)
  BY DEF IInv, TaskInv
<1>2. \A q \in Nat : Index(key[t], q) \in Slots
  BY <1>1, IndexType DEF TypeOK
<1>3. \A s \in Slots : record_id[s] # UNALLOCATED => record_id'[s] = record_id[s]
  BY <1>1, SlotsKept
<1>4. ASSUME NEW k \in Keys, Call(t, k) PROVE TaskInv(t)'
  <2>1. pc'[t] = "compare" /\ probes'[t] = 0 /\ key'[t] = k /\ record_id' = record_id
    BY <1>1, <1>4 DEF Call, TypeOK
  <2>2. PICK p \in 0 .. MAX_RECORDS : FoundAt(k, p) /\ first'[t] = p
    BY <1>1, <1>4 DEF Call, TypeOK
  <2>3. Scanned(t)'
    BY <2>1 DEF Scanned
  <2>4. ASSUME p < MAX_RECORDS, NEW q \in 0 .. p - 1
        PROVE  record_id[Index(k, q)] \notin {UNALLOCATED, k}
    BY <1>1, <2>2, <2>4 DEF FoundAt, ProbeChain
  <2>5. Tracked(t)'
    BY <2>1, <2>2, <2>4 DEF Tracked, FoundAt
  <2>6. Outcome(t)'
    BY <2>1 DEF Outcome
  <2>. QED BY <2>3, <2>5, <2>6 DEF TaskInv
<1>5. CASE Compare(t)
  <2>1. /\ record_id' = record_id /\ key'[t] = key[t]
        /\ probes'[t] = probes[t] /\ first'[t] = first[t]
        /\ Searching(t) /\ probes[t] <= MAX_PROBES
    BY <1>5 DEF Compare, Searching
  <2>2. CASE record_id[Index(key[t], probes[t])] = key[t]
    <3>1. pc'[t] = "returned" /\ result'[t] = Index(key[t], probes[t])
      BY <1>1, <1>5, <2>2 DEF Compare, Return, TypeOK
    <3>2. first[t] < MAX_RECORDS => probes[t] = first[t]
      BY <1>1, <2>1, <2>2 DEF Tracked, TypeOK
    <3>. QED
      BY <1>1, <1>2, <2>1, <2>2, <3>1, <3>2
      DEF TaskInv, Scanned, Tracked, Outcome, Searching, TypeOK
  <2>3. CASE record_id[Index(key[t], probes[t])] # key[t]
    <3>1. pc'[t] = "vacant"
      BY <1>1, <1>5, <2>3 DEF Compare, TypeOK
    <3>2. first[t] < MAX_RECORDS => probes[t] # first[t]
      BY <1>1, <2>1, <2>3 DEF Tracked
    <3>. QED
      BY <1>1, <2>1, <3>1, <3>2
      DEF TaskInv, Scanned, Tracked, Outcome, Searching, MAX_PROBES
  <2>. QED BY <2>2, <2>3
<1>6. CASE Vacant(t)
  <2>1. /\ record_id' = record_id /\ key'[t] = key[t] /\ first'[t] = first[t]
        /\ Searching(t) /\ pc[t] = "vacant"
    BY <1>6 DEF Vacant, Searching
  <2>2. CASE record_id[Index(key[t], probes[t])] = UNALLOCATED
    <3>1. pc'[t] = "swap" /\ probes'[t] = probes[t]
      BY <1>1, <1>6, <2>2 DEF Vacant, TypeOK
    <3>. QED
      BY <1>1, <2>1, <3>1 DEF TaskInv, Scanned, Tracked, Outcome, Searching, MAX_PROBES
  <2>3. CASE record_id[Index(key[t], probes[t])] # UNALLOCATED
    <3>1. pc'[t] = "compare" /\ probes'[t] = probes[t] + 1
      BY <1>1, <1>6, <2>3 DEF Vacant, NextProbe, TypeOK
    <3>2. Scanned(t)'
      BY <1>1, <2>1, <2>3, <3>1 DEF Scanned, TypeOK
    <3>3. Tracked(t)'
      BY <1>1, <2>1, <3>1 DEF Tracked, Searching, TypeOK
    <3>. QED BY <3>1, <3>2, <3>3 DEF TaskInv, Outcome
  <2>. QED BY <2>2, <2>3
<1>7. CASE Swap(t)
  <2>1. /\ key'[t] = key[t] /\ first'[t] = first[t]
        /\ Searching(t) /\ pc[t] = "swap" /\ probes[t] <= MAX_RECORDS
    BY <1>1, <1>7 DEF Swap, Searching, Scanned, MAX_PROBES
  <2>2. CASE record_id[Index(key[t], probes[t])] \in {UNALLOCATED, key[t]}
    <3>1. /\ pc'[t] = "returned" /\ result'[t] = Index(key[t], probes[t])
          /\ record_id'[Index(key[t], probes[t])] = key[t]
      BY <1>1, <1>2, <1>7, <2>2 DEF Swap, Return, TypeOK
    <3>2. ~(first[t] < MAX_RECORDS)
      BY <1>1, <2>1, <2>2 DEF Tracked, TypeOK
    <3>. QED
      BY <1>1, <1>2, <2>1, <3>1, <3>2
      DEF TaskInv, Scanned, Tracked, Outcome, Searching, TypeOK
  <2>3. CASE record_id[Index(key[t], probes[t])] \notin {UNALLOCATED, key[t]}
    <3>1. pc'[t] = "compare" /\ probes'[t] = probes[t] + 1 /\ record_id' = record_id
      BY <1>1, <1>7, <2>3 DEF Swap, NextProbe, TypeOK
    <3>2. Scanned(t)'
      BY <1>1, <2>1, <2>3, <3>1 DEF Scanned, TypeOK
    <3>3. Tracked(t)'
      BY <1>1, <2>1, <3>1 DEF Tracked, Searching, TypeOK
    <3>. QED BY <3>1, <3>2, <3>3 DEF TaskInv, Outcome
  <2>. QED BY <2>2, <2>3
<1>8. CASE SearchAgain(t)
  <2>1. /\ record_id' = record_id /\ key'[t] = key[t] /\ first'[t] = first[t]
        /\ pc[t] = "compare" /\ pc'[t] = "compare" /\ probes'[t] = 0
    BY <1>1, <1>8 DEF SearchAgain, TypeOK
  <2>. QED
    BY <1>1, <2>1 DEF TaskInv, Scanned, Tracked, Outcome, Searching, TypeOK
<1>9. CASE GiveUp(t)
  <2>1. /\ record_id' = record_id /\ first'[t] = first[t]
        /\ pc[t] = "compare" /\ pc'[t] \in {"returned", "aborted"}
        /\ probes[t] = MAX_RECORDS + 1 /\ result'[t] = NULL
    BY <1>1, <1>9 DEF GiveUp, TypeOK, MAX_PROBES
  <2>2. \A q \in 0 .. MAX_RECORDS - 1 : record_id[Index(key[t], q)] # UNALLOCATED
    BY <1>1, <2>1 DEF Scanned, Searching
  <2>3. key[t] \in Keys
    BY <1>1 DEF TypeOK
  <2>4. \A s \in Slots : record_id[s] # UNALLOCATED
    BY <2>2, <2>3, IndexOnto
  <2>5. ~(first[t] < MAX_RECORDS)
    BY <1>1, <2>1 DEF Tracked, Searching, TypeOK
  <2>. QED
    BY <2>1, <2>4, <2>5 DEF TaskInv, Scanned, Tracked, Outcome, Searching
<1>10. CASE Resume(t)
  <2>1. pc'[t] = "idle"
    BY <1>1, <1>10 DEF Resume, TypeOK
  <2>. QED BY <2>1 DEF TaskInv, Scanned, Tracked, Outcome, Searching
<1>. QED BY <1>4, <1>5, <1>6, <1>7, <1>8, <1>9, <1>10 DEF Step

\* IInv is inductive.
LEMMA InvStep == IInv /\ [Next]_vars => IInv'
<1>. SUFFICES ASSUME IInv, [Next]_vars PROVE IInv'
  OBVIOUS
<1>1. TypeOK /\ TypeOK' /\ ProbeChain'
  BY TypeStep, ChainStep DEF IInv
<1>2. ASSUME NEW u \in Tasks PROVE TaskInv(u)'
  <2>1. CASE Step(u) \/ Resume(u) \/ \E k \in Keys : Call(u, k)
    BY <2>1, ActorKept
  <2>2. CASE ~(Step(u) \/ Resume(u) \/ \E k \in Keys : Call(u, k))
    <3>. DEFINE Still == UNCHANGED <<pc[u], key[u], probes[u], result[u], first[u]>>
    <3>1. Still
      <4>1. CASE UNCHANGED vars
        BY <4>1 DEF vars
      <4>2. ASSUME NEW t \in Tasks, t # u,
                   Step(t) \/ Resume(t) \/ \E k \in Keys : Call(t, k)
            PROVE  Still
        BY <1>1, <4>2
        DEF TypeOK, Step, Call, Compare, Vacant, Swap, SearchAgain, GiveUp,
            Resume, Return, NextProbe
      <4>. QED BY <2>2, <4>1, <4>2 DEF Next
    <3>. QED BY <3>1, OthersKept
  <2>. QED BY <2>1, <2>2
<1>. QED BY <1>1, <1>2 DEF IInv

\* A fresh mapping satisfies IInv.
LEMMA InvInit == Init => IInv
<1>. SUFFICES ASSUME Init PROVE IInv
  OBVIOUS
<1>1. TypeOK
  BY TableAssumption DEF Init, TypeOK, Slots, MAX_PROBES
<1>2. ProbeChain
  <2>. SUFFICES ASSUME NEW k \in Keys, NEW p \in 0 .. MAX_RECORDS - 1
                PROVE  record_id[Index(k, p)] # k
    BY DEF ProbeChain
  <2>. QED BY TableAssumption, IndexType DEF Init
<1>3. \A t \in Tasks : TaskInv(t)
  BY DEF Init, TaskInv, Scanned, Tracked, Outcome, Searching
<1>. QED BY <1>1, <1>2, <1>3 DEF IInv

-----------------------------------------------------------------------------
\* get_record keeps the table and its own locals well formed.
THEOREM TypeCorrect == Spec => []TypeOK
<1>1. IInv => TypeOK
  BY DEF IInv
<1>. QED BY <1>1, InvInit, InvStep, PTL DEF Spec

\* For any number of tasks racing for the slots, a record that get_record
\* returns belongs to the id that was asked for.
THEOREM ReturnedRecordIsRight == Spec => []ResultHoldsKey
<1>1. IInv => ResultHoldsKey
  BY DEF IInv, TaskInv, Outcome, ResultHoldsKey
<1>. QED BY <1>1, InvInit, InvStep, PTL DEF Spec

\* Linear probing never leaves a free slot before a key.
THEOREM ChainsHaveNoHoles == Spec => []ProbeChain
<1>1. IInv => ProbeChain
  BY DEF IInv
<1>. QED BY <1>1, InvInit, InvStep, PTL DEF Spec

\* A variable that has a record when get_record is called is found there.
THEOREM LookupsSettle == Spec => []SettledLookup
<1>1. IInv => SettledLookup
  BY DEF IInv, TaskInv, Outcome, SettledLookup
<1>. QED BY <1>1, InvInit, InvStep, PTL DEF Spec

\* BOP_abort_spec is reached from get_record only with the table full.
THEOREM AbortMeansFull == Spec => []AbortOnlyWhenFull
<1>1. IInv => AbortOnlyWhenFull
  BY DEF IInv, TaskInv, Outcome, AbortOnlyWhenFull
<1>. QED BY <1>1, InvInit, InvStep, PTL DEF Spec
=============================================================================
