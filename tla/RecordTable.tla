---------------------------- MODULE RecordTable ----------------------------
(***************************************************************************)
(* get_record (ruby/bop/object_monitor.c): the open-addressing hash table  *)
(* of access records that all tasks of a speculation group share through   *)
(* one MAP_SHARED mapping.  Tasks are processes, so the table is the only  *)
(* thing they have in common and every access to it is a step of its own:  *)
(* the comparison with the wanted id, the second read that looks for a     *)
(* free slot, and the compare-and-swap that takes it.                      *)
(*                                                                         *)
(* The two reads are plain loads of a 128-bit field, which the compiler    *)
(* splits in two.  A load that sees one old and one new half is unequal to *)
(* the wanted id and unequal to UNALLOCATED, like the old value at the     *)
(* first read and like the new value at the second one, so a read that     *)
(* takes effect at one instant has the same outcomes.                      *)
(***************************************************************************)
EXTENDS Naturals

CONSTANTS
  Keys,          \* the record ids: pairs of an object and a variable name
  Tasks,         \* the tasks of the group
  Main,          \* the task whose BOP_task_status is MAIN
  MAX_RECORDS,   \* number of slots of the table
  Base,          \* hash2(obj, id) % MAX_RECORDS, per key
  UNALLOCATED,   \* the all-zero record id of a fresh mapping
  NULL           \* the null pointer get_record returns when it gives up

\* Mutant: the loop stops before it has been through the table.
MaxProbesShort == MAX_RECORDS - 2

MAX_PROBES == MAX_RECORDS
Slots == 0 .. MAX_RECORDS - 1

ASSUME TableAssumption ==
  /\ MAX_RECORDS \in Nat \ {0}
  /\ Base \in [Keys -> Slots]
  /\ Main \in Tasks
  /\ UNALLOCATED \notin Keys
  /\ NULL \notin Slots

VARIABLES
  record_id,   \* records[index].record_id, the shared table
  pc,          \* where each task stands in get_record
  key,         \* the record id a task looks for
  probes,      \* the loop counter of a task
  has_gced,    \* whether the task has run the collector and searched again
  result,      \* the slot a call returned, or NULL
  first        \* history: the probe at which the key was found by a search
               \* of the table as it stood when the call began, or MAX_RECORDS

vars == <<record_id, pc, key, probes, has_gced, result, first>>

\* (base_index + probes) % MAX_RECORDS.  The sum of two 64-bit integers may
\* wrap; MAX_RECORDS is a power of two, so the remainder does not notice.
Index(k, p) == (Base[k] + p) % MAX_RECORDS

TypeOK ==
  /\ record_id \in [Slots -> Keys \cup {UNALLOCATED}]
  /\ pc \in [Tasks -> {"idle", "compare", "vacant", "swap", "returned", "aborted"}]
  /\ key \in [Tasks -> Keys]
  /\ probes \in [Tasks -> 0 .. MAX_PROBES + 1]
  /\ has_gced \in [Tasks -> BOOLEAN]
  /\ result \in [Tasks -> Slots \cup {NULL}]
  /\ first \in [Tasks -> 0 .. MAX_RECORDS]

Init ==
  /\ record_id = [s \in Slots |-> UNALLOCATED]
  /\ pc = [t \in Tasks |-> "idle"]
  /\ key \in {[t \in Tasks |-> k] : k \in Keys}
  /\ probes = [t \in Tasks |-> 0]
  /\ has_gced = [t \in Tasks |-> FALSE]
  /\ result = [t \in Tasks |-> NULL]
  /\ first = [t \in Tasks |-> MAX_RECORDS]

\* A search for k in the table as it stands ends at probe p, or finds nothing
\* (p = MAX_RECORDS).
FoundAt(k, p) ==
  /\ p < MAX_RECORDS => record_id[Index(k, p)] = k
  /\ \A q \in 0 .. p - 1 : record_id[Index(k, q)] # k

-----------------------------------------------------------------------------
\* get_record is called for key k.
Call(t, k) ==
  /\ pc[t] = "idle"
  /\ pc' = [pc EXCEPT ![t] = "compare"]
  /\ key' = [key EXCEPT ![t] = k]
  /\ probes' = [probes EXCEPT ![t] = 0]
  /\ has_gced' = [has_gced EXCEPT ![t] = FALSE]
  /\ \E p \in 0 .. MAX_RECORDS :
       FoundAt(k, p) /\ first' = [first EXCEPT ![t] = p]
  /\ UNCHANGED <<record_id, result>>

Return(t, s) ==
  /\ pc' = [pc EXCEPT ![t] = "returned"]
  /\ result' = [result EXCEPT ![t] = s]

\* Mutant: the probe sequence skips every other slot.
NextProbeBut(t) ==
  /\ pc' = [pc EXCEPT ![t] = "compare"]
  /\ probes' = [probes EXCEPT ![t] = @ + 2]

NextProbe(t) ==
  /\ pc' = [pc EXCEPT ![t] = "compare"]
  /\ probes' = [probes EXCEPT ![t] = @ + 1]

\* Mutant: the loop has no bound.
CompareUnbounded(t) ==
  /\ pc[t] = "compare"
  /\ LET i == Index(key[t], probes[t]) IN
       \/ record_id[i] = key[t] /\ Return(t, i)
       \/ record_id[i] # key[t] /\ pc' = [pc EXCEPT ![t] = "vacant"] /\ UNCHANGED result
  /\ UNCHANGED <<record_id, key, probes, has_gced, first>>

\* if(records[index].record_id == record_id) return &records[index];
Compare(t) ==
  /\ pc[t] = "compare" /\ probes[t] <= MAX_PROBES
  /\ LET i == Index(key[t], probes[t]) IN
       \/ record_id[i] = key[t] /\ Return(t, i)
       \/ record_id[i] # key[t] /\ pc' = [pc EXCEPT ![t] = "vacant"] /\ UNCHANGED result
  /\ UNCHANGED <<record_id, key, probes, has_gced, first>>

\* else if(records[index].record_id == UNALLOCATED): the slot is read again.
Vacant(t) ==
  /\ pc[t] = "vacant"
  /\ LET i == Index(key[t], probes[t]) IN
       \/ record_id[i] = UNALLOCATED /\ pc' = [pc EXCEPT ![t] = "swap"] /\ UNCHANGED probes
       \/ record_id[i] # UNALLOCATED /\ NextProbe(t)
  /\ UNCHANGED <<record_id, key, has_gced, result, first>>

\* Mutant: the slot is stored to, without comparing it first.
SwapBlind(t) ==
  /\ pc[t] = "swap"
  /\ LET i == Index(key[t], probes[t]) IN
       record_id' = [record_id EXCEPT ![i] = key[t]] /\ Return(t, i)
  /\ UNCHANGED <<key, probes, has_gced, first>>

\* Mutant: whatever the compare-and-swap found, the slot is returned.
SwapUnchecked(t) ==
  /\ pc[t] = "swap"
  /\ LET i == Index(key[t], probes[t]) IN
       /\ record_id' = IF record_id[i] = UNALLOCATED
                         THEN [record_id EXCEPT ![i] = key[t]] ELSE record_id
       /\ Return(t, i)
  /\ UNCHANGED <<key, probes, has_gced, first>>

\* __sync_val_compare_and_swap: the slot is now this task's, or another task
\* has taken it for the same id, or for a different one.
Swap(t) ==
  /\ pc[t] = "swap"
  /\ LET i == Index(key[t], probes[t]) IN
       \/ /\ record_id[i] = UNALLOCATED
          /\ record_id' = [record_id EXCEPT ![i] = key[t]]
          /\ Return(t, i) /\ UNCHANGED probes
       \/ /\ record_id[i] = key[t]
          /\ Return(t, i) /\ UNCHANGED <<record_id, probes>>
       \/ /\ record_id[i] \notin {UNALLOCATED, key[t]}
          /\ NextProbe(t) /\ UNCHANGED <<record_id, result>>
  /\ UNCHANGED <<key, has_gced, first>>

\* Mutant: has_gced is not set.
SearchForever(t) ==
  /\ pc[t] = "compare" /\ probes[t] = MAX_PROBES + 1 /\ ~has_gced[t]
  /\ probes' = [probes EXCEPT ![t] = 0]
  /\ UNCHANGED <<record_id, pc, key, has_gced, result, first>>

\* The loop has run out: collect garbage and search once more.  Nothing that
\* rb_gc_start calls touches the table.
SearchAgain(t) ==
  /\ pc[t] = "compare" /\ probes[t] = MAX_PROBES + 1 /\ ~has_gced[t]
  /\ has_gced' = [has_gced EXCEPT ![t] = TRUE]
  /\ probes' = [probes EXCEPT ![t] = 0]
  /\ UNCHANGED <<record_id, pc, key, result, first>>

\* BOP_abort_spec, which ends a speculative task; MAIN gets a null pointer.
GiveUp(t) ==
  /\ pc[t] = "compare" /\ probes[t] = MAX_PROBES + 1 /\ has_gced[t]
  /\ pc' = [pc EXCEPT ![t] = IF t = Main THEN "returned" ELSE "aborted"]
  /\ result' = [result EXCEPT ![t] = NULL]
  /\ UNCHANGED <<record_id, key, probes, has_gced, first>>

\* The caller goes on and the call's locals are gone; its next access calls
\* get_record again.
Resume(t) ==
  /\ pc[t] = "returned"
  /\ pc' = [pc EXCEPT ![t] = "idle"]
  /\ probes' = [probes EXCEPT ![t] = 0]
  /\ has_gced' = [has_gced EXCEPT ![t] = FALSE]
  /\ result' = [result EXCEPT ![t] = NULL]
  /\ first' = [first EXCEPT ![t] = MAX_RECORDS]
  /\ UNCHANGED <<record_id, key>>

Step(t) ==
  Compare(t) \/ Vacant(t) \/ Swap(t) \/ SearchAgain(t) \/ GiveUp(t)

Next ==
  \E t \in Tasks : Step(t) \/ Resume(t) \/ \E k \in Keys : Call(t, k)

\* The operating system runs every process that can run.
Spec == Init /\ [][Next]_vars /\ \A t \in Tasks : WF_vars(Step(t))

-----------------------------------------------------------------------------
\* The record get_record returns is the record of the id it was asked for, and
\* still is when the caller sets its access bits, whatever the other tasks did
\* to the slot between the two reads, the swap and the return.
ResultHoldsKey ==
  \A t \in Tasks :
    pc[t] = "returned" /\ result[t] # NULL => record_id[result[t]] = key[t]

\* No hole in a probe sequence: every slot that a search for k visits before a
\* slot that holds k is taken, so no later search for k stops short of it and
\* allocates k again.
ProbeChain ==
  \A k \in Keys, p \in 0 .. MAX_RECORDS - 1 :
    record_id[Index(k, p)] = k =>
      \A q \in 0 .. p - 1 : record_id[Index(k, q)] # UNALLOCATED

\* A call that begins when the table holds its key returns the first record of
\* that key in probe order, however many tasks insert in the meantime: all
\* tasks that look the variable up from then on set bits in one access vector.
SettledLookup ==
  \A t \in Tasks :
    pc[t] = "returned" /\ first[t] < MAX_RECORDS =>
      result[t] = Index(key[t], first[t])

\* Speculation is given up for want of a record only when every slot is taken.
AbortOnlyWhenFull ==
  \A t \in Tasks :
    pc[t] = "aborted" \/ (pc[t] = "returned" /\ result[t] = NULL) =>
      \A s \in Slots : record_id[s] # UNALLOCATED

\* Every call ends: the retry after the collection happens once.
CallReturns ==
  \A t \in Tasks : pc[t] = "compare" ~> pc[t] \in {"returned", "aborted"}

\* An id has one record, because a task that finds the slot taken by another
\* task for the same id uses it ("valid if either this task set it to the
\* corresponding object or if another did", object_monitor.c:141).
UniqueRecord ==
  \A s1, s2 \in Slots :
    record_id[s1] = record_id[s2] /\ record_id[s1] # UNALLOCATED => s1 = s2
=============================================================================
