--------------------------- MODULE ObjectMonitor ---------------------------
(***************************************************************************)
(* The object monitor (ruby/bop/object_monitor.c and .h): how the tasks of *)
(* one speculation group record their accesses to instance variables,      *)
(* check them for conflicts, and hand their writes to the last task.       *)
(*                                                                         *)
(* A task is a process forked at the start of the group, so it has its own *)
(* copy of every object (heap) and of the three lists.  The access vectors *)
(* and the copy records are in memory the tasks share.  A variable has one *)
(* record here; RecordTable models how tasks find it.                      *)
(*                                                                         *)
(* The ports are called by the BOP library, which is not in the source     *)
(* tree.  Assumed of it, from the comments in the port table and the way   *)
(* ppr.c calls it: tasks are numbered 0, 1, ... in program order; a task   *)
(* enters its Ordered region when every earlier task has left its own or   *)
(* has finished; a task is checked when every earlier one has been; all    *)
(* but the last put their data in shared memory, in task order; then the   *)
(* last one merges.  BOP_abort_spec, whoever calls it, and a failed check  *)
(* end the group: it is discarded and the understudy runs its blocks again *)
(* sequentially, so the model stops there.                                 *)
(***************************************************************************)
EXTENDS Integers, Sequences, FiniteSets, Functions

CONSTANTS
  Group,        \* the spec orders of the tasks that touch instance variables
  PlainKeys,    \* variables the blocks use outside Ordered regions
  OrderedKeys,  \* variables they use inside
  Mixed,        \* whether one block may do both
  MaxWrites,    \* bound: writes per task
  MAX_COPYS     \* number of copy records, the one that holds next included

Keys == PlainKeys \cup OrderedKeys

\* The one of some tasks that comes last in program order.
Latest(T) == CHOOSE t \in T : \A u \in T : u <= t

LastTask == Latest(Group)

ASSUME GroupAssumption ==
  /\ Group \subseteq 0 .. 31 /\ 0 \in Group /\ IsFiniteSet(Group)
  /\ Mixed \in BOOLEAN
  /\ MaxWrites \in Nat /\ MAX_COPYS \in Nat \ {0}

VARIABLES
  vector,          \* record->vector, as the set of its one bits
  copy_records,    \* the copies of written values
  next_copy,       \* *next_copy_record
  heap,            \* the instance variables, as each task has them
  write_list, read_list, ordered_writes,
  region,          \* where a task stands towards its Ordered region
  pc,              \* what a task is doing
  todo,            \* the list nodes a check or a commit has still to visit
  index,           \* the loop index of a merge, or the copy record claimed
  passed,          \* the tasks whose rb_object_correct returned true
  aborted,         \* BOP_abort_spec was called, or a check failed
  observed,        \* history: what a task read of variables it had not written
  written,         \* history: the number of writes and the last value per key
  pending          \* history: the earlier tasks that had not begun to commit
                   \* when a task passed its check

shared == <<vector, copy_records, next_copy>>
lists == <<write_list, read_list, ordered_writes>>
control == <<region, pc, todo, index, passed, aborted>>
history == <<observed, written, pending>>
vars == <<shared, heap, lists, control, history>>

-----------------------------------------------------------------------------
READ_BIT == 0
WRITE_BIT == 1
Bits == 0 .. 63

\* Mutant: one bit per task.
base_bit_dense(t) == t

base_bit_for(t) == t * 2

\* (uint64_t)(1 << n): the shift is done in a 32-bit int, where x86 reduces the
\* count modulo 32, and the result is sign-extended.
Shift(n) == IF n % 32 = 31 THEN 31 .. 63 ELSE {n % 32}

Mask(t, op) == Shift(base_bit_for(t) + op)

NoCopy == [key |-> <<>>, val |-> <<>>]   \* a record of the zeroed mapping
Initially == <<>>                        \* a value from before the group
Values == {Initially} \cup (Group \X (1 .. MaxWrites))

TypeOK ==
  /\ vector \in [Keys -> SUBSET Bits]
  /\ copy_records \in [1 .. MAX_COPYS - 1 ->
                        [key : Keys, val : Values] \cup {NoCopy}]
  /\ next_copy \in Nat \ {0}
  /\ heap \in [Group -> [Keys -> Values]]
  /\ \A l \in {write_list, read_list, ordered_writes, todo} :
       l \in [Group -> Seq(Keys)]
  /\ region \in [Group -> {"before", "entering", "inside", "leaving", "after"}]
  /\ pc \in [Group -> {"block", "ended", "check", "passed", "commit", "store",
                       "merge", "done"}]
  /\ index \in [Group -> Nat]
  /\ passed \subseteq Group
  /\ aborted \in BOOLEAN
  /\ observed \in [Group -> SUBSET (Keys \X Values)]
  /\ written \in [Group -> [count : 0 .. MaxWrites, val : [Keys -> Values]]]
  /\ pending \in [Group -> SUBSET Group]

\* Mutant: *next_copy_record keeps the zero of the fresh mapping.
FirstCopyZero == 0

\* *next_copy_record = 1: record 0 holds the counter itself.
FirstCopy == 1

\* init_obj_monitor: fresh mappings and empty lists; then the group forks.
Init ==
  /\ vector = [k \in Keys |-> {}]
  /\ copy_records = [i \in 1 .. MAX_COPYS - 1 |-> NoCopy]
  /\ next_copy = FirstCopy
  /\ heap = [t \in Group |-> [k \in Keys |-> Initially]]
  /\ write_list = [t \in Group |-> <<>>]
  /\ read_list = [t \in Group |-> <<>>]
  /\ ordered_writes = [t \in Group |-> <<>>]
  /\ region = [t \in Group |-> "before"]
  /\ pc = [t \in Group |-> "block"]
  /\ todo = [t \in Group |-> <<>>]
  /\ index = [t \in Group |-> 0]
  /\ passed = {}
  /\ aborted = FALSE
  /\ observed = [t \in Group |-> {}]
  /\ written = [t \in Group |-> [count |-> 0, val |-> [k \in Keys |-> Initially]]]
  /\ pending = [t \in Group |-> {}]

-----------------------------------------------------------------------------
At(t, where) == ~aborted /\ pc[t] = where

\* What a block does: any accesses, to the variables it uses where it is.
Accessible(t, k) ==
  /\ At(t, "block")
  /\ \/ region[t] = "inside" /\ k \in OrderedKeys
     \/ region[t] = "before" /\ k \in PlainKeys
     \/ region[t] = "after" /\ k \in PlainKeys /\ Mixed

\* The first access of its kind since the bit was last cleared.
FirstAccess(t, k, op) == vector[k] \cap Mask(t, op) = {}

\* add_list puts a node in front, when the bit was not set before.
AddList(l, t, k, isNew) == IF isNew THEN [l EXCEPT ![t] = <<k>> \o @] ELSE l

\* vm_getivar: record_bop_access with READ_BIT, then the load.
Read(t, k) ==
  /\ Accessible(t, k)
  /\ vector' = [vector EXCEPT ![k] = @ \cup Mask(t, READ_BIT)]
  /\ read_list' = AddList(read_list, t, k, FirstAccess(t, k, READ_BIT))
  /\ observed' = IF written[t].val[k] = Initially
                   THEN [observed EXCEPT ![t] = @ \cup {<<k, heap[t][k]>>}]
                   ELSE observed
  /\ UNCHANGED <<copy_records, next_copy, heap, write_list, ordered_writes,
                 control, written, pending>>

\* vm_setivar: record_bop_access with WRITE_BIT, then the store.
Write(t, k) ==
  /\ Accessible(t, k) /\ written[t].count < MaxWrites
  /\ LET v == <<t, written[t].count + 1>>
         isNew == FirstAccess(t, k, WRITE_BIT)
     IN  /\ vector' = [vector EXCEPT ![k] = @ \cup Mask(t, WRITE_BIT)]
         /\ write_list' = AddList(write_list, t, k, isNew /\ region[t] # "inside")
         /\ ordered_writes' = AddList(ordered_writes, t, k, isNew /\ region[t] = "inside")
         /\ heap' = [heap EXCEPT ![t][k] = v]
         /\ written' = [written EXCEPT ![t] = [count |-> @.count + 1,
                                               val |-> [@.val EXCEPT ![k] = v]]]
  /\ UNCHANGED <<copy_records, next_copy, read_list, control, observed, pending>>

\* free_all_lists
FreeAllLists(t) ==
  /\ write_list' = [write_list EXCEPT ![t] = <<>>]
  /\ read_list' = [read_list EXCEPT ![t] = <<>>]
  /\ ordered_writes' = [ordered_writes EXCEPT ![t] = <<>>]

-----------------------------------------------------------------------------
\* BOP_ordered_begin: the library waits for the task's turn and calls
\* parent_merge.  Unless Mixed, such a block has done nothing before.
EnterOrdered(t) ==
  /\ At(t, "block") /\ region[t] = "before" /\ OrderedKeys # {}
  /\ Mixed \/ (write_list[t] = <<>> /\ read_list[t] = <<>>)
  /\ \A u \in Group : u < t => region[u] = "after" \/ pc[u] = "done"
  /\ region' = [region EXCEPT ![t] = "entering"]
  /\ pc' = [pc EXCEPT ![t] = "merge"]
  /\ index' = [index EXCEPT ![t] = 1]
  /\ UNCHANGED <<shared, heap, lists, todo, passed, aborted, history>>

\* Mutant: the writes made inside the region are not committed on exit.
LeaveOrderedPlain(t) ==
  /\ At(t, "block") /\ region[t] = "inside"
  /\ region' = [region EXCEPT ![t] = "leaving"]
  /\ pc' = [pc EXCEPT ![t] = "commit"]
  /\ todo' = [todo EXCEPT ![t] = write_list[t]]
  /\ UNCHANGED <<shared, heap, lists, index, passed, aborted, history>>

\* BOP_ordered_end calls obj_commit.
LeaveOrdered(t) ==
  /\ At(t, "block") /\ region[t] = "inside"
  /\ region' = [region EXCEPT ![t] = "leaving"]
  /\ pc' = [pc EXCEPT ![t] = "commit"]
  /\ todo' = [todo EXCEPT ![t] = write_list[t] \o ordered_writes[t]]
  /\ UNCHANGED <<shared, heap, lists, index, passed, aborted, history>>

\* Mutant: off by one in the loop bound.
MoreCopiesIncl(t) == index[t] < MAX_COPYS /\ index[t] <= next_copy

MoreCopies(t) == index[t] < MAX_COPYS /\ index[t] < next_copy

\* One iteration of parent_merge.  A copy record that another task has claimed
\* and not filled in names no object: rb_ivar_set raises.
MergeCopy(t) ==
  /\ At(t, "merge") /\ MoreCopies(t)
  /\ LET c == copy_records[index[t]]
     IN  /\ heap' = IF c = NoCopy THEN heap ELSE [heap EXCEPT ![t][c.key] = c.val]
         /\ aborted' = (c = NoCopy)
  /\ index' = [index EXCEPT ![t] = @ + 1]
  /\ UNCHANGED <<shared, lists, region, pc, todo, passed, history>>

\* The end of parent_merge: on entry to an Ordered region the block goes on,
\* in the last task the group is over and restore_seq follows.
MergeEnd(t) ==
  /\ At(t, "merge") /\ ~MoreCopies(t)
  /\ FreeAllLists(t)
  /\ region' = [region EXCEPT ![t] = IF @ = "entering" THEN "inside" ELSE @]
  /\ pc' = [pc EXCEPT ![t] = IF region[t] = "entering" THEN "block" ELSE "done"]
  /\ index' = [index EXCEPT ![t] = 0]
  /\ UNCHANGED <<shared, heap, todo, passed, aborted, history>>

\* Mutant: running out of copy records goes unnoticed.
CommitClaimUnbounded(t) ==
  /\ At(t, "commit") /\ todo[t] # <<>>
  /\ next_copy' = next_copy + 1
  /\ index' = [index EXCEPT ![t] = next_copy]
  /\ pc' = [pc EXCEPT ![t] = "store"]
  /\ UNCHANGED <<vector, copy_records, heap, lists, region, todo, passed, aborted, history>>

\* commit: claim a copy record.  is_commiting_writer is always true.
CommitClaim(t) ==
  /\ At(t, "commit") /\ todo[t] # <<>>
  /\ next_copy' = next_copy + 1
  /\ aborted' = (next_copy >= MAX_COPYS)
  /\ index' = [index EXCEPT ![t] = next_copy]
  /\ pc' = [pc EXCEPT ![t] = "store"]
  /\ UNCHANGED <<vector, copy_records, heap, lists, region, todo, passed, history>>

\* commit: fill the record in; then obj_commit clears the task's two bits.
CommitStore(t) ==
  /\ At(t, "store")
  /\ LET k == Head(todo[t])
     IN  /\ copy_records' = [copy_records EXCEPT ![index[t]] =
                               [key |-> k, val |-> heap[t][k]]]
         /\ vector' = [vector EXCEPT ![k] =
                         @ \ (Mask(t, READ_BIT) \cup Mask(t, WRITE_BIT))]
  /\ todo' = [todo EXCEPT ![t] = Tail(@)]
  /\ index' = [index EXCEPT ![t] = 0]
  /\ pc' = [pc EXCEPT ![t] = "commit"]
  /\ UNCHANGED <<next_copy, heap, lists, region, passed, aborted, history>>

\* Mutant: the end of an Ordered region is not signalled.
CommitEndSilent(t) ==
  /\ At(t, "commit") /\ todo[t] = <<>>
  /\ FreeAllLists(t)
  /\ pc' = [pc EXCEPT ![t] = IF region[t] = "leaving" THEN "block" ELSE "done"]
  /\ UNCHANGED <<shared, heap, region, todo, index, passed, aborted, history>>

\* The end of obj_commit, on exit from an Ordered region or for good.
CommitEnd(t) ==
  /\ At(t, "commit") /\ todo[t] = <<>>
  /\ FreeAllLists(t)
  /\ region' = [region EXCEPT ![t] = IF @ = "leaving" THEN "after" ELSE @]
  /\ pc' = [pc EXCEPT ![t] = IF region[t] = "leaving" THEN "block" ELSE "done"]
  /\ UNCHANGED <<shared, heap, todo, index, passed, aborted, history>>

-----------------------------------------------------------------------------
\* BOP_ppr_end
EndBlock(t) ==
  /\ At(t, "block") /\ region[t] \in {"before", "after"}
  /\ pc' = [pc EXCEPT ![t] = "ended"]
  /\ UNCHANGED <<shared, heap, lists, region, todo, index, passed, aborted, history>>

\* rb_object_correct: MAIN is always correct.
BeginCheck(t) ==
  /\ At(t, "ended") /\ \A u \in Group : u < t => u \in passed
  /\ pc' = [pc EXCEPT ![t] = "check"]
  /\ todo' = [todo EXCEPT ![t] = IF t = 0 THEN <<>> ELSE read_list[t]]
  /\ UNCHANGED <<shared, heap, lists, region, index, passed, aborted, history>>

\* Mutant: the loop over the previous tasks stops one short.
ConflictShort(t, k) ==
  \E u \in 0 .. t - 2 : /\ vector[k] \cap Mask(u, WRITE_BIT) # {}
                        /\ vector[k] \cap Mask(t, READ_BIT) # {}

\* "if any previous task has written st that I've read, its an error"
Conflict(t, k) ==
  \E u \in 0 .. t - 1 : /\ vector[k] \cap Mask(u, WRITE_BIT) # {}
                        /\ vector[k] \cap Mask(t, READ_BIT) # {}

\* One node of the read list.
CheckNode(t) ==
  /\ At(t, "check") /\ todo[t] # <<>>
  /\ aborted' = Conflict(t, Head(todo[t]))
  /\ todo' = [todo EXCEPT ![t] = Tail(@)]
  /\ UNCHANGED <<shared, heap, lists, region, pc, index, passed, history>>

PassCheck(t) ==
  /\ At(t, "check") /\ todo[t] = <<>>
  /\ pc' = [pc EXCEPT ![t] = "passed"]
  /\ passed' = passed \cup {t}
  /\ pending' = [pending EXCEPT ![t] = {u \in Group : u < t /\ pc[u] = "passed"}]
  /\ UNCHANGED <<shared, heap, lists, region, todo, index, aborted, observed, written>>

\* data_commit, "called by all but last puts data in shared mem"
DataCommit(t) ==
  /\ At(t, "passed") /\ t # LastTask /\ \A u \in Group : u < t => pc[u] = "done"
  /\ pc' = [pc EXCEPT ![t] = "commit"]
  /\ todo' = [todo EXCEPT ![t] = write_list[t] \o ordered_writes[t]]
  /\ UNCHANGED <<shared, heap, lists, region, index, passed, aborted, history>>

\* task_group_commit, "called by last to commit the changes"
GroupCommit(t) ==
  /\ At(t, "passed") /\ t = LastTask /\ \A u \in Group : u < t => pc[u] = "done"
  /\ pc' = [pc EXCEPT ![t] = "merge"]
  /\ index' = [index EXCEPT ![t] = 1]
  /\ UNCHANGED <<shared, heap, lists, region, todo, passed, aborted, history>>

Step(t) ==
  \/ \E k \in Keys : Read(t, k) \/ Write(t, k)
  \/ EnterOrdered(t) \/ LeaveOrdered(t) \/ MergeCopy(t) \/ MergeEnd(t)
  \/ CommitClaim(t) \/ CommitStore(t) \/ CommitEnd(t)
  \/ EndBlock(t) \/ BeginCheck(t) \/ CheckNode(t) \/ PassCheck(t)
  \/ DataCommit(t) \/ GroupCommit(t)

Over == aborted \/ pc[LastTask] = "done"

Next == (\E t \in Group : Step(t)) \/ (Over /\ UNCHANGED vars)

\* Every task is a process the system runs, and its block ends.
Spec == Init /\ [][Next]_vars /\ \A t \in Group : WF_vars(Step(t))

-----------------------------------------------------------------------------
WritersOf(k) == {u \in Group : written[u].val[k] # Initially}

\* What k holds before task t (or after the group, for t = 64) when the blocks
\* run one after the other.
SerialValue(k, t) ==
  LET W == {u \in WritersOf(k) : u < t}
  IN  IF W = {} THEN Initially ELSE written[Latest(W)].val[k]

NoDuplicates(s) == Cardinality(Range(s)) = Len(s)

\* Until a task merges or commits for the first time, its lists hold exactly
\* the records in whose vectors its bits are set, each of them once: the check
\* and the commit, which walk the lists, miss no access.
AccessesListed ==
  \A t \in Group :
    region[t] = "before" /\ pc[t] \in {"block", "ended", "check", "passed"} =>
      /\ NoDuplicates(write_list[t]) /\ NoDuplicates(read_list[t])
      /\ Range(write_list[t]) = {k \in Keys : written[t].val[k] # Initially}
      /\ Range(write_list[t]) = {k \in Keys : ~FirstAccess(t, k, WRITE_BIT)}
      /\ Range(read_list[t]) = {k \in Keys : ~FirstAccess(t, k, READ_BIT)}
      /\ {o[1] : o \in observed[t]} \subseteq Range(read_list[t])

\* A task passes its check only if every variable it read had the value that
\* sequential execution gives it, as far as tasks are concerned that had not
\* begun to commit ("if any previous task has written st that I've read, its
\* an error", object_monitor.c:188).
CheckFindsPending ==
  \A t \in passed : \A o \in observed[t] :
    pending[t] \cap WritersOf(o[1]) # {} => o[2] = SerialValue(o[1], t)

\* A read inside an Ordered region sees the last write of the tasks before it.
OrderedReadsSerial ==
  \A t \in Group : \A o \in observed[t] :
    o[1] \in OrderedKeys => o[2] = SerialValue(o[1], t)

\* When the group commits, the last task holds for every variable the value of
\* the last task that wrote it; for a variable that the last task wrote itself
\* this is claimed only of Ordered regions.
MergedInOrder ==
  pc[LastTask] = "done" =>
    \A k \in Keys : k \in OrderedKeys \/ LastTask \notin WritersOf(k) =>
      heap[LastTask][k] = SerialValue(k, 64)

\* No merge reads a copy record that is claimed and not filled in.
MergeReadsFilled ==
  \A t \in Group : pc[t] = "merge" /\ MoreCopies(t) => copy_records[index[t]] # NoCopy

\* The value that survives the group is the one its last writer wrote ("only
\* need to commit the last one", object_monitor.c:227).
LastWriteWins ==
  pc[LastTask] = "done" => \A k \in Keys : heap[LastTask][k] = SerialValue(k, 64)

\* A task that has finished has left every value it wrote in shared memory
\* ("called by all but last puts data in shared mem", object_monitor.c:272).
WritesPublished ==
  \A t \in Group \ {LastTask} : pc[t] = "done" =>
    \A k \in Keys : t \in WritersOf(k) =>
      \E i \in DOMAIN copy_records :
        copy_records[i] = [key |-> k, val |-> written[t].val[k]]

\* Every group commits or is aborted: nobody waits for ever for a turn.
GroupFinishes == <>Over
=============================================================================
