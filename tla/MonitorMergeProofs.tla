------------------------- MODULE MonitorMergeProofs -------------------------
(***************************************************************************)
(* What tasks see of each other's writes.  The copy records that a merge   *)
(* reads are filled in by one task at a time, in the order of the tasks,   *)
(* and hold what sequential execution gives; the check finds the reads     *)
(* that it would not.                                                      *)
(***************************************************************************)
EXTENDS ObjectMonitorProofs

-----------------------------------------------------------------------------
\* Whether a task has something to put in a copy record.
Publishing(t) == Committing(t) /\ todo[t] # <<>>

\* Whether a task has put everything it will write in copy records.
Out(t) == region[t] = "after" \/ (pc[t] = "done" /\ t # LastTask)

\* The tasks of a group are numbered: sppos goes from 0 up to the last one's.
LEMMA Positions == \A t \in Group : t \in Nat /\ t <= LastTask /\ t < 64
BY LastIsGreatest, GroupAssumption

\* While a task publishes, no later one has written to a copy record, and none
\* merges: its turn at the Ordered region or at the commit has not come.
LEMMA PublishAlone ==
  ASSUME TypeOK, Stands, Turns, Ends, Blocks, NEW t \in Group, Publishing(t), NEW u \in Group
  PROVE  /\ u > t => ~Out(u) /\ ~Committing(u)
         /\ Publishing(u) => u = t
         /\ pc[u] # "merge"
<1>1. \A v \in Group : v \in Nat /\ v <= LastTask
  BY Positions, Zenon
<1>2. \A v \in Group : Publishing(v) => pc[v] # "done" /\ region[v] \in {"before", "leaving"}
  BY Zenon DEF Publishing, Committing, Blocks, BlockOf, Stands, TypeOK
<1>3. \A v, w \in Group : v < w /\ Publishing(v) => region[w] = "before" /\ ~Late(w)
  BY <1>2, Zenon DEF Turns
<1>4. \A v, w \in Group : v < w /\ Publishing(v) => ~Out(w) /\ ~Committing(w) /\ pc[w] # "merge"
  BY <1>3, Zenon DEF Late, Out, Committing
<1>5. u < t => pc[u] # "merge"
  <2>. HAVE u < t
  <2>1. pc[u] = "done" \/ region[u] = "after"
    BY <1>2, Zenon DEF Turns, Publishing, Committing, Late
  <2>. QED BY <1>1, <2>1 DEF Ends
<1>. QED BY <1>1, <1>4, <1>5 DEF Publishing, Committing

-----------------------------------------------------------------------------
Copies == 1 .. MAX_COPYS - 1
Holds(i, k) == copy_records[i] # NoCopy /\ copy_records[i].key = k

\* The copy records in use are the first ones; only the last of them may be
\* claimed and not filled in.
Claims ==
  /\ \A i \in Copies : i >= next_copy => copy_records[i] = NoCopy
  /\ \A i \in Copies : i < next_copy /\ copy_records[i] = NoCopy =>
       \E t \in Group : pc[t] = "store" /\ index[t] = i
  /\ ~aborted => \A t \in Group : pc[t] = "store" =>
       index[t] \in Copies /\ index[t] = next_copy - 1 /\ copy_records[index[t]] = NoCopy

\* The copy records are numbered from 1.
LEMMA RecordsFromOne == \A i \in Copies : ~(i < 1)
BY GroupAssumption DEF Copies

\* Filling a record in: where, with what, and that it is not the empty record.
LEMMA Filled ==
  ASSUME Order, Claims, NEW t \in Group, CommitStore(t)
  PROVE  LET k == Head(todo[t])
         IN  /\ Publishing(t) /\ k \in Keys /\ Wrote(t, k)
             /\ index[t] \in Copies /\ index[t] = next_copy - 1
             /\ copy_records[index[t]] = NoCopy
             /\ copy_records' = [copy_records EXCEPT ![index[t]] =
                                   [key |-> k, val |-> written[t].val[k]]]
             /\ written[t].val[k] \in {t} \X (1 .. MaxWrites)
             /\ [key |-> k, val |-> written[t].val[k]] # NoCopy
<1>. DEFINE k == Head(todo[t])
<1>1. /\ pc[t] = "store" /\ ~aborted /\ todo[t] # <<>> /\ todo[t] \in Seq(Keys)
      /\ copy_records' = [copy_records EXCEPT ![index[t]] = [key |-> k, val |-> heap[t][k]]]
  BY Zenon DEF CommitStore, At, Order, Stands, TypeOK
<1>2. k \in Keys /\ k \in Range(todo[t])
  BY <1>1, NodesOfTail
<1>3. Wrote(t, k)
  BY <1>1, <1>2, Zenon DEF Order, Blocks, BlockOf, Committing
<1>4. written[t].val[k] \in {t} \X (1 .. MaxWrites) /\ heap[t][k] = written[t].val[k]
  BY <1>1, <1>2, <1>3, Zenon DEF Order, Own
<1>5. [key |-> k, val |-> written[t].val[k]] # NoCopy
  BY <1>3, Zenon DEF Wrote, NoCopy, Initially
<1>. QED BY <1>1, <1>2, <1>3, <1>4, <1>5, Zenon DEF Claims, Publishing, Committing

\* Claiming and filling in.
LEMMA ClaimsStep ==
  ASSUME Order, Claims, NEW t \in Group, Step(t)
  PROVE  Claims'
<1>0. /\ DOMAIN pc = Group /\ DOMAIN index = Group /\ DOMAIN copy_records = Copies
      /\ next_copy \in Nat /\ MAX_COPYS \in Nat
      /\ TypeOK /\ Stands /\ Turns /\ Ends /\ Blocks
  BY GroupAssumption, Zenon DEF Order, TypeOK, Copies
<1>1. CASE CommitClaim(t)
  <2>1. /\ Publishing(t) /\ next_copy' = next_copy + 1 /\ aborted' = (next_copy >= MAX_COPYS)
        /\ index' = [index EXCEPT ![t] = next_copy] /\ pc' = [pc EXCEPT ![t] = "store"]
        /\ copy_records' = copy_records /\ pc[t] # "store"
    BY <1>1, Zenon DEF CommitClaim, Publishing, Committing, At
  <2>2. \A u \in Group : pc[u] = "store" => u = t
    BY <1>0, <2>1, PublishAlone, Zenon DEF Publishing, Committing, Stands
  <2>3. next_copy # 0
    BY Zenon DEF Order, TypeOK
  <2>4. \A i \in Copies : i >= next_copy' => copy_records'[i] = NoCopy
    BY <1>0, <2>1 DEF Claims, Copies
  <2>5. ASSUME NEW i \in Copies, i < next_copy', copy_records'[i] = NoCopy
        PROVE  pc'[t] = "store" /\ index'[t] = i
    <3>1. ~(i < next_copy)
      BY <2>1, <2>2, <2>5, Zenon DEF Claims
    <3>. QED BY <1>0, <2>1, <2>5, <3>1 DEF Copies
  <2>6. ~aborted' => \A u \in Group : pc'[u] = "store" =>
          /\ index'[u] \in Copies /\ index'[u] = next_copy' - 1
          /\ copy_records'[index'[u]] = NoCopy
    <3>1. next_copy < MAX_COPYS => next_copy \in Copies /\ copy_records[next_copy] = NoCopy
      BY <1>0, <2>3 DEF Claims, Copies
    <3>2. \A u \in Group : pc'[u] = "store" => u = t /\ index'[u] = next_copy
      BY <1>0, <2>1, <2>2, Zenon
    <3>3. ~aborted' => ~(next_copy >= MAX_COPYS)
      BY <2>1, Zenon
    <3>4. (~(next_copy >= MAX_COPYS) => next_copy < MAX_COPYS) /\ next_copy = next_copy' - 1
      BY <1>0, <2>1
    <3>. QED BY <2>1, <3>1, <3>2, <3>3, <3>4, Zenon
  <2>. QED BY <2>4, <2>5, <2>6, Zenon DEF Claims
<1>2. CASE CommitStore(t)
  <2>1. /\ index' = [index EXCEPT ![t] = 0] /\ pc' = [pc EXCEPT ![t] = "commit"]
        /\ next_copy' = next_copy /\ aborted' = aborted
    BY <1>2, Zenon DEF CommitStore
  <2>2. PICK r : r # NoCopy /\ copy_records' = [copy_records EXCEPT ![index[t]] = r]
    <3>. DEFINE r == [key |-> Head(todo[t]), val |-> written[t].val[Head(todo[t])]]
    <3>1. r # NoCopy /\ copy_records' = [copy_records EXCEPT ![index[t]] = r]
      BY <1>2, Filled, Zenon
    <3>. QED BY <3>1, Zenon
  <2>3. index[t] \in Copies /\ index[t] = next_copy - 1
    BY <1>2, Filled, Zenon
  <2>4. \A u \in Group : pc[u] = "store" => u = t
    BY <1>0, <1>2, Filled, PublishAlone, Zenon DEF Publishing, Committing, Stands
  <2>. QED BY <1>0, <2>1, <2>2, <2>3, <2>4 DEF Claims
<1>3. CASE ~CommitClaim(t) /\ ~CommitStore(t)
  <2>1. /\ UNCHANGED <<copy_records, next_copy>> /\ pc[t] # "store" /\ pc'[t] # "store"
        /\ ~aborted
    BY <1>0, <1>3, Zenon DEF Step, Read, Write, Accessible, EnterOrdered, LeaveOrdered, MergeCopy,
          MergeEnd, CommitEnd, EndBlock, BeginCheck, CheckNode, PassCheck, DataCommit, GroupCommit,
          At, shared, control
  <2>2. \A u \in Group : u # t => pc'[u] = pc[u] /\ index'[u] = index[u]
    BY <1>0, LocalStep, Zenon DEF Untouched
  <2>. QED BY <2>1, <2>2 DEF Claims
<1>. QED BY <1>1, <1>2, <1>3, Zenon

-----------------------------------------------------------------------------
\* A copy record holds what its writer wrote last, and the writer is done or at it.
Authentic ==
  \A i \in Copies : copy_records[i] # NoCopy =>
    LET r == copy_records[i]
        w == r.val[1]
    IN  /\ r.key \in Keys /\ r.val # Initially /\ w \in Group
        /\ Out(w) \/ Committing(w)
        /\ r.val = written[w].val[r.key]

\* The copies of a variable are in the order of the tasks.
InOrder ==
  \A i, j \in Copies : \A k \in Keys :
    i < j /\ Holds(i, k) /\ Holds(j, k) => copy_records[i].val[1] <= copy_records[j].val[1]

\* What a task wrote and has committed is in a copy record.
Complete ==
  \A t \in Group, k \in Keys :
    Wrote(t, k) /\ (Out(t) \/ (Committing(t) /\ k \notin Range(todo[t]))) =>
      \E i \in Copies : copy_records[i] = [key |-> k, val |-> written[t].val[k]]

-----------------------------------------------------------------------------
\* A task that is publishing or has published writes no more and remains so.
LEMMA SettledKept ==
  ASSUME Order, Separate, NEW t \in Group, Step(t), NEW u \in Group
  PROVE  /\ Out(u) => Out(u)'
         /\ Out(u) \/ Committing(u) => (Out(u) \/ Committing(u))' /\ written'[u] = written[u]
<1>0. TypeOK /\ Stands /\ DOMAIN pc = Group /\ DOMAIN region = Group
  BY Zenon DEF Order, TypeOK
<1>1. CASE u # t
  <2>1. Untouched(u)
    BY <1>0, <1>1, LocalStep, Zenon
  <2>. QED BY <2>1, Zenon DEF Untouched, Out, Committing
<1>2. CASE u = t
  <2>. USE <1>0, <1>2 DEF Out, Committing, At, Stands
  <2>1. \A k \in Keys : Read(t, k) => (Out(t) => Out(t)') /\ written' = written
    BY Zenon DEF Read, control
  <2>2. \A k \in Keys : Write(t, k) => ~Out(t) /\ ~Committing(t)
    BY Zenon DEF Write, Accessible, Separate
  <2>3. CASE EnterOrdered(t) \/ LeaveOrdered(t)
    BY <2>3, Zenon DEF EnterOrdered, LeaveOrdered, history
  <2>4. CASE MergeCopy(t) \/ MergeEnd(t)
    BY <2>4, Zenon DEF MergeCopy, MergeEnd, history
  <2>5. CASE CommitClaim(t) \/ CommitStore(t)
    BY <2>5, Zenon DEF CommitClaim, CommitStore, history
  <2>6. CASE CommitEnd(t)
    <3>1. region[t] # "leaving" => t # LastTask
      BY <2>6, Zenon DEF Order, Ends, CommitEnd
    <3>. QED BY <2>6, <3>1, Zenon DEF CommitEnd, history
  <2>7. CASE EndBlock(t) \/ BeginCheck(t) \/ CheckNode(t) \/ PassCheck(t)
    BY <2>7, Zenon DEF EndBlock, BeginCheck, CheckNode, PassCheck, history
  <2>8. CASE DataCommit(t) \/ GroupCommit(t)
    BY <2>8, Zenon DEF DataCommit, GroupCommit, history
  <2>9. \A k \in Keys : Read(t, k) => pc[t] = "block"
    BY Zenon DEF Read, Accessible
  <2>. QED BY <2>1, <2>2, <2>3, <2>4, <2>5, <2>6, <2>7, <2>8, <2>9, Zenon DEF Step
<1>. QED BY <1>1, <1>2, Zenon

\* Copy records are only added, and by a task that publishes.
LEMMA Added ==
  ASSUME Order, Claims, NEW t \in Group, Step(t), NEW i \in Copies
  PROVE  \/ copy_records'[i] = copy_records[i]
         \/ /\ CommitStore(t) /\ i = index[t] /\ copy_records[i] = NoCopy
            /\ copy_records'[i] = [key |-> Head(todo[t]), val |-> written[t].val[Head(todo[t])]]
<1>1. CASE CommitStore(t)
  <2>1. /\ index[t] \in Copies /\ DOMAIN copy_records = Copies
        /\ copy_records[index[t]] = NoCopy
        /\ copy_records' = [copy_records EXCEPT ![index[t]] =
             [key |-> Head(todo[t]), val |-> written[t].val[Head(todo[t])]]]
    BY <1>1, Filled, Zenon DEF Order, TypeOK, Copies
  <2>. QED BY <1>1, <2>1, Zenon
<1>2. CASE ~CommitStore(t)
  BY <1>2, Zenon DEF Step, Read, Write, EnterOrdered, LeaveOrdered, MergeCopy, MergeEnd, CommitClaim,
        CommitEnd, EndBlock, BeginCheck, CheckNode, PassCheck, DataCommit, GroupCommit, shared
<1>. QED BY <1>1, <1>2, Zenon

\* The copy records stay what their writers wrote.
LEMMA AuthenticStep ==
  ASSUME Order, Separate, Claims, Authentic, NEW t \in Group, Step(t)
  PROVE  Authentic'
<1>. SUFFICES ASSUME NEW i \in Copies, copy_records'[i] # NoCopy
              PROVE  LET r == copy_records'[i]
                         w == r.val[1]
                     IN  /\ r.key \in Keys /\ r.val # Initially /\ w \in Group
                         /\ \/ region'[w] = "after" \/ (pc'[w] = "done" /\ w # LastTask)
                            \/ pc'[w] \in {"commit", "store"}
                         /\ r.val = written'[w].val[r.key]
  BY Zenon DEF Authentic, Out, Committing
<1>1. CASE copy_records'[i] = copy_records[i]
  <2>. DEFINE w == copy_records[i].val[1]
  <2>1. w \in Group /\ (Out(w) \/ Committing(w))
    BY <1>1, Zenon DEF Authentic
  <2>2. written'[w] = written[w]
    BY <2>1, SettledKept, Zenon
  <2>3. PICK v \in Group : v = w
    BY <2>1, Zenon
  <2>4. (Out(v) \/ Committing(v))'
    BY <2>1, <2>3, SettledKept, Zenon
  <2>. QED BY <1>1, <2>2, <2>3, <2>4, Zenon DEF Authentic, Out, Committing
<1>2. CASE copy_records'[i] # copy_records[i]
  <2>. DEFINE k == Head(todo[t])
  <2>1. CommitStore(t) /\ copy_records'[i] = [key |-> k, val |-> written[t].val[k]]
    BY <1>2, Added, Zenon
  <2>2. k \in Keys /\ written[t].val[k] \in {t} \X (1 .. MaxWrites) /\ Wrote(t, k)
    BY <2>1, Filled, Zenon
  <2>3. written' = written /\ Committing(t)'
    BY <2>1, Zenon DEF CommitStore, history, Committing, Order, TypeOK
  <2>. HIDE DEF k
  <2>4. written[t].val[k][1] = t
    BY <2>2, Zenon
  <2>. QED BY <2>1, <2>2, <2>3, <2>4 DEF Wrote, Committing
<1>. QED BY <1>1, <1>2, Zenon

\* A copy is added behind those of earlier tasks.
LEMMA InOrderStep ==
  ASSUME Order, Claims, Authentic, InOrder, NEW t \in Group, Step(t)
  PROVE  InOrder'
<1>0. /\ TypeOK /\ Stands /\ Turns /\ Ends /\ Blocks /\ next_copy \in Nat
      /\ \A u \in Group : u \in Nat
  <2>1. TypeOK /\ Stands /\ Turns /\ Ends /\ Blocks
    BY Zenon DEF Order
  <2>2. next_copy \in Nat
    BY Zenon DEF Order, TypeOK
  <2>. QED BY <2>1, <2>2, GroupAssumption
<1>. SUFFICES ASSUME NEW i \in Copies, NEW j \in Copies, NEW k \in Keys, i < j,
                     Holds(i, k)', Holds(j, k)'
              PROVE  copy_records'[i].val[1] <= copy_records'[j].val[1]
  BY Zenon DEF InOrder, Holds
<1>1. CASE copy_records'[i] = copy_records[i] /\ copy_records'[j] = copy_records[j]
  BY <1>1, Zenon DEF InOrder, Holds
<1>2. CASE copy_records'[i] # copy_records[i]
  <2>1. CommitStore(t) /\ i = index[t]
    BY <1>2, Added, Zenon
  <2>2. i = next_copy - 1
    BY <2>1, Filled, Zenon
  <2>4. copy_records'[j] = copy_records[j]
    <3>1. i # j
      BY <1>0, GroupAssumption DEF Copies
    <3>. QED BY <2>1, <3>1, Added, Zenon
  <2>3. j >= next_copy
    BY <1>0, <2>2, GroupAssumption DEF Copies
  <2>. QED BY <2>4, <2>3, Zenon DEF Claims, Holds
<1>3. CASE copy_records'[i] = copy_records[i] /\ copy_records'[j] # copy_records[j]
  <2>. DEFINE w == copy_records[i].val[1]
  <2>1. /\ CommitStore(t)
        /\ copy_records'[j] = [key |-> Head(todo[t]), val |-> written[t].val[Head(todo[t])]]
    BY <1>3, Added, Zenon
  <2>2. Publishing(t) /\ copy_records'[j].val[1] = t
    BY <2>1, Filled
  <2>3. w \in Group /\ (Out(w) \/ Committing(w))
    BY <1>3, Zenon DEF Authentic, Holds
  <2>4. ~(w > t)
    BY <1>0, <2>2, <2>3, PublishAlone, Zenon
  <2>. QED BY <1>0, <1>3, <2>2, <2>3, <2>4
<1>. QED BY <1>1, <1>2, <1>3, Zenon

\* What a task begins to commit is all that it wrote.
LEMMA AllToCommit ==
  ASSUME Order, NEW t \in Group, LeaveOrdered(t) \/ DataCommit(t), NEW k \in Keys, Wrote(t, k)
  PROVE  region[t] = "after" \/ k \in Range(todo'[t])
<1>1. /\ \/ pc[t] = "block" /\ region[t] = "inside"
         \/ pc[t] = "passed" /\ region[t] \in {"before", "after"}
      /\ todo'[t] = write_list[t] \o ordered_writes[t]
  BY Zenon DEF LeaveOrdered, DataCommit, At, Order, TypeOK, Stands, Committing
<1>2. write_list[t] \in Seq(Keys) /\ ordered_writes[t] \in Seq(Keys)
  BY Zenon DEF Order, TypeOK
<1>3. Range(todo'[t]) = Range(write_list[t]) \cup Range(ordered_writes[t])
  BY <1>1, <1>2, NodesOfBoth
<1>4. CASE region[t] = "inside"
  BY <1>3, <1>4, Zenon DEF Order, Blocks, BlockOf
<1>5. CASE region[t] = "before" /\ pc[t] = "passed"
  <2>1. ListedOf(t)
    BY <1>5, Zenon DEF Order, AccessesListed, ListedOf
  <2>. QED BY <1>3, <2>1, Zenon DEF ListedOf, Wrote
<1>. QED BY <1>1, <1>4, <1>5, Zenon

\* A task has published more only by filling a record in.
LEMMA MoreCommitted ==
  ASSUME Order, Separate, NEW t \in Group, Step(t), NEW k \in Keys,
         Wrote(t, k)', (Out(t) \/ (Committing(t) /\ k \notin Range(todo[t])))'
  PROVE  /\ Wrote(t, k) /\ written'[t] = written[t]
         /\ \/ Out(t)
            \/ Committing(t) /\ k \notin Range(todo[t])
            \/ CommitStore(t) /\ k = Head(todo[t])
<1>0. /\ TypeOK /\ Stands /\ DOMAIN pc = Group /\ DOMAIN region = Group /\ DOMAIN todo = Group
      /\ todo[t] \in Seq(Keys)
  BY Zenon DEF Order, TypeOK
<1>. DEFINE P == \/ Out(t)
                 \/ Committing(t) /\ k \notin Range(todo[t])
                 \/ CommitStore(t) /\ k = Head(todo[t])
<1>. USE <1>0 DEF Out, Committing, At, Stands
<1>1. CASE \E l \in Keys : Read(t, l)
  BY <1>1, Zenon DEF Read, Accessible, control, Wrote
<1>2. CASE \E l \in Keys : Write(t, l)
  BY <1>2, Zenon DEF Write, Accessible, Separate, control
<1>3. ~(\E l \in Keys : Write(t, l)) => written' = written
  BY OnlyWrites, Zenon
<1>4. EnterOrdered(t) \/ MergeCopy(t) => P
  BY Zenon DEF EnterOrdered, MergeCopy
<1>5. MergeEnd(t) => P
  BY Zenon DEF MergeEnd, Order, Ends
<1>6. CASE LeaveOrdered(t) \/ DataCommit(t)
  <2>1. Wrote(t, k) /\ written'[t] = written[t]
    BY <1>6, Zenon DEF LeaveOrdered, DataCommit, history, Wrote
  <2>2. region[t] = "after" \/ k \in Range(todo'[t])
    BY <1>6, <2>1, AllToCommit, Zenon
  <2>. QED BY <1>6, <2>1, <2>2, Zenon DEF LeaveOrdered, DataCommit
<1>7. CommitClaim(t) => P
  BY Zenon DEF CommitClaim
<1>8. CommitStore(t) => P
  <2>. HAVE CommitStore(t)
  <2>1. Range(todo[t]) = Range(todo'[t]) \cup {Head(todo[t])}
    BY NodesOfTail, Zenon DEF CommitStore
  <2>. QED BY <2>1, Zenon DEF CommitStore
<1>9. CommitEnd(t) => P
  BY DEF CommitEnd, Range
<1>10. EndBlock(t) \/ BeginCheck(t) \/ CheckNode(t) \/ PassCheck(t) \/ GroupCommit(t) => P
  BY Zenon DEF EndBlock, BeginCheck, CheckNode, PassCheck, GroupCommit
<1>11. ~(\E l \in Keys : Write(t, l)) => Wrote(t, k) /\ written'[t] = written[t]
  BY <1>3, Zenon DEF Wrote
<1>. HIDE DEF Out, Committing, At, Stands
<1>. QED BY <1>1, <1>2, <1>4, <1>5, <1>6, <1>7, <1>8, <1>9, <1>10, <1>11, Zenon DEF Step

\* What has been committed stays in the copy records, and what is committed gets there.
LEMMA CompleteStep ==
  ASSUME Order, Separate, Claims, Complete, NEW t \in Group, Step(t)
  PROVE  Complete'
<1>. SUFFICES ASSUME NEW u \in Group, NEW k \in Keys, Wrote(u, k)',
                     (Out(u) \/ (Committing(u) /\ k \notin Range(todo[u])))'
              PROVE  \E i \in Copies : copy_records'[i] = [key |-> k, val |-> written'[u].val[k]]
  BY Zenon DEF Complete, Wrote, Out, Committing
<1>1. /\ Wrote(u, k) /\ written'[u] = written[u]
      /\ \/ Out(u)
         \/ Committing(u) /\ k \notin Range(todo[u])
         \/ u = t /\ CommitStore(t) /\ k = Head(todo[t])
  <2>1. CASE u = t
    BY <2>1, MoreCommitted, Zenon
  <2>2. CASE u # t
    <3>1. Untouched(u)
      BY <2>2, LocalStep, Zenon DEF Order
    <3>. QED BY <3>1, Zenon DEF Untouched, Out, Committing, Wrote
  <2>. QED BY <2>1, <2>2, Zenon
<1>2. CASE Out(u) \/ (Committing(u) /\ k \notin Range(todo[u]))
  <2>1. PICK i \in Copies : copy_records[i] = [key |-> k, val |-> written[u].val[k]]
    BY <1>1, <1>2, Zenon DEF Complete
  <2>2. copy_records[i] # NoCopy
    <3>1. copy_records[i].val # <<>>
      BY <1>1, <2>1 DEF Wrote, Initially
    <3>. QED BY <3>1 DEF NoCopy
  <2>. QED BY <1>1, <2>1, <2>2, Added, Zenon
<1>3. CASE u = t /\ CommitStore(t) /\ k = Head(todo[t])
  <2>1. /\ index[t] \in Copies /\ DOMAIN copy_records = Copies
        /\ copy_records' = [copy_records EXCEPT ![index[t]] = [key |-> k, val |-> written[t].val[k]]]
    BY <1>3, Filled, Zenon DEF Order, TypeOK, Copies
  <2>. QED BY <1>1, <1>3, <2>1, Zenon
<1>. QED BY <1>1, <1>2, <1>3, Zenon

-----------------------------------------------------------------------------
\* While a task goes through its read list, what it has behind it was written by no
\* task that has passed its check and not begun to commit.
Checking ==
  ~aborted =>
    \A t, u \in Group :
      (/\ u < t /\ pc[t] = "check" /\ region[t] = "before"
       /\ pc[u] = "passed" /\ region[u] = "before") =>
          \A k \in Range(read_list[t]) \ Range(todo[t]) : ~Wrote(u, k)

\* Those that are pending when a task passes have passed, and have written no plain
\* variable that it read.
PassedClean ==
  \A t \in passed :
    /\ pending[t] \subseteq passed
    /\ \A o \in observed[t] : o[1] \in PlainKeys => \A u \in pending[t] : ~Wrote(u, o[1])

\* The check looks at every node of the list, and at every earlier task.
LEMMA CheckingStep ==
  ASSUME Order, Checking, NEW t \in Group, Step(t)
  PROVE  Checking'
<1>0. /\ TypeOK /\ Stands /\ \A v \in Group : v \in Nat
  BY Positions, Zenon DEF Order
<1>. SUFFICES ASSUME ~aborted', NEW v \in Group, NEW u \in Group, u < v,
                     pc'[v] = "check", region'[v] = "before", pc'[u] = "passed",
                     region'[u] = "before",
                     NEW k \in Range(read_list'[v]), k \notin Range(todo'[v])
              PROVE  ~Wrote(u, k)'
  BY Zenon DEF Checking, Wrote
<1>1. CASE v # t /\ u # t
  <2>1. Untouched(u) /\ Untouched(v) /\ ~aborted
    <3>1. ~aborted
      BY <1>0, Moves, Zenon
    <3>. QED BY <1>0, <1>1, <3>1, LocalStep, Zenon
  <2>. QED BY <2>1 DEF Untouched, Checking, Wrote
<1>2. CASE u = t
  <2>1. Untouched(v) /\ v # t
    BY <1>0, <1>2, LocalStep, Zenon
  <2>2. u \in passed
    <3>1. pc[v] = "check" /\ Turns
      BY <2>1, Zenon DEF Order, Untouched
    <3>. QED BY <3>1, Zenon DEF Turns
  <2>3. pc[u] # "check"
    BY <2>2, Zenon DEF Order, Ends, Late
  <2>. QED BY <1>0, <1>2, <2>3, Moves, Zenon DEF PassCheck, At
<1>3. CASE v = t
  <2>0. Untouched(u) /\ u # t
    BY <1>0, <1>3, LocalStep, Zenon
  <2>1. BeginCheck(t) \/ CheckNode(t)
    BY <1>0, <1>3, Moves, Zenon
  <2>2. CASE BeginCheck(t)
    <3>1. t # 0
      BY <1>0, <1>3
    <3>. QED BY <1>0, <1>3, <2>2, <3>1, Zenon DEF BeginCheck, TypeOK, lists
  <2>3. CASE CheckNode(t)
    <3>1. /\ ~aborted /\ pc[t] = "check" /\ region[t] = "before" /\ read_list' = read_list
          /\ todo[t] # <<>> /\ todo'[t] = Tail(todo[t]) /\ ~Conflict(t, Head(todo[t]))
      BY <1>0, <1>3, <2>3, Zenon DEF CheckNode, At, lists, TypeOK
    <3>2. pc[u] = "passed" /\ region[u] = "before" /\ (Wrote(u, k)' <=> Wrote(u, k))
      BY <2>0, Zenon DEF Untouched, Wrote
    <3>3. CASE k \notin Range(todo[t])
      BY <1>3, <3>1, <3>2, <3>3, Zenon DEF Checking
    <3>4. CASE k \in Range(todo[t])
      <4>1. todo[t] \in Seq(Keys) /\ read_list[t] \in Seq(Keys)
        BY <1>0, Zenon DEF TypeOK
      <4>2. k = Head(todo[t]) /\ k \in Keys
        BY <1>3, <3>1, <3>4, <4>1, NodesOfTail
      <4>3. ListedOf(t) /\ ListedOf(u)
        BY <3>1, <3>2, Zenon DEF Order, AccessesListed, ListedOf
      <4>4. ~FirstAccess(t, k, READ_BIT)
        BY <1>3, <3>1, <4>2, <4>3, Zenon DEF ListedOf
      <4>5. u \in 0 .. t - 1
        <5>1. u \in Nat /\ t \in Nat /\ u < t
          BY <1>0, <1>3, Zenon
        <5>. QED BY <5>1
      <4>6. FirstAccess(u, k, WRITE_BIT)
        BY <3>1, <4>2, <4>4, <4>5, Zenon DEF Conflict, FirstAccess
      <4>7. k \notin {l \in Keys : ~FirstAccess(u, l, WRITE_BIT)}
        BY <4>6, Zenon
      <4>. QED BY <3>2, <4>2, <4>3, <4>7, Zenon DEF ListedOf, Wrote
    <3>. QED BY <3>3, <3>4, Zenon
  <2>. QED BY <2>1, <2>2, <2>3, Zenon
<1>. QED BY <1>1, <1>2, <1>3, Zenon

\* A task that has passed does not read, and the pending ones do not write.
LEMMA PassedCleanStep ==
  ASSUME Order, Separate, Checking, PassedClean, NEW t \in Group, Step(t)
  PROVE  PassedClean'
<1>0. TypeOK /\ Stands /\ \A v \in Group : v \in Nat
  BY Positions, Zenon DEF Order
<1>1. \A v \in passed : v \in Group /\ pc[v] # "block" /\ pc[v] # "check"
  BY <1>0, Zenon DEF Order, Ends, Late, TypeOK
<1>2. \A v \in passed : written'[v] = written[v] /\ observed'[v] = observed[v]
  <2>1. ASSUME NEW v \in passed, v # t PROVE written'[v] = written[v] /\ observed'[v] = observed[v]
    BY <1>0, <1>1, <2>1, LocalStep, Zenon DEF Untouched
  <2>2. t \in passed => written' = written /\ observed' = observed
    BY <1>1, OnlyReads, OnlyWrites, Zenon DEF Read, Write, Accessible, At
  <2>. QED BY <2>1, <2>2, Zenon
<1>3. (passed' = passed /\ pending' = pending) \/ PassCheck(t)
  BY Zenon DEF Step, Read, Write, EnterOrdered, LeaveOrdered, MergeCopy, MergeEnd, CommitClaim,
        CommitStore, CommitEnd, EndBlock, BeginCheck, CheckNode, DataCommit,
        GroupCommit, control, history
<1>. SUFFICES ASSUME NEW v \in passed'
              PROVE  /\ pending'[v] \subseteq passed'
                     /\ \A o \in observed'[v] : o[1] \in PlainKeys =>
                          \A u \in pending'[v] : ~Wrote(u, o[1])'
  BY Zenon DEF PassedClean
<1>4. CASE v \in passed
  <2>1. pending'[v] = pending[v] /\ passed \subseteq passed'
    BY <1>0, <1>1, <1>3, <1>4, Zenon DEF PassCheck, At, TypeOK
  <2>. QED BY <1>1, <1>2, <1>4, <2>1 DEF PassedClean, Wrote
<1>5. CASE v \notin passed
  <2>1. v = t /\ PassCheck(t)
    BY <1>3, <1>5, Zenon DEF PassCheck
  <2>2. /\ pc[t] = "check" /\ ~aborted /\ todo[t] = <<>> /\ passed \subseteq passed'
        /\ pending'[t] = {u \in Group : u < t /\ pc[u] = "passed"}
        /\ written' = written /\ observed' = observed
    BY <1>0, <2>1, Zenon DEF PassCheck, At, TypeOK
  <2>3. pending'[t] \subseteq passed'
    BY <2>2, Zenon DEF Order, Ends
  <2>4. ASSUME NEW o \in observed[t], o[1] \in PlainKeys, NEW u \in pending'[t]
        PROVE  ~Wrote(u, o[1])
    <3>1. region[t] = "before"
      BY <2>4 DEF Order, Blocks, BlockOf, Separate
    <3>2. ListedOf(t)
      BY <2>2, <3>1, Zenon DEF Order, AccessesListed, ListedOf
    <3>3. o[1] \in Range(read_list[t])
      BY <3>2, Zenon DEF ListedOf
    <3>4. Range(todo[t]) = {}
      BY <2>2 DEF Range
    <3>5. CASE region[u] = "before"
      BY <2>2, <3>1, <3>3, <3>4, <3>5, Zenon DEF Checking
    <3>6. CASE region[u] # "before"
      BY <2>2, <2>4, <3>6, Zenon DEF Order, Blocks, BlockOf
    <3>. QED BY <3>5, <3>6, Zenon
  <2>. QED BY <2>1, <2>2, <2>3, <2>4, Zenon DEF Wrote
<1>. QED BY <1>4, <1>5, Zenon

-----------------------------------------------------------------------------
Records == Claims /\ Authentic /\ InOrder /\ Complete

\* A value in a task's heap is from before the group, its own, or a copy.
HeapSource ==
  \A t \in Group, k \in Keys :
    \/ heap[t][k] = Initially
    \/ heap[t][k] = written[t].val[k]
    \/ \E i \in Copies : copy_records[i] = [key |-> k, val |-> heap[t][k]]

\* A merging task holds the last copy of every variable among those it has read.
Merging ==
  \A t \in Group, k \in Keys : pc[t] = "merge" =>
    \/ \A j \in Copies : j < index[t] => ~Holds(j, k)
    \/ \E j \in Copies :
         /\ j < index[t] /\ Holds(j, k) /\ heap[t][k] = copy_records[j].val
         /\ \A i \in Copies : j < i /\ i < index[t] => ~Holds(i, k)

\* No merge reads a record that is claimed and not filled in.
LEMMA FilledWhenRead == Order /\ Claims => MergeReadsFilled
<1>. SUFFICES ASSUME Order, Claims, NEW t \in Group, pc[t] = "merge", MoreCopies(t),
                     copy_records[index[t]] = NoCopy
              PROVE  FALSE
  BY Zenon DEF MergeReadsFilled
<1>0. TypeOK /\ Stands /\ Turns /\ Ends /\ Blocks
  BY Zenon DEF Order
<1>1. index[t] \in Copies /\ index[t] < next_copy
  <2>1. index[t] \in Nat /\ index[t] >= 1 /\ MAX_COPYS \in Nat
    BY <1>0, GroupAssumption, Zenon DEF TypeOK, Stands
  <2>. QED BY <2>1 DEF MoreCopies, Copies
<1>2. PICK u \in Group : pc[u] = "store"
  BY <1>1, Zenon DEF Claims
<1>3. Publishing(u)
  BY <1>0, <1>2, Zenon DEF Stands, Publishing, Committing
<1>. QED BY <1>0, <1>3, PublishAlone, Zenon

\* The loop of parent_merge, and the record it is at.
LEMMA MergeReads ==
  ASSUME Order, Claims, NEW t \in Group, MergeCopy(t)
  PROVE  LET c == copy_records[index[t]]
         IN  /\ index[t] \in Copies /\ index'[t] = index[t] + 1 /\ index[t] \in Nat
             /\ c # NoCopy /\ c.key \in Keys /\ c = [key |-> c.key, val |-> c.val]
             /\ heap' = [heap EXCEPT ![t][c.key] = c.val]
             /\ copy_records' = copy_records /\ written' = written /\ pc' = pc
<1>1. pc[t] = "merge" /\ MoreCopies(t) /\ index[t] \in Nat /\ index[t] >= 1 /\ MAX_COPYS \in Nat
  BY GroupAssumption, Zenon DEF MergeCopy, At, Order, TypeOK, Stands
<1>2. index[t] \in Copies
  BY <1>1 DEF MoreCopies, Copies
<1>3. copy_records[index[t]] # NoCopy
  BY <1>1, FilledWhenRead, Zenon DEF MergeReadsFilled
<1>4. copy_records[index[t]] \in [key : Keys, val : Values]
  BY <1>2, <1>3, Zenon DEF Order, TypeOK, Copies
<1>5. index'[t] = index[t] + 1 /\ heap' = [heap EXCEPT ![t][copy_records[index[t]].key] =
                                                          copy_records[index[t]].val]
  BY <1>3, Zenon DEF MergeCopy, Order, TypeOK
<1>6. copy_records' = copy_records /\ written' = written /\ pc' = pc
  BY Zenon DEF MergeCopy, shared, history
<1>. QED BY <1>1, <1>2, <1>3, <1>4, <1>5, <1>6, Zenon

\* Only vm_setivar and a merge change a heap.
LEMMA OnlyStores ==
  ASSUME NEW t \in Group, Step(t)
  PROVE  heap' = heap \/ MergeCopy(t) \/ \E k \in Keys : Write(t, k)
<1>1. CASE EnterOrdered(t) \/ LeaveOrdered(t) \/ MergeEnd(t) \/ \E k \in Keys : Read(t, k)
  BY <1>1, Zenon DEF EnterOrdered, LeaveOrdered, MergeEnd, Read
<1>2. CASE CommitClaim(t) \/ CommitStore(t) \/ CommitEnd(t) \/ EndBlock(t)
  BY <1>2, Zenon DEF CommitClaim, CommitStore, CommitEnd, EndBlock
<1>3. CASE BeginCheck(t) \/ CheckNode(t) \/ PassCheck(t) \/ DataCommit(t) \/ GroupCommit(t)
  BY <1>3, Zenon DEF BeginCheck, CheckNode, PassCheck, DataCommit, GroupCommit
<1>. QED BY <1>1, <1>2, <1>3, Zenon DEF Step

\* Values come from one of the three places.
LEMMA HeapSourceStep ==
  ASSUME Order, Claims, HeapSource, NEW t \in Group, Step(t)
  PROVE  HeapSource'
<1>. SUFFICES ASSUME NEW u \in Group, NEW k \in Keys, heap'[u][k] # Initially,
                     heap'[u][k] # written'[u].val[k]
              PROVE  \E i \in Copies : copy_records'[i] = [key |-> k, val |-> heap'[u][k]]
  BY Zenon DEF HeapSource
<1>0. TypeOK /\ heap \in [Group -> [Keys -> Values]]
  BY Zenon DEF Order, TypeOK
<1>1. ASSUME heap'[u][k] = heap[u][k], written'[u].val[k] = written[u].val[k]
      PROVE  \E i \in Copies : copy_records'[i] = [key |-> k, val |-> heap'[u][k]]
  <2>1. PICK i \in Copies : copy_records[i] = [key |-> k, val |-> heap[u][k]]
    BY <1>1, Zenon DEF HeapSource
  <2>2. copy_records[i] # NoCopy
    <3>1. copy_records[i].val # <<>>
      BY <1>1, <2>1 DEF Initially
    <3>. QED BY <3>1 DEF NoCopy
  <2>. QED BY <1>1, <2>1, <2>2, Added, Zenon
<1>2. CASE u # t
  BY <1>0, <1>1, <1>2, LocalStep, Zenon DEF Untouched
<1>3. CASE u = t /\ MergeCopy(t)
  <2>. DEFINE c == copy_records[index[t]]
  <2>1. /\ index[t] \in Copies /\ c = [key |-> c.key, val |-> c.val]
        /\ heap' = [heap EXCEPT ![t][c.key] = c.val]
        /\ copy_records' = copy_records /\ written' = written
    BY <1>3, MergeReads, Zenon
  <2>. HIDE DEF c
  <2>2. heap'[u][k] = IF k = c.key THEN c.val ELSE heap[u][k]
    BY <1>0, <1>3, <2>1, Zenon
  <2>. QED BY <1>1, <2>1, <2>2, Zenon DEF c
<1>4. CASE u = t /\ \E l \in Keys : Write(t, l)
  <2>1. PICK l \in Keys : Write(t, l)
    BY <1>4, Zenon
  <2>2. PICK v : heap' = [heap EXCEPT ![t][l] = v] /\ written'[t].val = [written[t].val EXCEPT ![l] = v]
    BY <2>1, Zenon DEF Write, Order, TypeOK
  <2>3. written[t].val \in [Keys -> Values]
    BY Zenon DEF Order, TypeOK
  <2>. QED BY <1>0, <1>1, <1>4, <2>2, <2>3, Zenon
<1>5. CASE u = t /\ heap' = heap /\ written' = written
  BY <1>1, <1>5, Zenon
<1>. QED BY <1>2, <1>3, <1>4, <1>5, OnlyStores, OnlyWrites, Zenon

\* While a task merges nobody adds a copy, and each round takes the next one.
LEMMA MergingStep ==
  ASSUME Order, Claims, Merging, NEW t \in Group, Step(t)
  PROVE  Merging'
<1>. SUFFICES ASSUME NEW u \in Group, NEW k \in Keys, pc'[u] = "merge"
              PROVE  \/ \A j \in Copies : j < index'[u] => ~Holds(j, k)'
                     \/ \E j \in Copies :
                          /\ j < index'[u] /\ Holds(j, k)' /\ heap'[u][k] = copy_records'[j].val
                          /\ \A i \in Copies : j < i /\ i < index'[u] => ~Holds(i, k)'
  BY Zenon DEF Merging, Holds
<1>0. /\ TypeOK /\ Stands /\ Turns /\ Ends /\ Blocks
  BY Zenon DEF Order
<1>6. MAX_COPYS \in Nat
  BY GroupAssumption, Zenon
<1>1. CASE u # t
  <2>1. pc[u] = "merge" /\ index'[u] = index[u] /\ heap'[u] = heap[u]
    BY <1>0, <1>1, LocalStep, Zenon DEF Untouched
  <2>2. ~Publishing(t)
    BY <1>0, <2>1, PublishAlone, Zenon
  <2>3. ~CommitStore(t)
    BY <2>2, Filled, Zenon
  <2>4. \A i \in Copies : copy_records'[i] = copy_records[i]
    BY <2>3, Added, Zenon
  <2>. QED BY <2>1, <2>4 DEF Merging, Holds
<1>2. CASE u = t /\ MergeCopy(t)
  <2>. DEFINE c == copy_records[index[t]]
  <2>1. /\ index[t] \in Copies /\ index'[t] = index[t] + 1 /\ index[t] \in Nat
        /\ c # NoCopy /\ c.key \in Keys /\ heap' = [heap EXCEPT ![t][c.key] = c.val]
        /\ copy_records' = copy_records /\ pc' = pc
    BY <1>2, MergeReads, Zenon
  <2>7. c = copy_records[index[t]]
    BY Zenon
  <2>. HIDE DEF c
  <2>2. heap'[t][k] = IF k = c.key THEN c.val ELSE heap[t][k]
    <3>1. heap \in [Group -> [Keys -> Values]]
      BY <1>0, Zenon DEF TypeOK
    <3>. QED BY <2>1, <3>1, Zenon
  <2>3. \A j \in Copies : j < index'[t] <=> j < index[t] \/ j = index[t]
    BY <1>6, <2>1 DEF Copies
  <2>4. \A j \in Copies : ~(index[t] < j /\ j < index'[t])
    BY <1>6, <2>1 DEF Copies
  <2>5. CASE k = c.key
    <3>1. PICK n \in Copies : n = index[t]
      BY <2>1, Zenon
    <3>2. Holds(n, k)' /\ n < index'[t] /\ heap'[t][k] = copy_records'[n].val
      BY <2>1, <2>2, <2>3, <2>5, <2>7, <3>1, Zenon DEF Holds
    <3>3. \A i \in Copies : ~(n < i /\ i < index'[t])
      BY <2>4, <3>1, Zenon
    <3>. QED BY <1>2, <3>2, <3>3, Zenon
  <2>6. CASE k # c.key
    <3>1. \A j \in Copies : Holds(j, k)' <=> Holds(j, k)
      BY <2>1, Zenon DEF Holds
    <3>2. ~Holds(index[t], k) /\ heap'[t][k] = heap[t][k] /\ pc[t] = "merge"
      BY <1>2, <2>1, <2>2, <2>6, <2>7, Zenon DEF Holds
    <3>3. index[t] \in Copies
      BY <2>1, Zenon
    <3>4. CASE \A j \in Copies : j < index[t] => ~Holds(j, k)
      BY <1>2, <2>3, <3>1, <3>2, <3>4
    <3>5. CASE ~\A j \in Copies : j < index[t] => ~Holds(j, k)
      <4>1. PICK j \in Copies :
              /\ j < index[t] /\ Holds(j, k) /\ heap[t][k] = copy_records[j].val
              /\ \A i \in Copies : j < i /\ i < index[t] => ~Holds(i, k)
        BY <3>2, <3>5, Zenon DEF Merging
      <4>2. j < index'[t] /\ Holds(j, k)' /\ heap'[t][k] = copy_records'[j].val
        BY <2>1, <2>3, <3>1, <3>2, <4>1, Zenon
      <4>3. \A i \in Copies : j < i /\ i < index'[t] => ~Holds(i, k)'
        BY <2>3, <3>1, <3>2, <4>1, Zenon
      <4>. QED BY <1>2, <4>2, <4>3, Zenon
    <3>. QED BY <3>4, <3>5, Zenon
  <2>. QED BY <2>5, <2>6, Zenon
<1>3. CASE u = t /\ ~MergeCopy(t)
  <2>1. EnterOrdered(t) \/ GroupCommit(t)
    BY <1>0, <1>3, Moves, Zenon
  <2>2. index'[t] = 1
    BY <1>0, <2>1, Zenon DEF EnterOrdered, GroupCommit, TypeOK
  <2>. QED BY <1>3, <1>6, <2>2 DEF Copies
<1>. QED BY <1>1, <1>2, <1>3, Zenon

\* The last one of some tasks, named.
LEMMA LatestIs ==
  ASSUME NEW T, T \subseteq Nat, NEW w \in T, \A u \in T : u <= w
  PROVE  Latest(T) = w
<1>1. Latest(T) \in T /\ \A u \in T : u <= Latest(T)
  BY Zenon DEF Latest
<1>2. Latest(T) \in Nat /\ w \in Nat /\ Latest(T) <= w /\ w <= Latest(T)
  BY <1>1, Zenon
<1>. QED BY <1>2

\* A merge that has come to its end leaves in the heap, for a variable whose writers
\* have all published, the value of the last of them.
LEMMA MergedIs ==
  ASSUME Order, Records, HeapSource, Merging, NEW t \in Group, pc[t] = "merge", ~MoreCopies(t),
         NEW k \in Keys, NEW b \in Nat,
         \A u \in Group : Wrote(u, k) /\ u < b => Out(u),
         \A u \in Group : Wrote(u, k) /\ (Out(u) \/ Committing(u) \/ u = t) => u < b
  PROVE  heap[t][k] = SerialValue(k, b)
<1>. DEFINE W == {u \in WritersOf(k) : u < b}
<1>0. /\ \A u \in Group : u \in Nat
      /\ \A u \in W : u \in Group /\ Wrote(u, k) /\ u < b
      /\ \A u \in Group : Wrote(u, k) /\ u < b => u \in W
  BY GroupAssumption DEF WritersOf, Wrote
<1>1. \A j \in Copies : Holds(j, k) => j < index[t]
  <2>. SUFFICES ASSUME NEW j \in Copies, Holds(j, k) PROVE j < index[t]
    BY Zenon
  <2>1. j < next_copy /\ j < MAX_COPYS
    <3>1. ~(j >= next_copy)
      BY Zenon DEF Records, Claims, Holds
    <3>2. next_copy \in Nat /\ MAX_COPYS \in Nat
      BY GroupAssumption, Zenon DEF Order, TypeOK
    <3>. QED BY <3>1, <3>2 DEF Copies
  <2>2. index[t] \in Nat /\ next_copy \in Nat /\ MAX_COPYS \in Nat
    BY GroupAssumption, Zenon DEF Order, TypeOK
  <2>. QED BY <2>1, <2>2 DEF MoreCopies, Copies
<1>2. ASSUME NEW u \in W
      PROVE  \E i \in Copies : Holds(i, k) /\ copy_records[i].val[1] = u
  <2>1. PICK i \in Copies : copy_records[i] = [key |-> k, val |-> written[u].val[k]]
    BY <1>0, Zenon DEF Records, Complete
  <2>2. written[u].val[k] \in {u} \X (1 .. MaxWrites) /\ written[u].val[k] # <<>>
    BY <1>0, Zenon DEF Order, Own, Wrote, Initially
  <2>3. copy_records[i] # NoCopy
    <3>1. copy_records[i].val # <<>>
      BY <2>1, <2>2
    <3>. QED BY <3>1 DEF NoCopy
  <2>. QED BY <2>1, <2>2, <2>3 DEF Holds
<1>3. CASE \A j \in Copies : ~Holds(j, k)
  <2>1. W = {}
    BY <1>2, <1>3, Zenon
  <2>2. SerialValue(k, b) = Initially
    BY <2>1, Zenon DEF SerialValue
  <2>3. ~Wrote(t, k)
    BY <1>0, <2>1, Zenon
  <2>4. \A i \in Copies : copy_records[i] # [key |-> k, val |-> heap[t][k]] \/ heap[t][k] = <<>>
    <3>. SUFFICES ASSUME NEW i \in Copies, copy_records[i] = [key |-> k, val |-> heap[t][k]],
                         heap[t][k] # <<>>
                  PROVE  FALSE
      BY Zenon
    <3>1. copy_records[i].val # <<>> /\ copy_records[i].key = k
      OBVIOUS
    <3>. QED BY <1>3, <3>1 DEF Holds, NoCopy
  <2>. QED BY <2>2, <2>3, <2>4, Zenon DEF HeapSource, Wrote, Initially
<1>4. CASE \E j \in Copies : Holds(j, k)
  <2>1. PICK j \in Copies : /\ Holds(j, k) /\ heap[t][k] = copy_records[j].val
                            /\ \A i \in Copies : j < i => ~Holds(i, k)
    BY <1>1, <1>4, Zenon DEF Merging
  <2>. DEFINE w == copy_records[j].val[1]
  <2>2. /\ w \in Group /\ (Out(w) \/ Committing(w)) /\ Wrote(w, k)
        /\ copy_records[j].val = written[w].val[k]
    BY <2>1, Zenon DEF Records, Authentic, Holds, Wrote
  <2>3. w \in W
    BY <1>0, <2>2, Zenon
  <2>4. ASSUME NEW u \in W PROVE u <= w
    <3>1. PICK i \in Copies : Holds(i, k) /\ copy_records[i].val[1] = u
      BY <1>2, Zenon
    <3>2. i < j \/ i = j
      BY <2>1, <3>1, GroupAssumption DEF Copies
    <3>3. i < j => u <= w
      BY <2>1, <3>1, Zenon DEF Records, InOrder
    <3>. QED BY <1>0, <2>2, <3>1, <3>2, <3>3
  <2>5. Latest(W) = w
    BY <1>0, <2>3, <2>4, LatestIs, Zenon
  <2>6. SerialValue(k, b) = written[w].val[k]
    BY <2>3, <2>5, Zenon DEF SerialValue
  <2>. QED BY <2>1, <2>2, <2>6, Zenon
<1>. QED BY <1>3, <1>4, Zenon

-----------------------------------------------------------------------------
\* What an Ordered region finds in a variable until it writes to it.
InsideView ==
  \A t \in Group, k \in OrderedKeys :
    region[t] = "inside" /\ ~Wrote(t, k) => heap[t][k] = SerialValue(k, t)

\* A value of sequential execution depends on the earlier tasks only.
LEMMA SerialKept ==
  ASSUME NEW k, NEW b, \A u \in Group : u < b => written'[u] = written[u]
  PROVE  SerialValue(k, b)' = SerialValue(k, b)
<1>. DEFINE W == {u \in WritersOf(k) : u < b}
<1>1. W' = W /\ W \in SUBSET Group /\ \A u \in W : written'[u] = written[u]
  BY Zenon DEF WritersOf
<1>2. SerialValue(k, b) = IF W = {} THEN Initially ELSE written[Latest(W)].val[k]
  BY Zenon DEF SerialValue
<1>3. SerialValue(k, b)' = IF W = {} THEN Initially ELSE written'[Latest(W)].val[k]
  BY <1>1, Zenon DEF SerialValue
<1>4. W # {} => Latest(W) \in W
  BY <1>1, LatestExists, Zenon
<1>. QED BY <1>1, <1>2, <1>3, <1>4

\* Once a task's turn has come, no earlier one writes.
LEMMA EarlierSettled ==
  ASSUME Order, Separate, NEW t \in Group, Step(t), NEW u \in Group, NEW v \in Group, v < u,
         region[u] # "before" \/ Late(u)
  PROVE  written'[v] = written[v]
<1>1. region[v] = "after" \/ pc[v] = "done"
  BY Zenon DEF Order, Turns
<1>2. ~\E k \in Keys : Write(v, k)
  BY <1>1, Zenon DEF Write, Accessible, At, Separate
<1>3. CASE v = t
  BY <1>2, <1>3, OnlyWrites, Zenon
<1>4. CASE v # t
  BY <1>4, LocalStep, Zenon DEF Order, Untouched
<1>. QED BY <1>3, <1>4, Zenon

\* When a task's turn to enter comes, the tasks before it have published and those
\* behind it have not.
LEMMA EnterTurn ==
  ASSUME Order, NEW t \in Group, region[t] = "entering", NEW u \in Group
  PROVE  /\ u < t => Out(u)
         /\ u > t => ~Out(u) /\ ~Committing(u)
<1>1. /\ t \in Nat /\ u \in Nat /\ t <= LastTask /\ pc[t] = "merge" /\ LastTask \in Nat
  BY LastIsGreatest, Positions, Zenon DEF Order, Stands
<1>2. u < t => Out(u)
  <2>. HAVE u < t
  <2>1. region[u] = "after" \/ pc[u] = "done"
    BY Zenon DEF Order, Turns
  <2>. QED BY <1>1, <2>1 DEF Out
<1>3. u > t => region[u] = "before" /\ ~Late(u)
  BY <1>1, Zenon DEF Order, Turns
<1>. QED BY <1>2, <1>3, Zenon DEF Out, Committing, Late

\* parent_merge on entry gives a region the values of sequential execution.
LEMMA ViewStep ==
  ASSUME Order, Separate, Records, HeapSource, Merging, InsideView, NEW t \in Group, Step(t)
  PROVE  InsideView'
<1>. SUFFICES ASSUME NEW u \in Group, NEW k \in OrderedKeys, region'[u] = "inside", ~Wrote(u, k)'
              PROVE  heap'[u][k] = SerialValue(k, u)'
  BY Zenon DEF InsideView
<1>0. TypeOK /\ Stands /\ k \in Keys /\ u \in Nat /\ \A v \in Group : v \in Nat
  BY Positions, Zenon DEF Order, Keys
<1>1. CASE region[u] = "inside"
  <2>1. SerialValue(k, u)' = SerialValue(k, u)
    <3>1. \A v \in Group : v < u => written'[v] = written[v]
      BY <1>1, EarlierSettled, Zenon
    <3>. QED BY <3>1, SerialKept, Zenon
  <2>2. ~Wrote(u, k) /\ heap'[u][k] = heap[u][k]
    <3>1. CASE u # t
      BY <1>0, <3>1, LocalStep, Zenon DEF Untouched, Wrote
    <3>2. CASE u = t /\ \E l \in Keys : Write(t, l)
      <4>1. PICK l \in Keys : Write(t, l)
        BY <3>2, Zenon
      <4>2. PICK x : /\ heap' = [heap EXCEPT ![t][l] = x] /\ x # Initially
                     /\ written'[t].val = [written[t].val EXCEPT ![l] = x]
        BY <4>1, Zenon DEF Write, Order, TypeOK, Initially
      <4>3. written[t].val \in [Keys -> Values] /\ heap \in [Group -> [Keys -> Values]]
        BY <1>0, Zenon DEF TypeOK
      <4>. QED BY <1>0, <3>2, <4>2, <4>3, Zenon DEF Wrote
    <3>3. CASE u = t /\ heap' = heap /\ written' = written
      BY <3>3, Zenon DEF Wrote
    <3>4. ~(u = t /\ MergeCopy(t))
      BY <1>0, <1>1, Zenon DEF MergeCopy, At, Stands
    <3>. QED BY <3>1, <3>2, <3>3, <3>4, OnlyStores, OnlyWrites, Zenon
  <2>. QED BY <1>1, <2>1, <2>2, Zenon DEF InsideView
<1>2. CASE region[u] # "inside"
  <2>1. u = t /\ MergeEnd(t) /\ region[t] = "entering"
    <3>1. u = t
      BY <1>0, <1>2, LocalStep, Zenon DEF Untouched
    <3>2. MergeEnd(t)
      BY <1>0, <1>2, <3>1, Moves, Zenon
    <3>. QED BY <1>0, <1>2, <3>1, <3>2, Zenon DEF MergeEnd, TypeOK
  <2>2. pc[t] = "merge" /\ ~MoreCopies(t) /\ heap' = heap /\ written' = written
    BY <2>1, Zenon DEF MergeEnd, At, history
  <2>3. ~Wrote(t, k)
    BY <2>1, <2>2, Zenon DEF Wrote
  <2>4. \A v \in Group : Wrote(v, k) /\ v < t => Out(v)
    BY <2>1, EnterTurn, Zenon
  <2>5. \A v \in Group : Wrote(v, k) /\ (Out(v) \/ Committing(v) \/ v = t) => v < t
    BY <1>0, <2>1, <2>3, EnterTurn
  <2>6. heap[t][k] = SerialValue(k, t)
    BY <1>0, <2>1, <2>2, <2>4, <2>5, MergedIs, Zenon
  <2>7. SerialValue(k, t)' = SerialValue(k, t)
    BY <2>2, SerialKept, Zenon
  <2>. QED BY <2>1, <2>2, <2>6, <2>7, Zenon
<1>. QED BY <1>1, <1>2, Zenon

\* A read in an Ordered region stays what sequential execution gives: the tasks that
\* could change that have published.
LEMMA ReadsSerialStep ==
  ASSUME Order, Separate, InsideView, OrderedReadsSerial, NEW t \in Group, Step(t)
  PROVE  OrderedReadsSerial'
<1>. SUFFICES ASSUME NEW u \in Group, NEW o \in observed'[u], o[1] \in OrderedKeys
              PROVE  o[2] = SerialValue(o[1], u)'
  BY Zenon DEF OrderedReadsSerial
<1>. DEFINE k == o[1]
<1>1. /\ region[u] # "before" /\ o[2] = SerialValue(k, u)
  <2>1. CASE o \in observed[u]
    BY <2>1, Zenon DEF Order, Blocks, BlockOf, Separate, OrderedReadsSerial
  <2>2. CASE o \notin observed[u]
    <3>1. u = t
      BY <2>2, LocalStep, Zenon DEF Order, Untouched
    <3>2. PICK l \in Keys : Read(t, l)
      BY <2>2, OnlyReads, Zenon
    <3>3. o = <<l, heap[t][l]>> /\ ~Wrote(t, l)
      BY <2>2, <3>1, <3>2, Zenon DEF Read, Wrote, Order, TypeOK
    <3>4. region[t] = "inside" /\ l \in OrderedKeys
      BY <3>2, <3>3, Zenon DEF Read, Accessible, Separate
    <3>. QED BY <3>1, <3>3, <3>4, Zenon DEF InsideView
  <2>. QED BY <2>1, <2>2, Zenon
<1>2. \A v \in Group : v < u => written'[v] = written[v]
  BY <1>1, EarlierSettled, Zenon
<1>3. PICK l : l = k
  BY Zenon
<1>4. SerialValue(l, u)' = SerialValue(l, u)
  BY <1>2, SerialKept, Zenon
<1>. QED BY <1>1, <1>3, <1>4, Zenon

\* The last task merges when all the others have published; nothing changes after.
LEMMA MergedStep ==
  ASSUME Order, Separate, Records, HeapSource, Merging, MergedInOrder, NEW t \in Group, Step(t)
  PROVE  MergedInOrder'
<1>. DEFINE z == LastTask
<1>. SUFFICES ASSUME pc'[z] = "done", NEW k \in Keys, k \in OrderedKeys \/ ~Wrote(z, k)'
              PROVE  heap'[z][k] = SerialValue(k, 64)'
  BY LastIsGreatest, Zenon DEF MergedInOrder, WritersOf, Wrote
<1>0. /\ TypeOK /\ Stands /\ z \in Group /\ \A u \in Group : u \in Nat /\ u <= z /\ u < 64
  BY LastIsGreatest, Positions, Zenon DEF Order
<1>1. CASE pc[z] = "done"
  <2>1. z # t
    BY <1>0, <1>1, Moves, Zenon
  <2>2. Untouched(z)
    BY <1>0, <2>1, LocalStep, Zenon
  <2>3. \A u \in Group : written'[u] = written[u]
    <3>1. \A u \in Group : u < z => written'[u] = written[u]
      BY <1>0, <1>1, EarlierSettled, Zenon DEF Late
    <3>2. \A u \in Group : u < z \/ u = z
      BY <1>0
    <3>. QED BY <2>2, <3>1, <3>2, Zenon DEF Untouched
  <2>4. SerialValue(k, 64)' = SerialValue(k, 64)
    BY <2>3, SerialKept
  <2>. QED BY <1>0, <1>1, <2>2, <2>4, Zenon DEF MergedInOrder, WritersOf, Wrote, Untouched
<1>2. CASE pc[z] # "done"
  <2>1. z = t
    BY <1>0, <1>2, LocalStep, Zenon DEF Untouched
  <2>2. MergeEnd(z) /\ region[z] # "entering"
    <3>1. ~CommitEnd(z)
      BY <1>0, <2>1, Zenon DEF CommitEnd, At, Order, Ends, Committing, TypeOK
    <3>2. MergeEnd(z)
      BY <1>0, <2>1, <3>1, Moves, Zenon
    <3>. QED BY <1>0, <2>1, <3>2, Zenon DEF MergeEnd, TypeOK
  <2>3. pc[z] = "merge" /\ ~MoreCopies(z) /\ heap' = heap /\ written' = written
    BY <2>2, Zenon DEF MergeEnd, At, history
  <2>4. region[z] \in {"before", "after"}
    BY <1>0, <2>2, <2>3, Zenon DEF TypeOK, Stands, Committing
  <2>5. \A u \in Group : u < z => Out(u)
    BY <1>0, <2>3, <2>4, Zenon DEF Order, Turns, Late, Out
  <2>6. Wrote(z, k) => Out(z)
    BY <1>0, <2>3, <2>4, Zenon DEF Wrote, Out, Order, Blocks, BlockOf
  <2>7. \A u \in Group : Wrote(u, k) /\ u < 64 => Out(u)
    BY <1>0, <2>5, <2>6
  <2>8. heap[z][k] = SerialValue(k, 64)
    BY <1>0, <2>3, <2>7, MergedIs
  <2>9. SerialValue(k, 64)' = SerialValue(k, 64)
    BY <2>3, SerialKept, Zenon
  <2>. QED BY <2>3, <2>8, <2>9, Zenon
<1>. QED BY <1>1, <1>2, Zenon

-----------------------------------------------------------------------------
MInv ==
  /\ Order /\ Records /\ HeapSource /\ Merging /\ InsideView /\ OrderedReadsSerial
  /\ Checking /\ PassedClean /\ MergedInOrder

\* The copies are empty, and nobody has read, checked or merged, when the group forks.
LEMMA MInvInit == Init => MInv
<1>. SUFFICES ASSUME Init PROVE MInv
  BY Zenon
<1>1. /\ \A t \in Group : region[t] = "before" /\ pc[t] = "block" /\ observed[t] = {}
      /\ \A t \in Group, k \in Keys : heap[t][k] = Initially /\ ~Wrote(t, k)
      /\ \A i \in Copies : copy_records[i] = NoCopy
      /\ passed = {} /\ next_copy = 1
  BY Zenon DEF Init, Copies, Wrote, FirstCopy
<1>2. Claims
  BY <1>1, RecordsFromOne, Zenon DEF Claims
<1>3. Records
  BY <1>1, <1>2, Zenon DEF Records, Authentic, InOrder, Holds, Complete
<1>4. HeapSource /\ Merging /\ InsideView
  BY <1>1, Zenon DEF HeapSource, Merging, InsideView
<1>5. OrderedReadsSerial /\ Checking /\ PassedClean
  BY <1>1, Zenon DEF OrderedReadsSerial, Checking, PassedClean
<1>6. MergedInOrder
  BY <1>1, LastIsGreatest, Zenon DEF MergedInOrder
<1>. QED BY <1>3, <1>4, <1>5, <1>6, OrderInit, Zenon DEF MInv

\* A step of a task keeps the invariant.
LEMMA MInvStep ==
  ASSUME Narrow, Separate, MInv, NEW t \in Group, Step(t)
  PROVE  MInv'
<1>0. /\ Order /\ Records /\ Claims /\ Authentic /\ InOrder /\ Complete /\ HeapSource /\ Merging
      /\ InsideView /\ OrderedReadsSerial /\ Checking /\ PassedClean /\ MergedInOrder
  BY Zenon DEF MInv, Records
<1>1. Order'
  BY <1>0, OrderStep, Zenon
<1>2. Claims' /\ Authentic' /\ InOrder' /\ Complete'
  BY <1>0, ClaimsStep, AuthenticStep, InOrderStep, CompleteStep, Zenon
<1>3. HeapSource' /\ Merging'
  BY <1>0, HeapSourceStep, MergingStep, Zenon
<1>4. InsideView' /\ OrderedReadsSerial'
  BY <1>0, ViewStep, ReadsSerialStep, Zenon
<1>5. Checking' /\ PassedClean'
  BY <1>0, CheckingStep, PassedCleanStep, Zenon
<1>6. MergedInOrder'
  BY <1>0, MergedStep, Zenon
<1>. QED BY <1>1, <1>2, <1>3, <1>4, <1>5, <1>6, Zenon DEF MInv, Records

\* So does a step of something else.
LEMMA MInvStutter == MInv /\ UNCHANGED vars => MInv'
<1>. SUFFICES ASSUME MInv, UNCHANGED vars PROVE MInv'
  BY Zenon
<1>. USE DEF vars, shared, lists, control, history
<1>1. (TypeOK /\ Stands)' /\ AccessesListed'
  BY Zenon DEF MInv, Order, TypeOK, Stands, Committing, AccessesListed, FirstAccess
<1>2. Turns' /\ Ends'
  BY Zenon DEF MInv, Order, Turns, Ends, Late, Committing
<1>3. Blocks' /\ Own'
  <2>1. Blocks'
    BY SMTT(20) DEF MInv, Order, Blocks, BlockOf, Wrote, Committing, FirstAccess
  <2>2. Own'
    BY Zenon DEF MInv, Order, Own, Wrote
  <2>. QED BY <2>1, <2>2, Zenon
<1>4. Claims' /\ Authentic' /\ InOrder' /\ Complete'
  <2>1. Claims' /\ InOrder'
    BY Zenon DEF MInv, Records, Claims, InOrder, Holds
  <2>2. Authentic'
    BY Zenon DEF MInv, Records, Authentic, Out, Committing
  <2>3. Complete'
    BY Zenon DEF MInv, Records, Complete, Out, Committing, Wrote
  <2>. QED BY <2>1, <2>2, <2>3, Zenon
<1>5. HeapSource' /\ Merging'
  BY DEF MInv, HeapSource, Merging, Holds
<1>6. InsideView' /\ OrderedReadsSerial' /\ MergedInOrder'
  <2>1. ASSUME NEW k, NEW b PROVE SerialValue(k, b)' = SerialValue(k, b)
    BY SerialKept, Zenon
  <2>2. InsideView' /\ OrderedReadsSerial'
    BY <2>1, Zenon DEF MInv, InsideView, OrderedReadsSerial, Wrote
  <2>3. MergedInOrder'
    BY <2>1, Zenon DEF MInv, MergedInOrder, WritersOf
  <2>. QED BY <2>2, <2>3, Zenon
<1>7. Checking' /\ PassedClean'
  BY Zenon DEF MInv, Checking, PassedClean, Wrote
<1>. QED BY <1>1, <1>2, <1>3, <1>4, <1>5, <1>6, <1>7, Zenon DEF MInv, Order, Records

\* What the invariant says of the reads of tasks that have passed: of ordered variables
\* they are serial whoever is pending, of plain ones no pending task has written any.
LEMMA PassedReads == Separate /\ MInv => CheckFindsPending
<1>. SUFFICES ASSUME Separate, MInv, NEW t \in passed, NEW o \in observed[t],
                     pending[t] \cap WritersOf(o[1]) # {}
              PROVE  o[2] = SerialValue(o[1], t)
  BY Zenon DEF CheckFindsPending
<1>1. t \in Group /\ o[1] \in Keys
  BY DEF MInv, Order, TypeOK
<1>2. o[1] \notin PlainKeys
  BY Zenon DEF MInv, PassedClean, WritersOf, Wrote
<1>. QED BY <1>1, <1>2, Zenon DEF MInv, OrderedReadsSerial, Keys

\* The invariant holds throughout.
LEMMA MInvAlways == Narrow /\ Separate => (Spec => []MInv)
<1>. SUFFICES ASSUME Narrow, Separate PROVE Spec => []MInv
  BY Zenon
<1>1. MInv /\ [Next]_vars => MInv'
  BY MInvStep, MInvStutter, Zenon DEF Next
<1>. QED BY <1>1, MInvInit, PTL DEF Spec

\* parent_merge never meets a copy record that a task has claimed and not filled in:
\* tasks publish in turn, and none merges meanwhile.
THEOREM MergesReadFilled == Narrow /\ Separate => (Spec => []MergeReadsFilled)
<1>. SUFFICES ASSUME Narrow, Separate PROVE Spec => []MergeReadsFilled
  BY Zenon
<1>1. MInv => MergeReadsFilled
  BY FilledWhenRead, Zenon DEF MInv, Records
<1>. QED BY <1>1, MInvAlways, PTL

\* Every read in an Ordered region gets the value that running the blocks one after
\* the other gives it, whatever the tasks do meanwhile.
THEOREM OrderedRegionsSerial == Narrow /\ Separate => (Spec => []OrderedReadsSerial)
<1>. SUFFICES ASSUME Narrow, Separate PROVE Spec => []OrderedReadsSerial
  BY Zenon
<1>1. MInv => OrderedReadsSerial
  BY Zenon DEF MInv
<1>. QED BY <1>1, MInvAlways, PTL

\* rb_object_correct accepts a task only if its reads agree with the writes of the
\* tasks that have still to commit.
THEOREM ChecksFindPending == Narrow /\ Separate => (Spec => []CheckFindsPending)
<1>. SUFFICES ASSUME Narrow, Separate PROVE Spec => []CheckFindsPending
  BY Zenon
<1>1. MInv => CheckFindsPending
  BY PassedReads, Zenon
<1>. QED BY <1>1, MInvAlways, PTL

\* When task_group_commit returns, the last task holds for every variable the value
\* of its last writer, its own plain writes apart.
THEOREM GroupMergesInOrder == Narrow /\ Separate => (Spec => []MergedInOrder)
<1>. SUFFICES ASSUME Narrow, Separate PROVE Spec => []MergedInOrder
  BY Zenon
<1>1. MInv => MergedInOrder
  BY Zenon DEF MInv
<1>. QED BY <1>1, MInvAlways, PTL

\* A task that has finished has left all that it wrote in copy records, when no block
\* mixes accesses inside and outside of Ordered regions (with it: MonitorLostWrite).
THEOREM FinishedHavePublished == Narrow /\ Separate => (Spec => []WritesPublished)
<1>. SUFFICES ASSUME Narrow, Separate PROVE Spec => []WritesPublished
  BY Zenon
<1>1. MInv => WritesPublished
  <2>. SUFFICES ASSUME MInv, NEW t \in Group \ {LastTask}, pc[t] = "done", NEW k \in Keys,
                       t \in WritersOf(k)
                PROVE  \E i \in DOMAIN copy_records :
                         copy_records[i] = [key |-> k, val |-> written[t].val[k]]
    BY Zenon DEF WritesPublished
  <2>1. Out(t) /\ Wrote(t, k) /\ DOMAIN copy_records = Copies
    BY Zenon DEF Out, Wrote, WritersOf, MInv, Order, TypeOK, Copies
  <2>. QED BY <2>1, Zenon DEF MInv, Records, Complete
<1>. QED BY <1>1, MInvAlways, PTL
=============================================================================
