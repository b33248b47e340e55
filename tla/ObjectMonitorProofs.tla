------------------------ MODULE ObjectMonitorProofs ------------------------
(***************************************************************************)
(* What holds of the object monitor for any number of variables, writes    *)
(* and copy records.                                                       *)
(*                                                                         *)
(* First what the lists and access vectors hold, for groups of up to 16    *)
(* tasks (Narrow).  Then the order in which the tasks of a group pass      *)
(* their Ordered regions, their checks and their commits, and what a block *)
(* has done when it gets there, for groups whose blocks use a variable     *)
(* either in Ordered regions or outside, where a block does only one of    *)
(* the two (Separate).  The runs MonitorWideGroup, MonitorOrderedConflict  *)
(* and MonitorLostWrite show that what MonitorMergeProofs proves from it   *)
(* fails without these conditions.                                         *)
(***************************************************************************)
EXTENDS ObjectMonitor, FiniteSetTheorems, SequenceTheorems, WellFoundedInduction,
        NaturalsInduction, TLAPS

\* The spec orders whose bits do not coincide (run MonitorWideGroup).
Narrow == Group \subseteq 0 .. 15

Committing(t) == pc[t] \in {"commit", "store"}

\* Where a task that is in or about its Ordered region stands, and what it has at
\* hand when it merges or fills a copy record in.
Stands ==
  \A t \in Group :
    /\ region[t] = "entering" => pc[t] = "merge"
    /\ region[t] = "inside" => pc[t] = "block"
    /\ region[t] = "leaving" => Committing(t)
    /\ pc[t] = "merge" => index[t] >= 1
    /\ pc[t] = "store" => todo[t] # <<>> /\ index[t] >= 1

IInv == TypeOK /\ Stands /\ AccessesListed

-----------------------------------------------------------------------------
\* The bits of a mask are bits of the vector, and there is one.
LEMMA MaskBits ==
  ASSUME NEW t \in Group, NEW op \in {READ_BIT, WRITE_BIT}
  PROVE  Mask(t, op) \subseteq Bits /\ Mask(t, op) # {}
<1>1. t \in 0 .. 31 /\ op \in 0 .. 1
  BY GroupAssumption DEF READ_BIT, WRITE_BIT
<1>2. (t * 2 + op) % 32 \in 0 .. 31
  BY <1>1
<1>. DEFINE n == (t * 2 + op) % 32
<1>. HIDE DEF n
<1>3. n \in 0 .. 31 /\ Mask(t, op) = IF n = 31 THEN 31 .. 63 ELSE {n}
  BY <1>2, Zenon DEF Mask, Shift, base_bit_for, n
<1>. QED BY <1>3 DEF Bits

\* Up to 16 tasks, no two kinds of access share a bit.
LEMMA MasksDisjoint ==
  ASSUME Narrow, NEW t \in Group, NEW u \in Group,
         NEW op \in {READ_BIT, WRITE_BIT}, NEW q \in {READ_BIT, WRITE_BIT}, t # u \/ op # q
  PROVE  Mask(t, op) \cap Mask(u, q) = {}
<1>1. t \in 0 .. 15 /\ u \in 0 .. 15 /\ op \in 0 .. 1 /\ q \in 0 .. 1
  BY DEF Narrow, READ_BIT, WRITE_BIT
<1>. DEFINE n == t * 2 + op
            m == u * 2 + q
<1>2. n \in 0 .. 31 /\ m \in 0 .. 31 /\ n # m
  BY <1>1
<1>3. Mask(t, op) = Shift(n) /\ Mask(u, q) = Shift(m)
  BY Zenon DEF Mask, base_bit_for
<1>. HIDE DEF n, m
<1>4. n % 32 = n /\ m % 32 = m
  BY <1>2
<1>. QED BY <1>2, <1>3, <1>4 DEF Shift

-----------------------------------------------------------------------------
\* add_list puts a node in front.
LEMMA NodeInFront ==
  ASSUME NEW S, NEW s \in Seq(S), NEW k \in S
  PROVE  /\ <<k>> \o s \in Seq(S) /\ Len(<<k>> \o s) = Len(s) + 1
         /\ Range(<<k>> \o s) = Range(s) \cup {k}
<1>. DEFINE new == <<k>> \o s
<1>1. /\ new \in Seq(S) /\ Len(new) = Len(s) + 1
      /\ \A i \in 1 .. Len(s) + 1 : new[i] = IF i = 1 THEN k ELSE s[i - 1]
  OBVIOUS
<1>. HIDE DEF new
<1>2. Range(new) \subseteq Range(s) \cup {k}
  BY <1>1 DEF Range
<1>3. k \in Range(new)
  <2>1. 1 \in 1 .. Len(new) /\ new[1] = k
    BY <1>1
  <2>. QED BY <1>1, <2>1 DEF Range
<1>4. ASSUME NEW i \in 1 .. Len(s) PROVE s[i] \in Range(new)
  <2>1. i + 1 \in 1 .. Len(new) /\ new[i + 1] = s[i]
    BY <1>1
  <2>2. DOMAIN new = 1 .. Len(new)
    BY <1>1
  <2>. QED BY <2>1, <2>2, Zenon DEF Range
<1>5. Range(s) \subseteq Range(new)
  BY <1>4 DEF Range
<1>6. Range(new) = Range(s) \cup {k}
  BY <1>2, <1>3, <1>5, Zenon
<1>. QED BY <1>1, <1>6, Zenon DEF new

\* A list has finitely many members.
LEMMA MembersFinite ==
  ASSUME NEW S, NEW s \in Seq(S)
  PROVE  IsFiniteSet(Range(s))
<1>1. IsFiniteSet(1 .. Len(s))
  BY FS_Interval
<1>2. s \in Surjection(1 .. Len(s), Range(s))
  BY DEF Surjection, Range
<1>. QED BY <1>1, <1>2, FS_Surjection, Zenon

\* A node for a member that the list does not have leaves it without duplicates.
LEMMA NodeOnce ==
  ASSUME NEW S, NEW s \in Seq(S), NEW k \in S, NoDuplicates(s), k \notin Range(s)
  PROVE  NoDuplicates(<<k>> \o s)
<1>1. Cardinality(Range(s) \cup {k}) = Cardinality(Range(s)) + 1
  BY MembersFinite, FS_AddElement, Zenon
<1>2. Cardinality(Range(<<k>> \o s)) = Cardinality(Range(s)) + 1 /\ Len(<<k>> \o s) = Len(s) + 1
  BY <1>1, NodeInFront, Zenon
<1>. QED BY <1>2, Zenon DEF NoDuplicates

-----------------------------------------------------------------------------
\* A list of nodes for each task.
Nodes(l) == l \in [Group -> Seq(Keys)]

\* add_list makes a list of records from one.
LEMMA AddListType ==
  ASSUME NEW l, Nodes(l), NEW t \in Group, NEW k \in Keys, NEW isNew
  PROVE  Nodes(AddList(l, t, k, isNew))
<1>1. <<k>> \o l[t] \in Seq(Keys)
  BY NodeInFront, Zenon DEF Nodes
<1>. QED BY <1>1, Zenon DEF AddList, Nodes

\* The lists of a task that merges or commits become empty.
LEMMA FreeAllListsType ==
  ASSUME TypeOK, NEW t \in Group, FreeAllLists(t)
  PROVE  Nodes(write_list)' /\ Nodes(read_list)' /\ Nodes(ordered_writes)'
BY DEF TypeOK, FreeAllLists, Nodes

\* Every port and hook keeps the types.
LEMMA TypeStep ==
  ASSUME TypeOK, Stands, NEW t \in Group, Step(t)
  PROVE  TypeOK'
<1>0. /\ Nodes(write_list) /\ Nodes(read_list) /\ Nodes(ordered_writes) /\ Nodes(todo)
      /\ MAX_COPYS \in Nat /\ MaxWrites \in Nat
  BY GroupAssumption, Zenon DEF TypeOK, Nodes
<1>1. ASSUME NEW k \in Keys, Read(t, k) PROVE TypeOK'
  <2>1. /\ Nodes(read_list') /\ vector' \in [Keys -> SUBSET Bits]
        /\ UNCHANGED <<copy_records, next_copy, heap, write_list, ordered_writes, region, pc,
                       todo, index, passed, aborted, written, pending>>
    BY <1>0, <1>1, AddListType, MaskBits, Zenon DEF Read, TypeOK, control
  <2>2. observed' \in [Group -> SUBSET (Keys \X Values)]
    BY <1>1 DEF Read, TypeOK
  <2>. QED BY <2>1, <2>2, Zenon DEF TypeOK, Nodes
<1>2. ASSUME NEW k \in Keys, Write(t, k) PROVE TypeOK'
  <2>. DEFINE v == <<t, written[t].count + 1>>
  <2>1. /\ Nodes(write_list') /\ Nodes(ordered_writes') /\ vector' \in [Keys -> SUBSET Bits]
        /\ UNCHANGED <<copy_records, next_copy, read_list, region, pc, todo, index, passed,
                       aborted, observed, pending>>
    BY <1>0, <1>2, AddListType, MaskBits, Zenon DEF Write, TypeOK, control
  <2>2. written[t].count + 1 \in 1 .. MaxWrites
    BY <1>0, <1>2 DEF Write, TypeOK
  <2>3. v \in Values
    BY <2>2, Zenon DEF Values
  <2>. HIDE DEF v
  <2>4. heap' \in [Group -> [Keys -> Values]]
    BY <1>2, <2>3, Zenon DEF Write, TypeOK, v
  <2>5. written' \in [Group -> [count : 0 .. MaxWrites, val : [Keys -> Values]]]
    <3>1. written' = [written EXCEPT ![t] = [count |-> written[t].count + 1,
                                             val |-> [written[t].val EXCEPT ![k] = v]]]
      BY <1>2, Zenon DEF Write, TypeOK, v
    <3>2. [written[t].val EXCEPT ![k] = v] \in [Keys -> Values]
      BY <2>3, Zenon DEF TypeOK
    <3>. QED BY <1>0, <2>2, <3>1, <3>2 DEF TypeOK
  <2>. QED BY <2>1, <2>4, <2>5, Zenon DEF TypeOK, Nodes
<1>3. EnterOrdered(t) => TypeOK'
  BY DEF EnterOrdered, TypeOK, shared, lists, history
<1>4. LeaveOrdered(t) => TypeOK'
  <2>1. write_list[t] \o ordered_writes[t] \in Seq(Keys)
    BY <1>0 DEF Nodes
  <2>. QED BY <2>1 DEF LeaveOrdered, TypeOK, shared, lists, history
<1>5. ASSUME MergeCopy(t) PROVE TypeOK'
  <2>1. index[t] \in 1 .. MAX_COPYS - 1
    BY <1>0, <1>5 DEF MergeCopy, MoreCopies, At, Stands, TypeOK
  <2>2. copy_records[index[t]] \in [key : Keys, val : Values] \cup {NoCopy}
    BY <2>1, Zenon DEF TypeOK
  <2>3. heap' \in [Group -> [Keys -> Values]]
    BY <1>5, <2>2, Zenon DEF MergeCopy, TypeOK
  <2>4. index' \in [Group -> Nat] /\ aborted' \in BOOLEAN
    BY <1>5 DEF MergeCopy, TypeOK
  <2>. QED BY <1>5, <2>3, <2>4, Zenon DEF MergeCopy, TypeOK, shared, lists, history
<1>6. ASSUME MergeEnd(t) PROVE TypeOK'
  <2>1. Nodes(write_list)' /\ Nodes(read_list)' /\ Nodes(ordered_writes)'
    BY <1>6, FreeAllListsType, Zenon DEF MergeEnd
  <2>. QED BY <1>6, <2>1, Zenon DEF MergeEnd, TypeOK, Nodes, shared, history
<1>7. CommitClaim(t) => TypeOK'
  BY DEF CommitClaim, TypeOK, lists, history
<1>8. ASSUME CommitStore(t) PROVE TypeOK'
  <2>1. todo[t] \in Seq(Keys) /\ todo[t] # <<>>
    BY <1>0, <1>8, Zenon DEF CommitStore, At, Stands, Nodes
  <2>2. Head(todo[t]) \in Keys /\ Tail(todo[t]) \in Seq(Keys)
    BY <2>1
  <2>3. copy_records' \in [1 .. MAX_COPYS - 1 -> [key : Keys, val : Values] \cup {NoCopy}]
    <3>. DEFINE r == [key |-> Head(todo[t]), val |-> heap[t][Head(todo[t])]]
    <3>1. r \in [key : Keys, val : Values]
      BY <2>2 DEF TypeOK
    <3>2. copy_records' = [copy_records EXCEPT ![index[t]] = r]
      BY <1>8, Zenon DEF CommitStore
    <3>. HIDE DEF r
    <3>. QED BY <3>1, <3>2, Zenon DEF TypeOK
  <2>4. vector' \in [Keys -> SUBSET Bits]
    BY <1>8, <2>2, Zenon DEF CommitStore, TypeOK
  <2>. QED BY <1>8, <2>2, <2>3, <2>4 DEF CommitStore, TypeOK, lists, history
<1>9. ASSUME CommitEnd(t) PROVE TypeOK'
  <2>1. Nodes(write_list)' /\ Nodes(read_list)' /\ Nodes(ordered_writes)'
    BY <1>9, FreeAllListsType, Zenon DEF CommitEnd
  <2>. QED BY <1>9, <2>1, Zenon DEF CommitEnd, TypeOK, Nodes, shared, history
<1>10. EndBlock(t) => TypeOK'
  BY DEF EndBlock, TypeOK, shared, lists, history
<1>11. BeginCheck(t) => TypeOK'
  BY DEF BeginCheck, TypeOK, shared, lists, history
<1>12. ASSUME CheckNode(t) PROVE TypeOK'
  <2>1. aborted' \in BOOLEAN
    BY <1>12, Zenon DEF CheckNode, Conflict
  <2>2. Nodes(todo')
    BY <1>0, <1>12 DEF CheckNode, Nodes
  <2>. QED BY <1>12, <2>1, <2>2 DEF CheckNode, TypeOK, Nodes, shared, lists, history
<1>13. PassCheck(t) => TypeOK'
  BY DEF PassCheck, TypeOK, shared, lists
<1>14. DataCommit(t) => TypeOK'
  <2>1. write_list[t] \o ordered_writes[t] \in Seq(Keys)
    BY <1>0 DEF Nodes
  <2>. QED BY <2>1 DEF DataCommit, TypeOK, shared, lists, history
<1>15. GroupCommit(t) => TypeOK'
  BY DEF GroupCommit, TypeOK, shared, lists, history
<1>. QED BY <1>1, <1>2, <1>3, <1>4, <1>5, <1>6, <1>7, <1>8, <1>9, <1>10, <1>11, <1>12, <1>13,
            <1>14, <1>15, Zenon DEF Step

\* Every port and hook leaves its task where Stands says.
LEMMA StandsStep ==
  ASSUME TypeOK, Stands, NEW t \in Group, Step(t)
  PROVE  Stands'
<1>. USE DEF TypeOK, Stands, Committing, At
<1>1. \A k \in Keys : Read(t, k) \/ Write(t, k) => Stands'
  BY Zenon DEF Read, Write, control
<1>2. EnterOrdered(t) \/ LeaveOrdered(t) => Stands'
  BY DEF EnterOrdered, LeaveOrdered
<1>3. MergeCopy(t) => Stands'
  BY DEF MergeCopy
<1>7. MergeEnd(t) => Stands'
  BY DEF MergeEnd
<1>4. CommitClaim(t) \/ CommitStore(t) \/ CommitEnd(t) => Stands'
  BY SMTT(20) DEF CommitClaim, CommitStore, CommitEnd
<1>5. EndBlock(t) \/ BeginCheck(t) \/ CheckNode(t) \/ PassCheck(t) => Stands'
  BY DEF EndBlock, BeginCheck, CheckNode, PassCheck
<1>6. DataCommit(t) \/ GroupCommit(t) => Stands'
  BY DEF DataCommit, GroupCommit
<1>. QED BY <1>1, <1>2, <1>3, <1>4, <1>5, <1>6, <1>7, Zenon DEF Step

-----------------------------------------------------------------------------
\* Past its check and past the point where the next task may commit.
Late(t) ==
  \/ pc[t] = "done"
  \/ pc[t] \in {"commit", "store", "merge"} /\ region[t] \in {"before", "after"}

\* Tasks pass their Ordered regions, their checks and their commits in turn.
Turns ==
  \A t, u \in Group : u < t =>
    /\ region[t] # "before" => region[u] = "after" \/ pc[u] = "done"
    /\ Late(t) => pc[u] = "done"
    /\ t \in passed \/ pc[t] = "check" => u \in passed

\* All commit but the last one, which merges.
Ends ==
  \A t \in Group :
    /\ t \in passed <=> pc[t] = "passed" \/ Late(t)
    /\ Committing(t) /\ region[t] # "leaving" => t # LastTask
    /\ pc[t] = "merge" /\ region[t] # "entering" => t = LastTask

\* Each port leaves the tasks in turn.
LEMMA TurnsStep ==
  ASSUME TypeOK, Stands, Turns, Ends, NEW t \in Group, Step(t)
  PROVE  Turns' /\ Ends'
<1>0. /\ \A u \in Group : u \in Nat
      /\ DOMAIN pc = Group /\ DOMAIN region = Group /\ passed \subseteq Group
      /\ region[t] \in {"before", "entering", "inside", "leaving", "after"}
  <2>1. \A u \in Group : u \in Nat
    BY GroupAssumption
  <2>2. /\ DOMAIN pc = Group /\ DOMAIN region = Group /\ passed \subseteq Group
        /\ region[t] \in {"before", "entering", "inside", "leaving", "after"}
    BY Zenon DEF TypeOK
  <2>. QED BY <2>1, <2>2, Zenon
<1>. USE <1>0 DEF Stands, Turns, Ends, Late, Committing, At
<1>1. \A k \in Keys : Read(t, k) \/ Write(t, k) => Turns' /\ Ends'
  BY DEF Read, Write, control
<1>2. EnterOrdered(t) => Turns' /\ Ends'
  BY DEF EnterOrdered
<1>10. LeaveOrdered(t) => Turns' /\ Ends'
  BY DEF LeaveOrdered
<1>3. MergeCopy(t) => Turns' /\ Ends'
  BY DEF MergeCopy
<1>4. MergeEnd(t) => Turns' /\ Ends'
  BY DEF MergeEnd
<1>5. CommitClaim(t) \/ CommitStore(t) => Turns' /\ Ends'
  BY DEF CommitClaim, CommitStore
<1>6. CommitEnd(t) => Turns' /\ Ends'
  BY DEF CommitEnd
<1>7. EndBlock(t) \/ CheckNode(t) => Turns' /\ Ends'
  BY DEF EndBlock, CheckNode
<1>8. BeginCheck(t) \/ PassCheck(t) => Turns' /\ Ends'
  BY DEF BeginCheck, PassCheck
<1>9. DataCommit(t) => Turns' /\ Ends'
  BY DEF DataCommit
<1>11. GroupCommit(t) => Turns' /\ Ends'
  BY DEF GroupCommit
<1>. QED BY <1>1, <1>2, <1>3, <1>4, <1>5, <1>6, <1>7, <1>8, <1>9, <1>10, <1>11, Zenon DEF Step

-----------------------------------------------------------------------------
\* A process changes nothing that belongs to another.
Untouched(u) ==
  /\ region'[u] = region[u] /\ pc'[u] = pc[u] /\ todo'[u] = todo[u] /\ index'[u] = index[u]
  /\ write_list'[u] = write_list[u] /\ read_list'[u] = read_list[u]
  /\ ordered_writes'[u] = ordered_writes[u] /\ heap'[u] = heap[u]
  /\ observed'[u] = observed[u] /\ written'[u] = written[u] /\ pending'[u] = pending[u]
  /\ u \in passed' <=> u \in passed

\* The lists, the heap and the histories are those of one process.
LEMMA LocalStep ==
  ASSUME TypeOK, NEW t \in Group, Step(t), NEW u \in Group, u # t
  PROVE  Untouched(u)
<1>. USE DEF Untouched, shared, lists, history, control
<1>1. ASSUME NEW k \in Keys, Read(t, k) PROVE Untouched(u)
  BY <1>1, Zenon DEF TypeOK, Read, AddList
<1>2. ASSUME NEW k \in Keys, Write(t, k) PROVE Untouched(u)
  BY <1>2, Zenon DEF TypeOK, Write, AddList
<1>3. EnterOrdered(t) \/ LeaveOrdered(t) => Untouched(u)
  BY DEF TypeOK, EnterOrdered, LeaveOrdered
<1>4. MergeCopy(t) => Untouched(u)
  BY Zenon DEF TypeOK, MergeCopy
<1>5. MergeEnd(t) \/ CommitEnd(t) => Untouched(u)
  BY DEF TypeOK, MergeEnd, CommitEnd, FreeAllLists
<1>6. CommitClaim(t) \/ CommitStore(t) => Untouched(u)
  BY DEF TypeOK, CommitClaim, CommitStore
<1>7. EndBlock(t) \/ BeginCheck(t) \/ CheckNode(t) \/ PassCheck(t) => Untouched(u)
  BY Zenon DEF TypeOK, EndBlock, BeginCheck, CheckNode, PassCheck
<1>8. DataCommit(t) \/ GroupCommit(t) => Untouched(u)
  BY Zenon DEF TypeOK, DataCommit, GroupCommit
<1>. QED BY <1>1, <1>2, <1>3, <1>4, <1>5, <1>6, <1>7, <1>8, Zenon DEF Step

\* Where the steps of a task start and where they lead.
LEMMA Moves ==
  ASSUME TypeOK, NEW t \in Group, Step(t)
  PROVE  /\ pc[t] # "done" /\ ~aborted
         /\ pc'[t] = "done" => MergeEnd(t) \/ CommitEnd(t)
         /\ pc'[t] = "merge" => EnterOrdered(t) \/ MergeCopy(t) \/ GroupCommit(t)
         /\ pc'[t] = "check" => BeginCheck(t) \/ CheckNode(t)
         /\ pc'[t] = "passed" => PassCheck(t)
         /\ region'[t] = "inside" => region[t] = "inside" \/ MergeEnd(t)
<1>. DEFINE From == pc[t] # "done" /\ ~aborted
            P == /\ From
                 /\ pc'[t] = "done" => MergeEnd(t) \/ CommitEnd(t)
                 /\ pc'[t] = "merge" => EnterOrdered(t) \/ MergeCopy(t) \/ GroupCommit(t)
                 /\ pc'[t] = "check" => BeginCheck(t) \/ CheckNode(t)
                 /\ pc'[t] = "passed" => PassCheck(t)
                 /\ region'[t] = "inside" => region[t] = "inside" \/ MergeEnd(t)
<1>0. DOMAIN pc = Group /\ DOMAIN region = Group
  BY Zenon DEF TypeOK
<1>1. ASSUME NEW k \in Keys, Read(t, k) \/ Write(t, k) PROVE P
  <2>1. At(t, "block") /\ pc' = pc /\ region' = region
    BY <1>1, Zenon DEF Read, Write, Accessible, control
  <2>. QED BY <2>1, Zenon DEF At
<1>2. EnterOrdered(t) \/ LeaveOrdered(t) => P
  BY <1>0, Zenon DEF EnterOrdered, LeaveOrdered, At
<1>3. MergeCopy(t) \/ CheckNode(t) => P
  BY Zenon DEF MergeCopy, CheckNode, At
<1>4. MergeEnd(t) => P
  BY <1>0, Zenon DEF MergeEnd, At
<1>5. CommitClaim(t) \/ CommitStore(t) => P
  BY <1>0, Zenon DEF CommitClaim, CommitStore, At
<1>6. CommitEnd(t) => P
  BY <1>0, Zenon DEF CommitEnd, At
<1>7. EndBlock(t) \/ BeginCheck(t) \/ PassCheck(t) => P
  BY <1>0, Zenon DEF EndBlock, BeginCheck, PassCheck, At
<1>8. DataCommit(t) \/ GroupCommit(t) => P
  BY <1>0, Zenon DEF DataCommit, GroupCommit, At
<1>9. P
  <2>. HIDE DEF P
  <2>. QED BY <1>1, <1>2, <1>3, <1>4, <1>5, <1>6, <1>7, <1>8, Zenon DEF Step
<1>. QED BY <1>9, Zenon

\* Only vm_setivar writes.
LEMMA OnlyWrites ==
  ASSUME NEW t \in Group, Step(t)
  PROVE  written' = written \/ \E k \in Keys : Write(t, k)
BY Zenon DEF Step, Read, EnterOrdered, LeaveOrdered, MergeCopy, MergeEnd, CommitClaim, CommitStore,
       CommitEnd, EndBlock, BeginCheck, CheckNode, PassCheck, DataCommit, GroupCommit, history

\* Only vm_getivar observes.
LEMMA OnlyReads ==
  ASSUME NEW t \in Group, Step(t)
  PROVE  observed' = observed \/ \E k \in Keys : Read(t, k)
<1>1. CASE EnterOrdered(t) \/ LeaveOrdered(t) \/ MergeCopy(t) \/ MergeEnd(t) \/ \E k \in Keys : Write(t, k)
  BY <1>1, Zenon DEF EnterOrdered, LeaveOrdered, MergeCopy, MergeEnd, Write, history
<1>2. CASE CommitClaim(t) \/ CommitStore(t) \/ CommitEnd(t) \/ EndBlock(t)
  BY <1>2, Zenon DEF CommitClaim, CommitStore, CommitEnd, EndBlock, history
<1>3. CASE BeginCheck(t) \/ CheckNode(t) \/ PassCheck(t) \/ DataCommit(t) \/ GroupCommit(t)
  BY <1>3, Zenon DEF BeginCheck, CheckNode, PassCheck, DataCommit, GroupCommit, history
<1>. QED BY <1>1, <1>2, <1>3, Zenon DEF Step

\* The bits of a vector that are not the task's own stay as they are.
LEMMA OthersBits ==
  ASSUME TypeOK, Stands, Narrow, NEW t \in Group, Step(t), NEW u \in Group, u # t,
         NEW k \in Keys, NEW op \in {READ_BIT, WRITE_BIT}
  PROVE  FirstAccess(u, k, op)' <=> FirstAccess(u, k, op)
<1>. DEFINE M == Mask(t, READ_BIT) \cup Mask(t, WRITE_BIT)
<1>1. vector'[k] \subseteq vector[k] \cup M /\ vector[k] \subseteq vector'[k] \cup M
  <2>1. CASE \E l \in Keys : Read(t, l) \/ Write(t, l)
    <3>1. PICK l \in Keys, op1 \in {READ_BIT, WRITE_BIT} :
            vector' = [vector EXCEPT ![l] = @ \cup Mask(t, op1)]
      BY <2>1, Zenon DEF Read, Write
    <3>2. Mask(t, op1) \subseteq M
      BY <3>1, Zenon
    <3>. QED BY <3>1, <3>2, Zenon DEF TypeOK
  <2>2. CASE CommitStore(t)
    <3>1. vector' = [vector EXCEPT ![Head(todo[t])] = @ \ M]
      BY <2>2, Zenon DEF CommitStore
    <3>. QED BY <3>1, Zenon DEF TypeOK
  <2>3. CASE UNCHANGED vector
    BY <2>3, Zenon
  <2>4. \/ \E l \in Keys : Read(t, l) \/ Write(t, l)
        \/ CommitStore(t)
        \/ UNCHANGED vector
    BY Zenon DEF Step, EnterOrdered, LeaveOrdered, MergeCopy, MergeEnd, CommitClaim, CommitEnd, EndBlock,
           BeginCheck, CheckNode, PassCheck, DataCommit, GroupCommit, shared
  <2>. QED BY <2>1, <2>2, <2>3, <2>4, Zenon
<1>2. Mask(u, op) \cap M = {}
  BY MasksDisjoint, Zenon DEF READ_BIT, WRITE_BIT
<1>. HIDE DEF M
<1>. QED BY <1>1, <1>2, Zenon DEF FirstAccess

\* What AccessesListed says of one task.
ListedOf(t) ==
  /\ NoDuplicates(write_list[t]) /\ NoDuplicates(read_list[t])
  /\ Range(write_list[t]) = {k \in Keys : written[t].val[k] # Initially}
  /\ Range(write_list[t]) = {k \in Keys : ~FirstAccess(t, k, WRITE_BIT)}
  /\ Range(read_list[t]) = {k \in Keys : ~FirstAccess(t, k, READ_BIT)}
  /\ {o[1] : o \in observed[t]} \subseteq Range(read_list[t])

Listing(t) == region[t] = "before" /\ pc[t] \in {"block", "ended", "check", "passed"}

\* A first read puts the record in the list and sets the bit; a later one does neither.
LEMMA ReadListed ==
  ASSUME TypeOK, Narrow, NEW t \in Group, ListedOf(t), NEW k \in Keys, Read(t, k)
  PROVE  ListedOf(t)'
<1>. DEFINE s == read_list[t]
<1>1. /\ vector' = [vector EXCEPT ![k] = @ \cup Mask(t, READ_BIT)]
      /\ UNCHANGED <<write_list, written>>
      /\ read_list'[t] = IF FirstAccess(t, k, READ_BIT) THEN <<k>> \o s ELSE s
      /\ s \in Seq(Keys)
  BY Zenon DEF Read, AddList, TypeOK
<1>2. Mask(t, READ_BIT) # {} /\ Mask(t, READ_BIT) \cap Mask(t, WRITE_BIT) = {}
  BY MaskBits, MasksDisjoint DEF READ_BIT, WRITE_BIT
<1>3. /\ {l \in Keys : ~FirstAccess(t, l, WRITE_BIT)'} = {l \in Keys : ~FirstAccess(t, l, WRITE_BIT)}
      /\ {l \in Keys : ~FirstAccess(t, l, READ_BIT)'} =
           {l \in Keys : ~FirstAccess(t, l, READ_BIT)} \cup {k}
  BY <1>1, <1>2 DEF FirstAccess, TypeOK
<1>4. /\ read_list'[t] \in Seq(Keys) /\ NoDuplicates(read_list'[t])
      /\ Range(read_list'[t]) = Range(s) \cup {k}
  <2>1. CASE FirstAccess(t, k, READ_BIT)
    BY <1>1, <2>1, NodeInFront, NodeOnce DEF ListedOf
  <2>2. CASE ~FirstAccess(t, k, READ_BIT)
    BY <1>1, <2>2, Zenon DEF ListedOf
  <2>. QED BY <2>1, <2>2, Zenon
<1>5. {o[1] : o \in observed'[t]} \subseteq {o[1] : o \in observed[t]} \cup {k}
  BY DEF Read, TypeOK
<1>. QED BY <1>1, <1>3, <1>4, <1>5, Zenon DEF ListedOf

\* So does a write outside Ordered regions.
LEMMA WriteListed ==
  ASSUME TypeOK, Narrow, NEW t \in Group, ListedOf(t), NEW k \in Keys, Write(t, k),
         region[t] # "inside"
  PROVE  ListedOf(t)'
<1>. DEFINE s == write_list[t]
<1>1. /\ vector' = [vector EXCEPT ![k] = @ \cup Mask(t, WRITE_BIT)]
      /\ UNCHANGED <<read_list, observed>>
      /\ write_list'[t] = IF FirstAccess(t, k, WRITE_BIT) THEN <<k>> \o s ELSE s
      /\ s \in Seq(Keys)
  BY Zenon DEF Write, AddList, TypeOK
<1>2. Mask(t, WRITE_BIT) # {} /\ Mask(t, READ_BIT) \cap Mask(t, WRITE_BIT) = {}
  BY MaskBits, MasksDisjoint DEF READ_BIT, WRITE_BIT
<1>3. /\ {l \in Keys : ~FirstAccess(t, l, READ_BIT)'} = {l \in Keys : ~FirstAccess(t, l, READ_BIT)}
      /\ {l \in Keys : ~FirstAccess(t, l, WRITE_BIT)'} =
           {l \in Keys : ~FirstAccess(t, l, WRITE_BIT)} \cup {k}
  BY <1>1, <1>2 DEF FirstAccess, TypeOK
<1>4. /\ write_list'[t] \in Seq(Keys) /\ NoDuplicates(write_list'[t])
      /\ Range(write_list'[t]) = Range(s) \cup {k}
  <2>1. CASE FirstAccess(t, k, WRITE_BIT)
    BY <1>1, <2>1, NodeInFront, NodeOnce DEF ListedOf
  <2>2. CASE ~FirstAccess(t, k, WRITE_BIT)
    BY <1>1, <2>2, Zenon DEF ListedOf
  <2>. QED BY <2>1, <2>2, Zenon
<1>5. \A l \in Keys : written'[t].val[l] = IF l = k THEN <<t, written[t].count + 1>> ELSE written[t].val[l]
  BY Zenon DEF Write, TypeOK
<1>6. {l \in Keys : written'[t].val[l] # Initially} = {l \in Keys : written[t].val[l] # Initially} \cup {k}
  BY <1>5 DEF Initially
<1>. QED BY <1>1, <1>3, <1>4, <1>6, Zenon DEF ListedOf

\* Nothing else that a task does before its first merge or commit concerns them.
LEMMA ListedStep ==
  ASSUME IInv, Narrow, NEW t \in Group, Step(t)
  PROVE  AccessesListed'
<1>0. TypeOK /\ Stands /\ \A u \in Group : Listing(u) => ListedOf(u)
  BY Zenon DEF IInv, AccessesListed, Listing, ListedOf
<1>. SUFFICES ASSUME NEW u \in Group, Listing(u)' PROVE ListedOf(u)'
  BY Zenon DEF AccessesListed, Listing, ListedOf
<1>1. CASE u # t
  <2>1. Untouched(u)
    BY <1>0, <1>1, LocalStep, Zenon
  <2>2. Listing(u)
    BY <2>1, Zenon DEF Listing, Untouched
  <2>3. /\ {k \in Keys : ~FirstAccess(u, k, WRITE_BIT)'} = {k \in Keys : ~FirstAccess(u, k, WRITE_BIT)}
        /\ {k \in Keys : ~FirstAccess(u, k, READ_BIT)'} = {k \in Keys : ~FirstAccess(u, k, READ_BIT)}
    BY <1>0, <1>1, OthersBits, Zenon
  <2>4. ListedOf(u)
    BY <1>0, <2>2, Zenon
  <2>5. /\ write_list'[u] = write_list[u] /\ read_list'[u] = read_list[u]
        /\ observed'[u] = observed[u] /\ written'[u] = written[u]
    BY <2>1, Zenon DEF Untouched
  <2>. QED BY <2>3, <2>4, <2>5, Zenon DEF ListedOf
<1>2. CASE u = t
  <2>1. ASSUME NEW k \in Keys, Read(t, k) PROVE ListedOf(t)'
    <3>1. Listing(t)
      BY <1>2, <2>1, Zenon DEF Read, control, Listing
    <3>. QED BY <1>0, <2>1, <3>1, ReadListed, Zenon
  <2>2. ASSUME NEW k \in Keys, Write(t, k) PROVE ListedOf(t)'
    <3>1. Listing(t)
      BY <1>2, <2>2, Zenon DEF Write, control, Listing
    <3>. QED BY <1>0, <2>2, <3>1, WriteListed, Zenon DEF Listing
  <2>3. ASSUME EndBlock(t) \/ BeginCheck(t) \/ CheckNode(t) \/ PassCheck(t) PROVE ListedOf(t)'
    <3>1. UNCHANGED <<vector, write_list, read_list, observed, written, region>>
      BY <2>3, Zenon DEF EndBlock, BeginCheck, CheckNode, PassCheck, shared, lists, history
    <3>2. Listing(t)
      BY <1>2, <2>3, <3>1, Zenon DEF EndBlock, BeginCheck, CheckNode, PassCheck, At, Listing
    <3>. QED BY <1>0, <3>1, <3>2, Zenon DEF ListedOf, FirstAccess
  <2>4. EnterOrdered(t) \/ LeaveOrdered(t) \/ MergeCopy(t) \/ DataCommit(t) \/ GroupCommit(t) => ~Listing(t)'
    BY <1>0, Zenon DEF EnterOrdered, LeaveOrdered, MergeCopy, DataCommit, GroupCommit, At, Listing, TypeOK
  <2>5. MergeEnd(t) \/ CommitClaim(t) \/ CommitStore(t) \/ CommitEnd(t) => ~Listing(t)'
    BY <1>0 DEF MergeEnd, CommitClaim, CommitStore, CommitEnd, At, Listing, TypeOK
  <2>. QED BY <1>2, <2>1, <2>2, <2>3, <2>4, <2>5, Zenon DEF Step
<1>. QED BY <1>1, <1>2, Zenon

-----------------------------------------------------------------------------
\* The group begins with empty lists, clear vectors and no copies.
LEMMA InitInv == Init => IInv
<1>. SUFFICES ASSUME Init PROVE IInv
  BY Zenon
<1>1. TypeOK
  <2>1. Initially \in Values
    BY Zenon DEF Values
  <2>2. /\ \A l \in {write_list, read_list, ordered_writes, todo} : l \in [Group -> Seq(Keys)]
        /\ vector \in [Keys -> SUBSET Bits]
        /\ copy_records \in [1 .. MAX_COPYS - 1 -> [key : Keys, val : Values] \cup {NoCopy}]
    BY DEF Init
  <2>3. /\ written \in [Group -> [count : 0 .. MaxWrites, val : [Keys -> Values]]]
        /\ heap \in [Group -> [Keys -> Values]]
    BY <2>1, GroupAssumption DEF Init
  <2>4. /\ next_copy \in Nat \ {0} /\ index \in [Group -> Nat]
        /\ passed \subseteq Group
    BY DEF Init, FirstCopy
  <2>7. aborted \in BOOLEAN /\ pending \in [Group -> SUBSET Group]
    BY Zenon DEF Init
  <2>6. observed \in [Group -> SUBSET (Keys \X Values)]
    <3>1. {} \in SUBSET (Keys \X Values)
      BY Zenon
    <3>. QED BY <3>1, Zenon DEF Init
  <2>5. /\ region \in [Group -> {"before", "entering", "inside", "leaving", "after"}]
        /\ pc \in [Group -> {"block", "ended", "check", "passed", "commit", "store", "merge", "done"}]
    BY Zenon DEF Init
  <2>. QED BY <2>2, <2>3, <2>4, <2>5, <2>6, <2>7, Zenon DEF TypeOK
<1>2. Stands
  BY Zenon DEF Init, Stands
<1>3. AccessesListed
  <2>1. Range(<<>>) = {} /\ NoDuplicates(<<>>)
    BY FS_EmptySet DEF Range, NoDuplicates
  <2>. QED BY <2>1, Zenon DEF Init, AccessesListed, FirstAccess
<1>. QED BY <1>1, <1>2, <1>3, Zenon DEF IInv

\* Every step of the group keeps types and places.
LEMMA PlacesKept == TypeOK /\ Stands /\ [Next]_vars => (TypeOK /\ Stands)'
<1>. SUFFICES ASSUME TypeOK, Stands, [Next]_vars PROVE (TypeOK /\ Stands)'
  BY Zenon
<1>1. ASSUME NEW t \in Group, Step(t) PROVE (TypeOK /\ Stands)'
  BY <1>1, TypeStep, StandsStep, Zenon
<1>2. CASE UNCHANGED vars
  BY <1>2, Zenon DEF vars, shared, lists, control, history, TypeOK, Stands, Committing
<1>. QED BY <1>1, <1>2, Zenon DEF Next

\* The variables of the monitor keep their types, in groups of any size: a task that
\* fills a copy record in has a list node and a claimed record at hand.
THEOREM TypeCorrect == Spec => []TypeOK
<1>1. Init => TypeOK /\ Stands
  BY InitInv, Zenon DEF IInv
<1>. QED BY <1>1, PlacesKept, PTL DEF Spec

\* In groups of up to 16 tasks the invariant is kept by every step.
LEMMA StepInv == Narrow /\ IInv /\ [Next]_vars => IInv'
<1>. SUFFICES ASSUME Narrow, IInv, [Next]_vars PROVE IInv'
  BY Zenon
<1>1. (TypeOK /\ Stands)'
  BY PlacesKept, Zenon DEF IInv
<1>2. ASSUME NEW t \in Group, Step(t) PROVE AccessesListed'
  BY <1>2, ListedStep, Zenon
<1>3. CASE UNCHANGED vars
  BY <1>1, <1>3, Zenon DEF vars, shared, lists, control, history, IInv, AccessesListed, FirstAccess
<1>. QED BY <1>1, <1>2, <1>3, Zenon DEF Next, IInv

\* In groups of up to 16 tasks, the lists that the check and the commit walk hold
\* exactly the records whose bits the task has set, each once.
THEOREM ListsMissNothing == Narrow => (Spec => []AccessesListed)
<1>. SUFFICES ASSUME Narrow PROVE Spec => []AccessesListed
  BY Zenon
<1>1. IInv /\ [Next]_vars => IInv'
  BY StepInv, Zenon
<1>2. IInv => AccessesListed
  BY Zenon DEF IInv
<1>. QED BY <1>1, <1>2, InitInv, PTL DEF Spec

-----------------------------------------------------------------------------
\* Some tasks have a last one.
LEMMA LatestExists ==
  ASSUME NEW T \in SUBSET Group, T # {}
  PROVE  Latest(T) \in T /\ \A t \in T : t <= Latest(T)
<1>. DEFINE D == {31 - t : t \in T}
<1>1. D \subseteq Nat /\ D # {}
  <2>1. \A t \in T : t \in 0 .. 31
    BY GroupAssumption, Zenon
  <2>2. \A t \in T : 31 - t \in Nat
    BY <2>1
  <2>. QED BY <2>2, Zenon
<1>2. PICK x \in D : \A y \in D : ~(<<y, x>> \in OpToRel(<, Nat))
  BY <1>1, WFMin, NatLessThanWellFounded, Zenon
<1>3. \A y \in D : ~(y < x)
  BY <1>1, <1>2, Zenon DEF OpToRel
<1>4. PICK m \in T : x = 31 - m
  BY <1>2, Zenon
<1>5. \A t \in T : t <= m
  <2>. TAKE t \in T
  <2>1. 31 - t \in D
    BY Zenon
  <2>2. ~(31 - t < 31 - m)
    BY <1>3, <1>4, <2>1, Zenon
  <2>3. t \in 0 .. 31 /\ m \in 0 .. 31
    BY GroupAssumption, Zenon
  <2>. QED BY <2>2, <2>3
<1>. QED BY <1>4, <1>5, Zenon DEF Latest

\* The last task of the group is the one with the greatest spec order.
LEMMA LastIsGreatest == LastTask \in Group /\ \A t \in Group : t <= LastTask
BY LatestExists, GroupAssumption, Zenon DEF LastTask

-----------------------------------------------------------------------------
\* The nodes of two lists, one after the other.
LEMMA NodesOfBoth ==
  ASSUME NEW S, NEW a \in Seq(S), NEW b \in Seq(S)
  PROVE  Range(a \o b) = Range(a) \cup Range(b)
<1>1. /\ a \o b \in Seq(S) /\ Len(a \o b) = Len(a) + Len(b) /\ Len(a) \in Nat /\ Len(b) \in Nat
      /\ \A i \in 1 .. Len(a) + Len(b) : (a \o b)[i] = IF i <= Len(a) THEN a[i] ELSE b[i - Len(a)]
      /\ DOMAIN a = 1 .. Len(a) /\ DOMAIN b = 1 .. Len(b) /\ DOMAIN (a \o b) = 1 .. Len(a) + Len(b)
  BY ConcatProperties
<1>2. ASSUME NEW i \in 1 .. Len(a) + Len(b) PROVE (a \o b)[i] \in Range(a) \cup Range(b)
  <2>1. CASE i <= Len(a)
    BY <1>1, <2>1 DEF Range
  <2>2. CASE i > Len(a)
    <3>1. i - Len(a) \in 1 .. Len(b) /\ (a \o b)[i] = b[i - Len(a)]
      BY <1>1, <2>2
    <3>. QED BY <1>1, <3>1, Zenon DEF Range
  <2>. QED BY <1>1, <2>1, <2>2
<1>3. ASSUME NEW i \in 1 .. Len(a) PROVE a[i] \in Range(a \o b)
  <2>1. i \in 1 .. Len(a) + Len(b) /\ (a \o b)[i] = a[i]
    BY <1>1
  <2>. QED BY <1>1, <2>1, Zenon DEF Range
<1>4. ASSUME NEW i \in 1 .. Len(b) PROVE b[i] \in Range(a \o b)
  <2>1. i + Len(a) \in 1 .. Len(a) + Len(b) /\ (a \o b)[i + Len(a)] = b[i]
    BY <1>1
  <2>. QED BY <1>1, <2>1, Zenon DEF Range
<1>5. Range(a \o b) \subseteq Range(a) \cup Range(b)
  BY <1>1, <1>2, Zenon DEF Range
<1>6. Range(a) \subseteq Range(a \o b) /\ Range(b) \subseteq Range(a \o b)
  BY <1>1, <1>3, <1>4, Zenon DEF Range
<1>. QED BY <1>5, <1>6, Zenon

\* The nodes of a list are its first one and the rest.
LEMMA NodesOfTail ==
  ASSUME NEW S, NEW s \in Seq(S), s # <<>>
  PROVE  Head(s) \in S /\ Tail(s) \in Seq(S) /\ Range(s) = Range(Tail(s)) \cup {Head(s)}
<1>1. /\ Head(s) \in S /\ Tail(s) \in Seq(S) /\ Len(Tail(s)) = Len(s) - 1
      /\ \A i \in 1 .. Len(s) - 1 : Tail(s)[i] = s[i + 1]
      /\ DOMAIN Tail(s) = 1 .. Len(s) - 1 /\ DOMAIN s = 1 .. Len(s) /\ Len(s) \in Nat \ {0}
      /\ Head(s) = s[1]
  BY HeadTailProperties, EmptySeq
<1>2. ASSUME NEW i \in 1 .. Len(s) PROVE s[i] \in Range(Tail(s)) \cup {Head(s)}
  <2>1. i = 1 \/ (i - 1 \in 1 .. Len(s) - 1 /\ Tail(s)[i - 1] = s[i])
    BY <1>1
  <2>. QED BY <1>1, <2>1, Zenon DEF Range
<1>3. ASSUME NEW i \in 1 .. Len(s) - 1 PROVE Tail(s)[i] \in Range(s)
  <2>1. i + 1 \in 1 .. Len(s) /\ s[i + 1] = Tail(s)[i]
    BY <1>1
  <2>. QED BY <1>1, <2>1, Zenon DEF Range
<1>4. Head(s) \in Range(s)
  BY <1>1 DEF Range
<1>5. Range(s) \subseteq Range(Tail(s)) \cup {Head(s)}
  BY <1>1, <1>2 DEF Range
<1>6. Range(Tail(s)) \subseteq Range(s)
  BY <1>1, <1>3, Zenon DEF Range
<1>. QED BY <1>1, <1>4, <1>5, <1>6, Zenon

-----------------------------------------------------------------------------
\* A block uses Ordered regions or not, and so does a variable (runs
\* MonitorOrderedConflict and MonitorLostWrite).
Separate == ~Mixed /\ PlainKeys \cap OrderedKeys = {}

Wrote(t, k) == written[t].val[k] # Initially

-----------------------------------------------------------------------------
\* What a block has done: plain accesses if it has not reached an Ordered region,
\* ordered ones if it has, and what is left to commit.
BlockOf(t) ==
  /\ region[t] = "before" =>
       /\ ordered_writes[t] = <<>>
       /\ \A k \in OrderedKeys : ~Wrote(t, k)
       /\ \A o \in observed[t] : o[1] \in PlainKeys
  /\ region[t] # "before" =>
       /\ write_list[t] = <<>>
       /\ \A k \in PlainKeys : ~Wrote(t, k)
       /\ \A o \in observed[t] : o[1] \in OrderedKeys
  /\ region[t] = "entering" => \A k \in Keys : ~Wrote(t, k) /\ FirstAccess(t, k, WRITE_BIT)
  /\ region[t] = "inside" =>
       \A k \in Keys : /\ k \in Range(ordered_writes[t]) <=> Wrote(t, k)
                       /\ Wrote(t, k) <=> ~FirstAccess(t, k, WRITE_BIT)
  /\ region[t] = "after" => ordered_writes[t] = <<>> /\ (Committing(t) => todo[t] = <<>>)
  /\ Committing(t) => \A k \in Range(todo[t]) : Wrote(t, k)

Blocks == \A t \in Group : BlockOf(t)

\* What a task wrote bears its number, and is in its heap until it merges.
Own ==
  \A t \in Group, k \in Keys : Wrote(t, k) =>
    /\ written[t].val[k] \in {t} \X (1 .. MaxWrites)
    /\ pc[t] \notin {"merge", "done"} => heap[t][k] = written[t].val[k]

\* Another task's step leaves a block as it was.
LEMMA OthersBlock ==
  ASSUME TypeOK, Stands, Narrow, NEW t \in Group, Step(t), NEW u \in Group, u # t, BlockOf(u)
  PROVE  BlockOf(u)'
<1>1. Untouched(u)
  BY LocalStep, Zenon
<1>2. \A k \in Keys : FirstAccess(u, k, WRITE_BIT)' <=> FirstAccess(u, k, WRITE_BIT)
  BY OthersBits, Zenon
<1>. QED BY <1>1, <1>2, Zenon DEF BlockOf, Untouched, Wrote, Committing

\* Accesses go to the variables that the block may use where it is.
LEMMA AccessBlock ==
  ASSUME TypeOK, Stands, Narrow, Separate, NEW t \in Group, BlockOf(t),
         NEW k \in Keys, Read(t, k) \/ Write(t, k)
  PROVE  BlockOf(t)'
<1>0. /\ pc[t] = "block" /\ UNCHANGED <<region, pc, todo>>
      /\ \/ region[t] = "inside" /\ k \in OrderedKeys /\ k \notin PlainKeys
         \/ region[t] = "before" /\ k \in PlainKeys /\ k \notin OrderedKeys
  BY Zenon DEF Read, Write, Accessible, At, control, Separate
<1>1. Mask(t, READ_BIT) \cap Mask(t, WRITE_BIT) = {} /\ Mask(t, WRITE_BIT) # {}
  BY MaskBits, MasksDisjoint DEF READ_BIT, WRITE_BIT
<1>2. ASSUME Read(t, k) PROVE BlockOf(t)'
  <2>1. /\ UNCHANGED <<write_list, ordered_writes, written>>
        /\ \A o \in observed'[t] : o \in observed[t] \/ o[1] = k
    BY <1>2 DEF Read, TypeOK
  <2>2. \A l \in Keys : FirstAccess(t, l, WRITE_BIT)' <=> FirstAccess(t, l, WRITE_BIT)
    BY <1>1, <1>2, Zenon DEF Read, FirstAccess, TypeOK
  <2>. QED BY <1>0, <2>1, <2>2, Zenon DEF BlockOf, Wrote, Committing
<1>3. ASSUME Write(t, k) PROVE BlockOf(t)'
  <2>1. \A l \in Keys : Wrote(t, l)' <=> Wrote(t, l) \/ l = k
    BY <1>3, Zenon DEF Write, TypeOK, Wrote, Initially
  <2>2. \A l \in Keys : FirstAccess(t, l, WRITE_BIT)' <=> FirstAccess(t, l, WRITE_BIT) /\ l # k
    BY <1>1, <1>3, Zenon DEF Write, FirstAccess, TypeOK
  <2>3. observed' = observed
    BY <1>3, Zenon DEF Write
  <2>4. CASE region[t] = "before"
    <3>1. ordered_writes'[t] = ordered_writes[t]
      BY <1>3, <2>4, Zenon DEF Write, AddList, TypeOK
    <3>. QED BY <1>0, <2>1, <2>3, <2>4, <3>1, Zenon DEF BlockOf, Keys, Committing
  <2>5. CASE region[t] = "inside"
    <3>1. /\ write_list'[t] = write_list[t]
          /\ ordered_writes'[t] = IF FirstAccess(t, k, WRITE_BIT)
                                    THEN <<k>> \o ordered_writes[t] ELSE ordered_writes[t]
      BY <1>3, <2>5, Zenon DEF Write, AddList, TypeOK
    <3>2. ordered_writes[t] \in Seq(Keys)
      BY Zenon DEF TypeOK
    <3>3. Range(<<k>> \o ordered_writes[t]) = Range(ordered_writes[t]) \cup {k}
      BY <3>2, NodeInFront
    <3>4. Range(ordered_writes'[t]) = Range(ordered_writes[t]) \cup {k}
      BY <2>5, <3>1, <3>3, Zenon DEF BlockOf
    <3>. QED BY <1>0, <2>1, <2>2, <2>3, <2>5, <3>1, <3>4, Zenon DEF BlockOf, Keys, Committing
  <2>. QED BY <1>0, <2>4, <2>5, Zenon
<1>. QED BY <1>2, <1>3, Zenon

\* A block that enters an Ordered region has done nothing before it.
LEMMA EnterBlock ==
  ASSUME IInv, Separate, NEW t \in Group, BlockOf(t), EnterOrdered(t)
  PROVE  BlockOf(t)'
<1>1. /\ write_list[t] = <<>> /\ read_list[t] = <<>> /\ region[t] = "before"
      /\ region'[t] = "entering" /\ pc'[t] = "merge"
      /\ UNCHANGED <<vector, write_list, ordered_writes, observed, written, todo>>
  BY Zenon DEF EnterOrdered, Separate, IInv, TypeOK, At, lists, history, shared
<1>2. ListedOf(t)
  BY Zenon DEF EnterOrdered, IInv, AccessesListed, At, ListedOf
<1>3. Range(write_list[t]) = {} /\ Range(read_list[t]) = {}
  BY <1>1 DEF Range
<1>4. /\ \A k \in Keys : ~Wrote(t, k) /\ FirstAccess(t, k, WRITE_BIT)
      /\ \A o \in observed[t] : FALSE
  BY <1>2, <1>3 DEF ListedOf, Wrote
<1>. QED BY <1>1, <1>4, Zenon DEF BlockOf, Wrote, FirstAccess, Committing, Keys

\* What a task sets out to commit is what it wrote.
LEMMA CommitBlock ==
  ASSUME IInv, NEW t \in Group, BlockOf(t), LeaveOrdered(t) \/ DataCommit(t)
  PROVE  BlockOf(t)'
<1>1. /\ \/ pc[t] = "block" /\ region[t] = "inside" /\ region'[t] = "leaving"
         \/ pc[t] = "passed" /\ region[t] \in {"before", "after"} /\ region'[t] = region[t]
      /\ todo'[t] = write_list[t] \o ordered_writes[t]
      /\ UNCHANGED <<vector, write_list, ordered_writes, observed, written>>
  BY Zenon DEF LeaveOrdered, DataCommit, At, IInv, TypeOK, Stands, Committing, lists, history, shared
<1>2. write_list[t] \in Seq(Keys) /\ ordered_writes[t] \in Seq(Keys)
  BY Zenon DEF IInv, TypeOK
<1>3. Range(todo'[t]) = Range(write_list[t]) \cup Range(ordered_writes[t])
  BY <1>1, <1>2, NodesOfBoth
<1>4. \A k \in Range(write_list[t]) : Wrote(t, k)
  <2>1. CASE region[t] = "before"
    <3>1. ListedOf(t)
      BY <1>1, <2>1, Zenon DEF IInv, AccessesListed, ListedOf
    <3>. QED BY <3>1, Zenon DEF ListedOf, Wrote
  <2>2. CASE region[t] # "before"
    BY <2>2 DEF BlockOf, Range
  <2>. QED BY <2>1, <2>2, Zenon
<1>5. \A k \in Range(ordered_writes[t]) : Wrote(t, k)
  <2>1. CASE region[t] = "inside"
    <3>1. Range(ordered_writes[t]) \subseteq Keys
      BY <1>2 DEF Range
    <3>. QED BY <2>1, <3>1, Zenon DEF BlockOf
  <2>2. CASE region[t] \in {"before", "after"}
    BY <2>2 DEF BlockOf, Range
  <2>. QED BY <1>1, <2>1, <2>2, Zenon
<1>6. region[t] = "after" => todo'[t] = <<>>
  BY <1>1 DEF BlockOf
<1>. QED BY <1>1, <1>3, <1>4, <1>5, <1>6, Zenon DEF BlockOf, Wrote, Committing

\* The other ports do not change what the block has done.
LEMMA PortBlock ==
  ASSUME TypeOK, Stands, NEW t \in Group, BlockOf(t),
         \/ MergeCopy(t) \/ MergeEnd(t) \/ CommitClaim(t) \/ CommitStore(t) \/ CommitEnd(t)
         \/ EndBlock(t) \/ BeginCheck(t) \/ CheckNode(t) \/ PassCheck(t) \/ GroupCommit(t)
  PROVE  BlockOf(t)'
<1>0. /\ DOMAIN pc = Group /\ DOMAIN region = Group /\ DOMAIN todo = Group
      /\ DOMAIN write_list = Group /\ DOMAIN ordered_writes = Group /\ todo[t] \in Seq(Keys)
  BY Zenon DEF TypeOK
<1>. USE <1>0 DEF BlockOf, Wrote, FirstAccess, Committing, Stands, At, shared, lists, history
<1>1. MergeCopy(t) => BlockOf(t)'
  BY Zenon DEF MergeCopy
<1>2. MergeEnd(t) => BlockOf(t)'
  BY DEF MergeEnd, FreeAllLists, Range
<1>3. CommitClaim(t) => BlockOf(t)'
  BY Zenon DEF CommitClaim
<1>4. CommitStore(t) => BlockOf(t)'
  <2>. HAVE CommitStore(t)
  <2>1. todo[t] # <<>> /\ todo'[t] = Tail(todo[t]) /\ region[t] # "after"
    BY Zenon DEF CommitStore
  <2>2. Range(todo'[t]) \subseteq Range(todo[t])
    BY <1>0, <2>1, NodesOfTail, SMTT(20)
  <2>. QED BY <2>1, <2>2, Zenon DEF CommitStore
<1>5. CommitEnd(t) => BlockOf(t)'
  BY Zenon DEF CommitEnd, FreeAllLists, Range
<1>6. EndBlock(t) \/ BeginCheck(t) \/ CheckNode(t) => BlockOf(t)'
  BY Zenon DEF EndBlock, BeginCheck, CheckNode
<1>7. PassCheck(t) \/ GroupCommit(t) => BlockOf(t)'
  BY Zenon DEF PassCheck, GroupCommit
<1>. HIDE <1>0 DEF BlockOf, Wrote, FirstAccess, Committing, Stands, At, shared, lists, history
<1>. QED BY <1>1, <1>2, <1>3, <1>4, <1>5, <1>6, <1>7, Zenon

\* Every step leaves the blocks what they have to be.
LEMMA BlocksStep ==
  ASSUME IInv, Narrow, Separate, Blocks, NEW t \in Group, Step(t)
  PROVE  Blocks'
<1>. SUFFICES ASSUME NEW u \in Group PROVE BlockOf(u)'
  BY Zenon DEF Blocks
<1>0. TypeOK /\ Stands /\ BlockOf(u)
  BY Zenon DEF IInv, Blocks
<1>1. CASE u # t
  BY <1>0, <1>1, OthersBlock, Zenon
<1>2. CASE u = t
  BY <1>0, <1>2, AccessBlock, EnterBlock, CommitBlock, PortBlock, Zenon DEF Step
<1>. QED BY <1>1, <1>2, Zenon

\* A write is stored in the writer's own heap, under the writer's own number.
LEMMA OwnStep ==
  ASSUME TypeOK, Stands, Blocks, Own, NEW t \in Group, Step(t)
  PROVE  Own'
<1>. SUFFICES ASSUME NEW u \in Group, NEW k \in Keys, Wrote(u, k)'
              PROVE  /\ written'[u].val[k] \in {u} \X (1 .. MaxWrites)
                     /\ pc'[u] \notin {"merge", "done"} => heap'[u][k] = written'[u].val[k]
  BY Zenon DEF Own, Wrote
<1>1. CASE u # t
  <2>1. Untouched(u)
    BY <1>1, LocalStep, Zenon
  <2>. QED BY <2>1 DEF Untouched, Own, Wrote
<1>2. CASE u = t /\ \E l \in Keys : Write(t, l)
  <2>1. PICK l \in Keys : Write(t, l)
    BY <1>2, Zenon
  <2>2. /\ written'[t].val = [written[t].val EXCEPT ![l] = <<t, written[t].count + 1>>]
        /\ heap'[t] = [heap[t] EXCEPT ![l] = <<t, written[t].count + 1>>]
        /\ pc[t] = "block" /\ pc' = pc /\ written[t].count < MaxWrites
    BY <2>1, Zenon DEF Write, TypeOK, Accessible, At, control
  <2>4. written[t].count + 1 \in 1 .. MaxWrites
    <3>1. written[t].count \in 0 .. MaxWrites
      BY Zenon DEF TypeOK
    <3>. QED BY <2>2, <3>1, GroupAssumption
  <2>3. written[t].val \in [Keys -> Values] /\ heap[t] \in [Keys -> Values]
    BY Zenon DEF TypeOK
  <2>. QED BY <1>2, <2>2, <2>3, <2>4 DEF Own, Wrote
<1>3. CASE u = t /\ ~\E l \in Keys : Write(t, l)
  <2>1. written' = written
    BY <1>3, OnlyWrites, Zenon
  <2>2. Wrote(t, k) /\ region[t] # "entering"
    BY <1>3, <2>1, Zenon DEF Wrote, Blocks, BlockOf
  <2>3. /\ pc'[t] \notin {"merge", "done"} => pc[t] \notin {"merge", "done"}
        /\ pc[t] \notin {"merge", "done"} => heap'[t] = heap[t]
    <3>1. DOMAIN pc = Group /\ DOMAIN heap = Group
      BY Zenon DEF TypeOK
    <3>. QED BY <1>3, <2>2, <3>1, Zenon DEF Step, Read, EnterOrdered, LeaveOrdered, MergeCopy, MergeEnd,
                CommitClaim, CommitStore, CommitEnd, EndBlock, BeginCheck, CheckNode, PassCheck,
                DataCommit, GroupCommit, control, At
  <2>. QED BY <1>3, <2>1, <2>2, <2>3 DEF Own
<1>. QED BY <1>1, <1>2, <1>3, Zenon

-----------------------------------------------------------------------------
Order == TypeOK /\ Stands /\ AccessesListed /\ Turns /\ Ends /\ Blocks /\ Own

\* Nobody has done anything when the group forks.
LEMMA OrderInit == Init => Order
<1>. SUFFICES ASSUME Init PROVE Order
  BY Zenon
<1>1. TypeOK /\ Stands /\ AccessesListed
  BY InitInv, Zenon DEF IInv
<1>5. /\ \A t \in Group : region[t] = "before" /\ pc[t] = "block" /\ t \notin passed
      /\ \A t \in Group, k \in Keys : ~Wrote(t, k)
      /\ \A t \in Group : ordered_writes[t] = <<>> /\ observed[t] = {}
  BY Zenon DEF Init, Wrote
<1>2. Turns /\ Ends
  BY <1>5, Zenon DEF Turns, Ends, Late, Committing
<1>3. ASSUME NEW t \in Group PROVE BlockOf(t)
  BY <1>5, Zenon DEF BlockOf, Committing, Keys
<1>4. Own
  BY <1>5, Zenon DEF Own
<1>. QED BY <1>1, <1>2, <1>3, <1>4, Zenon DEF Order, Blocks

\* Turns, lists and blocks are kept by every step.
LEMMA OrderStep ==
  ASSUME Narrow, Separate, Order, NEW t \in Group, Step(t)
  PROVE  Order'
<1>0. TypeOK /\ Stands /\ Turns /\ Ends /\ Blocks /\ Own /\ IInv
  BY Zenon DEF Order, IInv
<1>1. IInv'
  BY <1>0, StepInv, Zenon DEF Next
<1>. QED BY <1>0, <1>1, TurnsStep, BlocksStep, OwnStep, Zenon DEF Order, IInv
=============================================================================
