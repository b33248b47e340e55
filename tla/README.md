# TLA+ models of Rubybop

Rubybop is MRI Ruby 2.2 with BOP, a runtime for speculative parallelism in
which each task is a forked process. This directory holds TLA+ models of the
parts of the repository where processes or threads meet, the TLC runs that
check them on small instances, and TLAPS proofs of their safety for every size.

Paths below are relative to `src/ruby/`.

## Inventory

The parts in which processes or threads meet:

| Part | State | Operations | What is hard |
|---|---|---|---|
| Access record table (`bop/object_monitor.c`) | a shared hash table of record ids | `get_record` | lock-free insertion by several processes, a full table |
| Object monitor (`bop/object_monitor.c`, `.h`) | access vectors and copy records in shared memory; per process the read, write and ordered lists | `record_bop_access`, `rb_object_correct`, `obj_commit`, `parent_merge`, `restore_seq` | which accesses the check sees, the order of merges, bits cleared while others run |
| PPR and Ordered (`bop/ppr.c`) | task status, group (in the BOP library) | `PPR{}`, `Ordered{}`, `PPR.over`, `PPR.abort_spec` | non-local exits, groups that follow each other |
| GVL and timer thread (`thread_pthread.c`, `thread.c`) | `vm->gvl`, `vm->running_thread`, two pipes | `gvl_acquire`, `gvl_release`, `gvl_yield`, the timer loop | barging, lost wakeups, reads without the lock |
| Mutex, deadlock check (`thread.c`) | owner, waiters, `vm->sleeper`, `patrol_thread` | lock, unlock, sleep, abandon, `rb_check_deadlock` | the window between native lock and GVL, false alarms |
| Queue, SizedQueue, ConditionVariable (`ext/thread/thread.c`) | elements, waiter lists | push, pop, `max=`, wait, signal | swallowed wakeups, interrupted waiters |
| Garbage collector (`gc.c`, barriers in `include/ruby/ruby.h`) | page bitmaps, ages, mark stack, phase | mark and sweep steps, allocation, write barriers, unprotect, recycle | what the program writes between the steps of a collection |
| Monitor, timeout (`lib/`) | owner, count | enter, exit, wait | asynchronous exceptions |
| Thread shields, require (`thread.c`, `load.c`) | loading table | wait, release, destroy | a loader that fails while others wait |
| Rest of MRI | | | sequential under the GVL |

The interactions: the interpreter's instance variable instructions call the
object monitor; the BOP library calls the monitor's ports at the start of a
group, at both ends of an Ordered region, at the check and at the commit; PPR
refuses to start with several threads, so the GVL and the object monitor are not
active together in a correct program. Mutexes and queues run on the GVL: a thread
loses it only in a wait or where it checks its interrupts. The collector runs
inside allocation, and the program runs between its steps.

`PROJECT.json` lists all components with their status, and the hazards with the
line at which each of them bites.

## Modules

**RecordTable** models `get_record`. A task is a process; each load of
`records[index].record_id` and the compare-and-swap is one step. `Compare` is
line 134, `Vacant` line 136, `Swap` lines 138 to 144; `SearchAgain` and `GiveUp`
are the end of the loop. `Base` stands for `hash2`, any function from keys to
slots. `first` is a history variable: where the key was when the call began.

**ObjectMonitor** models one speculation group. A task has its own heap and its
own three lists; `vector`, `copy_records` and `next_copy` are shared. `Read` and
`Write` are `record_bop_access` from `vm_getivar` and `vm_setivar`. The loops of
`rb_object_correct`, `commit` and `parent_merge` take one step per list node or
copy record, and the claim of a copy record is separate from filling it in.
Access vectors are sets of bits and a mask is computed as the C code does it, by
a 32-bit shift that is widened afterwards. A value is the pair of its writer and a
number, so that the histories `observed` and `written` tell all writes apart.
`pending` remembers which earlier tasks had not begun to commit when a task was
checked. The BOP library is not in the tree; the head of the module states what
is assumed of it.

**GVL** models `vm->gvl`, the threads that take, release and yield it, and the
timer thread. A piece of code between two waits runs under `gvl.lock` and is one
step. The write to the timer thread's pipe is separate, since the timer thread
does not take that lock. `pc` is where a thread stands: `outside` (in a blocking
region, not started, or ended), `contending` (first waiter, before the pipe write),
`acquiring`, `entering` (lock taken, `rb_thread_set_current` still to come),
`running`, `yielding`, `queueing` (a yielder behind another) and `scheduling`
(in `sched_yield`). Threads have priority 0, at which a timer interrupt always
uses up the time slice. Failing `poll` calls are left out.

**AbstractLock** is what the rest of the interpreter may expect of the GVL: one owner,
which a newcomer may become before those that wait, and no lock that stays free while
threads wait. GVL is shown to implement it (`ImplementsLock`, with the holder and the
waiting threads as refinement mapping), and Mutex takes and frees the GVL through it.
The run checks the whole of it; `GVLIsALock` proves the part without fairness.

**Mutex** models the mutexes of `thread.c`, the three ways to sleep for ever
(`Mutex#sleep`, `Thread.stop`, `Thread#join`), interrupts from other threads, the end of
a thread, the child of a fork, and `rb_check_deadlock` with its patrol thread. What a
thread does between two points where it can lose the GVL is one step; `lock_func` and
`native_sleep` run without it. `pc` is where a thread stands: `locking` is the top of
the loop of `rb_mutex_lock`, `waiting` is inside `lock_func`, `locked`, `interrupted` and
`timedout` are its outcomes before the GVL is back, `relock` is the rest of the round;
`sleeping`, `asleep` and `woken` are in `sleep_forever`; `ended` is before the last
deadlock check of a thread. `cond` holds the threads asleep on a mutex's condition
variable, and `reports` counts deadlock reports. An exception that is raised in a thread
is rescued somewhere in it; a killed thread is one that then ends.

**Queue** models `Queue` and `SizedQueue`. Their methods are atomic up to the sleep. The
queue is its length, the waiter lists are sequences of threads, and `stopped` is the
status that a wakeup takes away. `swallowed` counts the threads that were killed after a
wakeup had taken them off a list. The main thread is busy elsewhere.

**GC** models the collector. Its functions become operators from one `objspace`, a
record of bitmaps, ages, mark stack and flags, to the next, under their names in
`gc.c`; `parentOld` is `objspace->rgengc.parent_object`. A minor or immediate mark is
one step, an incremental mark takes one object per step, and a sweep takes one page per
step; allocation, the three barriers, `rb_gc_force_recycle` and what the program does to
its references come in between. An object has one reference, and a page has one slot.
`doomed` remembers what was garbage when a full mark began.

The theorems are in **RecordTableProofs**, **GVLProofs**, **MutexProofs**,
**QueueProofs**, **ObjectMonitorProofs** and **MonitorMergeProofs** (which builds on it),
**GCMarkProofs** (what the functions of the collector do) and **GCProofs** (which builds
on that). The **MC_** modules
declare the model values for TLC. Operators whose comment begins with "Mutant" are
faulty variants of the definition that follows them; they are used to confirm that
each property can fail.

## Runs

| Run | Instance | Result |
|---|---|---|
| RecordTable | 2 tasks, 4 keys, 3 slots | 6 properties hold (111,128 states) |
| RecordTableRace | the same | `UniqueRecord` is violated |
| ObjectMonitor | 3 tasks, a plain and an ordered variable, 2 writes per task, 2 copy records | 7 properties hold (200,688 states) |
| MonitorOrderedConflict | 2 tasks, one variable used both ways | `CheckFindsPending` is violated |
| MonitorLastWrite | plain variable | `LastWriteWins` is violated |
| MonitorLostWrite | blocks that access before and inside Ordered | `WritesPublished` is violated |
| MonitorWideGroup | spec orders 0 and 16 | `CheckFindsPending` is violated |
| GVL | 3 threads and the timer thread | 9 properties hold (128,128 states) |
| Mutex | 3 threads, 2 mutexes, one interrupt at a time, with fork | 6 properties hold (1,923,234 states up to symmetry) |
| Queue | 4 threads, limit up to 2 | 6 properties hold (248,172 states) |
| QueueKilledWaiter | the same | `SuspendedUntilPush` is violated |
| GC | 3 slots, old at age 2, 1 unprotected object | 6 properties hold (1,791,176 states) |

Bounds and why they are enough:

* RecordTable: four keys do not fit three slots, so the table fills up; two of the
  keys hash to the last slot, so probing collides and wraps around. Two tasks are
  what a race on a slot needs. The proofs remove the bounds for safety.
* ObjectMonitor: three tasks are the least number with a first, a middle and a last
  one, whose ports differ. `MaxWrites` = 2 allows a second write that sets no
  new bit. `MAX_COPYS` = 3 leaves two copy records, fewer than three tasks can
  need. `Mixed` = FALSE keeps plain and ordered accesses in different blocks and
  to different variables, where the design holds; the violation runs lift this.
* GVL: three threads are the least number at which one yields, another queues
  behind it and a third waits for the lock.
* Mutex: three threads and two mutexes allow a cycle of two while a third thread
  sleeps, joins or patrols. `MaxInterrupts` = 1 limits how many threads the program has
  interrupted at a time, and a thread's queue holds one exception; a deadlock
  report and the end of a thread interrupt without this bound. `Forking` lets the run go
  on in the child, which starts with the mutexes, counts and patrol thread it inherits.
* Queue: with four threads one is killed after its wakeup, a second sleeps, a third
  kills and a fourth competes for the element. `MaxSize` = 2 lets the limit fall below
  the length of the queue and grow again.
* GC: three slots make a chain of an old, a young and an unprotected object.
  `RVALUE_OLD_AGE` is 3 in the code; 2 keeps an age that is young, one that is about to
  become old, and old. The page flags that say which bitmaps are empty are left out:
  the model always looks.

Fairness. RecordTable and ObjectMonitor assume that the system runs each process
that can run (weak fairness per task); in ObjectMonitor this includes that blocks
end. In GVL every thread has weak fairness for the steps inside the lock's code and
for `TimeSlice`, since the interpreter polls its interrupts; nothing makes
a thread block, pass or end. The timer thread has weak fairness: its poll has a
timeout. Strong fairness is assumed of `TakeOver` and `YieldOver`, each for the
threads together: the native mutex and the scheduler do not let newcomers
overtake a woken thread for ever. Without it barging, which the code permits, would
refute both liveness properties. A queued yielder may be overtaken for ever by
threads that yield in turn; no property claims otherwise.

Queue has weak fairness for the return of a thread that has been woken up or killed:
the GVL is granted in turn and its holder is made to yield. Nothing makes a thread call
push or pop. Mutex and GC state safety only: a patrol whose wait keeps returning for no
reason starts its 100 ms again each time, so `DeadlockWatched` says that there is a patrol
and not when it reports.

The ObjectMonitor run lets a finished group stutter. Deadlock is checked in all passing
runs but Queue, where all threads may be asleep or dead.

What the properties of the last three modules say:

* Mutex: `OwnersRelease` (a mutex has a living owner that will release it, through the end
  of threads and forks), `NoLostWakeup`, `SleeperCount` (`vm->sleeper` is exact, less
  one for each report), `NoFalseDeadlock` (at a report every thread is stuck) and
  `DeadlockWatched` (all threads stuck means that one of them is the patrol).
* Queue: `ListsExact`, `PopWakeupKept` and `PushWakeupKept` (while a thread sleeps, there
  is a woken one for each element or free place, less the swallowed wakeups),
  `WithinLimit` and, under fairness, `PopServed`.
* GC: `LiveKept` (nothing reachable is freed), `NoBlackToWhite` (`check_color_i`),
  `OldToYoungRemembered` (`check_generation_i`), `BitsAgree` (`check_rvalue_consistency` and
  the count of old objects) and `GarbageFreed`.

## What the violation runs show

* `RecordTableRace`: two records for one id, after another task has inserted the id
  between the two loads of the slot.
* `MonitorOrderedConflict`: leaving an Ordered region clears write bits that the
  check of a later task needs.
* `MonitorLastWrite`: the last task merges older values over its own.
* `MonitorLostWrite`: entering an Ordered region forgets what the block did before.
* `MonitorWideGroup`: spec orders that are 16 apart share their bits.
* `QueueKilledWaiter`: a thread that is killed between its wakeup and its return takes the
  wakeup with it, and another one stays suspended in `pop` with an element in the queue.

Each contradicts a comment in the source that the finding in `PROJECT.json` quotes.

Observations without a run, since no line of the repository says otherwise or the state is
not modelled: `patrol_thread` keeps its value in the child of a fork, where it may name a
thread that is gone; after a rescued deadlock report `vm->sleeper` stays one too low, so
a later deadlock goes unreported; in `gc_start` the refusal of full collections in a
parallel task comes before `need_major_gc` can turn a minor one into a full one;
`rb_gc_force_recycle` does not count down `remembered_wb_unprotected_objects`.

## Proofs

TLAPS checks all of it with Z3, Zenon and LS4.

**RecordTable**, for all tasks, keys, table sizes and hash functions
(`TableAssumption`: at least one slot, `Base` maps keys to slots, the two special
values are distinct). `IInv` adds to the properties what a searching task
knows: the slots it has passed are taken (`Scanned`), and if its key was present when
it began, the key is still ahead of it (`Tracked`). Neither `ProbeChain` nor
`SettledLookup` is inductive without these: an insertion is safe because the slots
before it are known to be taken. The argument rests on `SlotsKept` (a taken slot keeps
its id) and on arithmetic lemmas about `Index` (it reaches every slot once and then
wraps). `UniqueRecord` is not provable, and the run shows why.

**GVL**, for every finite set of threads (`ThreadAssumption`). The properties are
inductive together with two facts: a thread sleeps only on the condition variable of
the loop it is in, and a contending thread has found the lock taken.
`WaitingCount` carries the rest, because `gvl.waiting > 0` must mean that there is
a waiter to signal; its lemmas use the library's facts about cardinality.
`AcquireCore` and `ReleaseCore` treat the two halves of the lock once for all callers.

`GVLIsALock` shows from the same invariant that every step of GVL is a step of
AbstractLock or leaves the abstract lock alone.

**Mutex**, for every finite set of threads, any mutexes and any number of interrupts
(`MutexAssumption`). `OwnersRelease` and `NoLostWakeup` are inductive only with where the
holder of the GVL stands (`Control`), with why a thread in a wait is left alone or is not
(`Flags`), and with `cond_waiting` counting every waiter, and after a fork perhaps some
that are gone (`WaitersCounted`). The deadlock check rests on a second invariant, `DInv`:
`SleeperCount`, and that once every thread is counted as asleep, one of them is the
patrol or is going to run again (`Watched`). `DeadlockWatched` speaks only of threads that
are all stuck, and a step that makes the last one stuck would break it; `Watched` speaks
of all states before that. `NoFalseDeadlock` is an action property and follows
from the invariant and one look at `rb_check_deadlock` (`ReportStep`).

**Queue**, for every set of threads and every limit. The two wakeup invariants are not
inductive: a thread that `Thread#wakeup` took out of its sleep is still in the list, and
the next wakeup of the queue is spent on it. `PopCovered` and `PushCovered` count only the
threads that a wakeup of the queue took off a list, and hold while the list is not empty,
whether or not anybody in it sleeps.

**ObjectMonitor**, for any variables and any number of writes and copy records
(`GroupAssumption`). Two conditions are hypotheses of the theorems, because the code needs
them: `Narrow` (spec orders below 16, where masks do not coincide; run MonitorWideGroup
shows what happens otherwise) and `Separate` (a variable, and a block, is used
either in Ordered regions or outside; runs MonitorOrderedConflict and MonitorLostWrite).
`ListsMissNothing` needs only the first, and `TypeCorrect` none. The invariant `MInv` has
three layers. `Order`: the tasks pass their Ordered regions and their commits in
turn (`Turns`, `Ends`), what a block has done and has still to publish at each place (`Blocks`),
and values that bear their writer's number (`Own`). `Records`: the copy records in use
are the first ones and only the last can be empty (`Claims`), they hold what their
writers wrote (`Authentic`), in the order of the tasks (`InOrder`), and nothing is missing of
a task that is out (`Complete`). Then what a task has seen of them: a merge that is half done
holds the last copy of each variable so far (`Merging`), a task in its region holds the serial
values (`InsideView`), and what a half done check has behind it was written by no task that has
passed and not committed (`Checking`, `PassedClean`). None of the properties is inductive without the records, and the
records are not without the turns: two tasks that published at once could leave a claimed
record empty behind a filled one. `FinishedHavePublished` proves `WritesPublished`, which
MonitorLostWrite refutes, for blocks that do not mix.

**GC**, for every number of slots, every `RVALUE_OLD_AGE` and any number of unprotected
objects (`GCAssumption`). `IInv` says for each phase why no reference is missed. While
marking, a marked object is in the mark stack, or what it refers to is marked and recorded,
or it has no write barrier and is scanned again by `gc_marks_wb_unprotected_objects`
(`Marking`). Otherwise an old object is long-lived, and is remembered, or refers to nothing
young that is not (`Idle`). The objects that the lazy sweep will leave (`Kept`) are closed under
references and hold the roots; `LiveKept` is not inductive because a sweep frees an
object long after the decision. `Doomed` is the other direction: nothing that was not
garbage comes to refer to garbage. `Sound` ties the bits of one object to each other and
`old_objects` to the bits; `Stacked` says that the grey objects are those in the mark stack.
GCMarkProofs shows for each function of `gc.c` which parts of `objspace` it changes (the
lemmas `...Is`), and what marking keeps up (`MarkInv`) and never takes back (`Advanced`). The
loops over the heap pages are recursive functions; that such a function exists and what it
keeps is shown by the least page that would break it (`Least`, `LoopRuns`, `LoopKeeps`), which needs
no induction rule. The same device shows that the mark stack is empty after as many turns as
there are slots (`DrainEmpties`) and that reachability is the least closed set
(`ReachableLeast`). TLC has checked `IInv` on the instance of the run.

Only model-checked: liveness (`CallReturns`, `GroupFinishes`, `TimeSliceEnds`, `YieldReturns`,
`PopServed`) and the fairness part of `ImplementsLock`, which are out of the prover's reach. Every
safety property that a passing run checks is proved. The properties of the violation
runs are false of the code as it is; `CheckFindsPending` and `WritesPublished` are proved under
the two conditions above.

## Not modelled

The BOP library itself; the parser, compiler, interpreter and core classes, which are
sequential; regular expressions, encodings and IO; Windows threads. `record_bop_gc`
and the scans of access vectors have no callers. Of the parts that are modelled: timed
sleeps and joins, trap handlers and `Thread.handle_interrupt` (Mutex); `ConditionVariable`
and the child of a fork (Queue); finalizers, tomb pages, thresholds and heap growth (GC);
the sequence of groups and non-local exits from a block (ObjectMonitor), which depend on
the BOP library.

## Plan

1. Proofs of the liveness properties, once a prover for them is at hand.
2. `ConditionVariable` on Mutex, then `Monitor`.
3. `ThreadShield` with the loading table of `load.c`.
4. Interrupt masks and timed sleeps in Mutex.
5. The sequence of groups with `restore_seq` and the understudy.
