# A TLA+ development of sysprog-labs-F23

The repository is a set of systems-programming labs in C. This directory holds
TLA+ models of its programs, their TLC configurations, and TLAPS proofs. Every
definition is translated from the source; `PROJECT.json` says which lines each
one stands for.

## The system

| component | state it keeps | operations | what is hard |
|---|---|---|---|
| **thread pool**, `homework04/thread_pool.c` | the pool (threads, three counters, a doubly linked list of jobs, one mutex, two condition variables), jobs (`struct thread_pool_task`: four flags and a condition variable), tasks (`struct thread_task`: a list of the jobs of its pushes) | `thread_pool_new`, `_delete`, `_push_task`; `thread_task_new`, `_join`, `_timed_join`, `_detach`, `_delete`; the worker thread | real threads: sleep and wake-up, a job freed by its worker or by a client, timeouts racing with signals, threads leaving while the pool is deleted |
| **file system**, `homework03/userfs.c` | a global list of files (blocks, reference count, deleted mark) and a growing array of descriptors | `ufs_open`, `_read`, `_write`, `_close`, `_delete`, `_resize`, `_destroy` | no concurrency; long call sequences: deleted files that stay open, slots used again, offsets left behind by a shrink, block arithmetic at the boundaries |
| **coroutines**, `homework01/libcoro.c` | a doubly linked run list, the current coroutine, a flag that the scheduler waits | `coro_new`, `coro_yield`, `coro_sched_wait`, `coro_delete` | control transfers between stacks; who runs next; a coroutine that ends |
| **merge sort**, `homework01/solution.c` | an array of destinations, a shared index of the next file, per coroutine its times and its place in a recursive sort | claiming files, reading numbers, sorting with yields, measuring, merging | interleaving of coroutines at yields; time that must not count while others run; recursion at length 0 and 1; an off-by-one when reading |
| **heap tracker**, `utils/heap_help/heap_help.c` | a list of records of allocations and a pool of free ones under one spin lock, a flag of its initialisation, a flag of the exit | wrappers of `malloc`, `calloc`, `realloc`, `free`, `strdup`, `getline`, `getaddrinfo`, ...; a report at exit | wrappers of several threads interleave outside of the lock; an address is used again before its record is gone; the exit in the middle of calls; lazy initialisation |
| tests, unit-test macros, Python generator and checker, Makefiles | - | - | drivers and test data: read for what they say of the code, not modelled |

The components do not call each other. `heap_help` wraps the allocator under
any of them; the thread pool and the file system are libraries driven by their
`test.c`; `solution.c` is the client of `libcoro.c`.

What makes each correct:

* thread pool: no lost wake-up; each pushed job is run once, by one thread; the
  three counters agree with the threads and jobs there are; a job is freed after
  it was run and never under its worker; a join returns a finished job and does
  return; a detached task is freed; deletion of the pool leaves no thread.
* file system: what is read is what was last written; a deleted file lives
  until its last descriptor is closed and no longer; reference counts equal the
  open descriptors; a file never has more blocks than its size needs.
* coroutines and sort: control goes only to coroutines that are not finished,
  every one is reaped once, each file is sorted by exactly one coroutine, and the
  merge is a sorted permutation of its inputs.
* coroutines: a turn goes round, so that no coroutine starves; the times
  measured are those it ran.
* heap tracker: the records are exactly the live allocations, up to calls under
  way; no correct `free` is taken for a wrong one; the report is exact.

`PROJECT.json` lists the places where each of these could go wrong
(`hazards`), with the properties aimed at them.

## Modules

| module | models |
|---|---|
| `ThreadPool` | all of `thread_pool.c` that changes state, one pool at a time |
| `TaskService` | what a pool is to its user: jobs wait, run, are done, are forgotten |
| `MCThreadPool` | the TLC instances (symmetry); values are in the `.cfg` files |
| `ThreadPoolProofs` | theorems about `ThreadPool`, checked by TLAPS: types, wake-ups, jobs, memory, the list; the counters of threads, a thread for every job; and what callers see: joins, deletion after a join, the refinement of `TaskService` |
| `UserFS` | all of `userfs.c` that changes state: files, names, reference counts, descriptors |
| `Blocks` | the blocks of one file and the loops over them; extended by `UserFS` |
| `FlatFS` | what a file system is to its user: names, strings of bytes, positions |
| `MCUserFS` | the TLC instances (symmetry) |
| `RecursionProofs` | that a recursion along a measure has a solution, and induction over numbers; about no program |
| `BlocksProofs` | theorems about the loops of `Blocks`: what is read, written and cut |
| `UserFSProofs` | theorems about `UserFS`, checked by TLAPS: counts, files, blocks, types, the refinement of `FlatFS` |
| `Coro` | all of `libcoro.c` that changes state, for any program that uses it |
| `CoroService` | what `libcoro.h` promises: control is with one live coroutine, an ended one is handed out once |
| `MergeSort` | the pure parts of `solution.c`: reading, the order of the recursion, the merge, times |
| `CoroSort` | the program `solution.c`, composed with `Coro`, whose actions its steps are made of |
| `MCCoroSort` | the TLC instances |
| `CoroProofs` | theorems about `Coro` |
| `MergeSortProofs` | theorems about `MergeSort`: what is read, merged and sorted, for any length |
| `CoroSortProofs` | theorems about the program: files, results, times, turns, memory |
| `HeapHelp` | the wrappers of `heap_help.c`, the list of records and the report, over an external allocator |
| `MCHeapHelp` | the TLC instances (symmetry) |
| `HeapHelpProofs` | theorems about `HeapHelp`, checked by TLAPS |

### ThreadPool and the code

*Atomicity.* All fields of the pool and its jobs are accessed under
`pool->mutex`, so one critical section is one action. A call that waits is split
where it waits: `JoinEnter` (the unlocked `get_tp_task`), `JoinLock` (to the wait
or the return), `JoinWake` / `ExpiredReturn` (from the wait on). A worker
is at `lock` (about to take the mutex and look at the list), `wait` (asleep on
`work_cond`), or `run` (in the user's function); `Pick`, `Sleep`, `Exit` and
`Complete*` are its critical sections. A condition variable is the set of threads
whose `pc` says they wait on it: `broadcast` moves all of them, `signal` any one.

*Memory.* A job and a task are addresses from finite sets, allocated when
`thread_task[j] # NULL` and when `t \in tasks`. Freed addresses are used again, as
`malloc` does. `uaf` records the places that have written freed memory.

*The list.* `pool->task` with its `next` pointers is the relation `order`;
`Prepend`, `MoveToEnd` and `Unlink` are the three pointer manipulations. The
branch of the worker for a job in the middle (lines 299-309) forgets one
assignment and takes the job off the chain; `MoveToEnd` does the same.
A task's own list (`struct tp_task_list`) is its head `list[t]` and the set
`JobsOf(t)`; the code never uses the order of the rest.

*Callers.* `thread_pool.h` forbids little, so the model has options, in the
constant `Env`: timed joins, detach, a push before the last join, two clients that
join one task, deletion after a join that timed out (`early_delete`), waits that
return without a signal, `pthread_create` that fails, huge timeouts. Never
allowed are uses that no implementation could survive: a call on a task while
another client deletes, detaches or pushes it (`InCall`), any use of a task after
`thread_task_detach`, a push into a pool that is being deleted.

*Left out.* The value a function returns; the queries `thread_pool_thread_count`,
`thread_task_is_finished`, `thread_task_is_running` (they only read); a `malloc`
that fails; several pools and tasks pushed into two of them; that worker threads
are never joined or detached.

### UserFS, Blocks and the code

*Atomicity.* One thread uses the library, so a call is one action:
`OpenExisting` / `Create`, `Write`, `Read`, `Resize`, `Close`, `Delete`, `Destroy`,
and one action for each way a call fails: `OpenNoFile`, `DeleteNoFile`,
`NoPermission`, `NoMemory`, `BadNumber` only set `ufs_error_code`.

*Memory.* A file is an address, allocated when its `name` is not `NULL`; `Free`
clears its fields. The list of files is the sequence `file_list`. The fields of
the descriptor in slot `fd` are functions of `fd`. `file_descriptors` comes from
`malloc` and is not cleared: each slot of a new array that was never written is
`NULL` or `WILD`, both outcomes the build can produce.

*Blocks.* A block is the sequence of its occupied bytes; the bytes behind them are
never read. `last_block` is always the last block and has no variable of its own.
`WriteLoop`, `ReadLoop` and `ResizeLoop` are the loops of the code, one round for
one application of the recursive function.

*Undefined behaviour.* There are six places where a legal call has undefined
behaviour or does not return; `status` names the one that was met and the model stops:
`slot -1` (no slot found, write before the array), `wild slot` (a `WILD` slot is
followed), `no block` (nothing is written into an empty file), `freed block` (a
file with blocks is cut to 0), `endless` (growth to an odd size), `double free`
(`ufs_destroy` with a file left, or with a deleted file open twice; only without
these does a `Destroy` end well, and nothing is claimed of it beyond that). So every
property says: up to the first such call, which the properties do not excuse
but cannot see behind. Because the program has ended in these states, the
configurations say `CHECK_DEADLOCK FALSE`.

*FlatFS* keeps names, strings of bytes and positions. A file there has no reference
count: it keeps its bytes as long as a name or descriptor leads to it. That
`UserFS` implements it (`IsFlatFS`, through `Flattened`) is thus a
statement about counts, blocks and slots together. It is not all that `userfs.h`
promises: by lines 150-151 descriptors behind a cut proceed from the new end, while in
`FlatFS`, as in the code, a cut leaves positions where they are and a write there
appends and moves them further. The run `stale_position` shows that disagreement
(`ProceedsFromEnd`). Growing adds no bytes, here as in the code.

*Left out.* The value a function returns (what `ufs_read` delivers is `Reading`, and
`ReadIsFlat` is about it); `malloc` failing; descriptors after `ufs_destroy`, which
the header forbids.

### Coro, CoroSort and the code

*Atomicity.* One thread runs, and control changes hands only where `libcoro.c`
jumps. So what a context does between two jumps is one step. In `Coro` that is a
call of the library: `New`, `Yield`, `Finish` (the end of `coro_body`), one round of
the loop of `coro_sched_wait` (`WaitResume`, `WaitReturn`, `WaitNone`), `Delete`. Each
action of `CoroSort` that switches has one of them as a conjunct: `SortOn`
and `TakeFile` end in a `Yield`, `Leave` in `Finish`, `Collect` in `WaitNone`. `Coro`
alone is the library under every client, `SortSpec` is this client.

*The list.* `coro_list`, `next` and `prev` are the pointers, `Unlink` the
assignments of `coro_list_delete`. `is_sched_waiting` is reset after a switch
into the scheduler only; `StillWaiting` says so. Outside of
`coro_sched_wait` main yields to itself, as it does in the last sort.

*The recursion.* `get_sorted_numbers` yields once in each call, before it returns.
`PostOrder` is the list of these calls, each with the part of the array it is
about; `calls[c]` are those still to come, and `sorted[c]` the arrays that wait on
the stack of `c`. A leaf (one or two numbers) sorts its part, another call
merges the two last arrays: `SortedBy`.

*Data.* `ReadNumbers` keeps the buffer that doubles, what `malloc` left in
it, and the length that is one too big, so a sorted file has one number
that nobody wrote. `Time` splits a number of nanoseconds as `struct timespec` does; the
difference and the sum carry as in the code. `clock` and the ghost `worked`
are what the measured times are compared with. `blocks` counts the blocks that
`malloc` gave and `free` did not take.

*Undefined behaviour.* `phase` ends as `wild free` when the first `set_coro_timestamp`
frees a field that was never set (the garbage is `NULL` or `WILD`, both can occur), as
`unset destinations` without coroutines and as `endless recursion`
without files. The program has ended there, hence `CHECK_DEADLOCK FALSE`.

*Left out.* The switch to a new stack by a signal handler, over before `coro_new`
returns; `coro_status` and the other queries; `malloc` failing; a file that does
not exist or holds something else than numbers; what is printed.

### HeapHelp and the code

*Atomicity.* A section under `allocs_lock` is one action: `TakeRecord` and
`LinkRecord` are the two of `alloc_trace_new`, `Untrack`, `Retrack`, `Lost` and
`Kept` the one of `alloc_free` as four callers come to it. A call of the real
allocator together with the look at `is_exit_done` next to it is one action too:
`Allocate`, `Free`, `Release`, `ReallocMove`, ... Between these steps any
other thread may do any of its own; `pc` and `call` say where each one is.

*The allocator* is external. It may return any address that is not in use, at once
after it was freed, which is what makes the races. `Env` says whether `realloc` may
leave a block in place and whether it may fail.

*Callers* own the blocks in `held` together: any thread may free or resize any block
that some call has returned, and nobody uses a block after that.

*The lists.* `allocs` and `alloc_pool` are sequences from their heads on. The code
searches from the head; `Drop` takes the first record of the address. A record is
a number, handed out in order from batches up to `MaxRecords`.

*Ghosts.* `at_exit` is what was held, and in calls, when `is_exit_done` was set.
`missed` counts the records that were dropped although the block stayed: line 556
drops the record of the old block also when `default_realloc` has returned
`NULL`. `bad_memory` is the pointer for which the assertion in `alloc_free` (234)
has ended the process; that assertion is a property here, `NoFalseAlarm`.

*Other assertions.* `strdup` asserts that the process does not exit yet (511) and that
its string is not in `static_buf` (512), `getline` that its line is not (489). When one
fails the process ends, possibly before the report is out: `StrdupLate` and
`StringStatic` set `bad_string`, and the model stops. So `Allocate` after the exit is a
`malloc` or `calloc`, which return an unrecorded block. `freeaddrinfo` asserts the same
of its argument (588), a block of `getaddrinfo`, which is never static.

*Left out.* Wrappers called inside wrappers (they record nothing); the spinning;
backtraces and what is printed; environment variables; a `free` of what nobody
allocated; what main itself calls after `heaph_atexit` began, from other exit handlers.

### Fairness

`FairSpec` assumes weak fairness of each worker, of each client *inside* a call,
and of the passing of time in a timed wait. That is: the mutex is
granted to a thread that keeps asking, functions return, timeouts come. No
client has to call anything. `EveryJobRuns`, `JoinTerminates` and
`DetachedIsFreed` are stated for executions in which pushes stop
(`NoMorePushes`): jobs are taken newest first, so with pushes going on an old one
can wait for ever, and that is what the code does.

`FairSortSpec` assumes weak fairness of `SortNext` as a whole: the operating system
lets the process run. Who runs next is the program's own doing, so no fairness of single
coroutines is assumed; that they all finish is what `ProgramEnds` shows.

## Runs

| run | shows |
|---|---|
| `pool_calls` | 2 clients, 2 tasks, 3 jobs, 2 threads, limit of 3 jobs, every well-behaved call: type invariant, no lost wake-up, some thread for every job, the list ordered, the counters exact, one runner per job, nothing freed early, joins return finished jobs, the pool freed with no thread left |
| `pool_faults` | 2 clients, 2 tasks, 2 jobs, 2 threads with every fault and misuse: the count of active threads survives (that the count of jobs does, and that no wake-up is lost, is proved) |
| `pool_live` | 2 clients, 2 tasks, 2 jobs, 2 threads, fairness: the liveness properties, `JoinedIsDeletable`, and the refinement of `TaskService` with its fairness |
| `fs_files` | 2 names, 3 files, 3 descriptors in an array of 2 slots that doubles, files of at most one byte: reference counts, life of deleted files, the list, the slots, and the refinement of `FlatFS` |
| `fs_blocks` | 1 file, 2 descriptors, blocks of 2 bytes, files of up to 5, two values of a byte: blocks packed and bounded, reads and writes as on a flat file, when `ufs_resize` returns, and the refinement of `FlatFS`, positions left behind a cut included |
| `sort` | 3 files, 3 coroutines, up to 3 numbers in all, with the number that each read adds: the scheduler's list and the running coroutine, the sorts of different coroutines apart, the clocks, the merged result, the end of the program, and the refinement of `CoroService` |
| `heap_calls` | 2 threads, 2 addresses, 4 records, every call and the exit, `realloc` that moves or resizes a block or fails: the table exact, records of different blocks apart, no false alarm, nothing missed in a report that comes out |

Three jobs are the least for which a job can be in the middle of the list, and the
limit of pushes is reached (`TPOOL_MAX_TASKS` is 2 or 3). Two clients are the
least that can join one task together, or delete the pool while another one
joins. Two threads are the least that can race for one job and for the end of
the pool, with a third job waiting behind them.

Three files are the least for which a deleted one, a new one of its name and another
one exist together, and for which one is in the middle of the list. Three
descriptors exceed the first array and allow two on one file beside one on
another. Five bytes are two blocks and an odd rest: every position at, before and
behind the end of a block occurs, and the limit cuts through a block. Positions
are bounded by `MaxOffset`, the writes by `MaxWrite`.

For the sort: three files and three coroutines are the least for which one
coroutine takes two files while another one sorts and a third has ended. Two
numbers with the one that is added make the recursion two deep; a buffer of
two numbers must grow; three nanoseconds to the second make each step
of two carry or not. Three different numbers show any loss or change of order.
The numbers in all files together are bounded by three: the interleaving of
three sorts is in the yields of their calls, not in their values.

For the tracker: two threads are the least that race, and two addresses the least
between which a block can move while the other thread is given the old one.
Four records are as many as blocks and calls can use at once, and leave some in the
pool. The same configuration with three addresses and three records has
8.3 million states and passes as well; it takes longer than a run here should.

Five runs show where the code does less than its documents say (`findings`):

| run | disagreement |
|---|---|
| `timed_then_delete` | a timed join that times out leaves `is_joined` set, and `thread_task_delete` then frees a queued or running job |
| `two_joiners` | one `pthread_cond_signal` for two joiners: one waits for ever |
| `odd_growth` | `ufs_resize` to a larger size that is not a multiple of the block size never returns |
| `stale_position` | `ufs_resize` leaves descriptors behind the new end where they were, and a write from there appends but moves them further behind |
| `realloc_race` | `realloc` frees the old block before its record is dropped: another thread that is given the address loses its record to that drop, and the stale record stays with the wrong size |

Four configurations beside these end in a violation too, and are kept to be run by
hand:

| configuration | disagreement |
|---|---|
| `MCThreadPool_spurious.cfg` | the join waits once, without a loop: a spurious wake-up returns an unfinished job |
| `MCThreadPool_late_signal.cfg` | the worker signals the condition variable of the detached job it has just freed |
| `MCThreadPool_detach_repush.cfg` | a task pushed twice and detached is never freed |
| `MCCoroSort_added.cfg` | `read_numbers_from_file` returns one number more than the file has (line 176), and it is sorted into the result, against task_eng.txt:7-8 |

Code and documents also disagree on smaller things that have no run of their own. In
the thread pool, a timeout of 0 is refused for a finished job, infinity is converted
to `long long`, a failed `pthread_create` is counted as a thread, and a task pushed
twice cannot be deleted after a join. In the file system, `CREATE` with `READ_ONLY`
gives the right to write, a file overwritten often enough takes no more bytes, and
there are the other statuses above. In the sort, the three statuses above, and line
39 allocates a `struct timespec` with the size of a pointer. In the tracker, a
`realloc` in place keeps the old size in the record (line 557 returns early), and one
that fails drops the record of a block that stays, so that the `free` of it ends the
process (555-556; `NoFalseAlarm` excuses exactly these blocks). After the exit has begun
`malloc` and `calloc` only stop recording, but a `strdup` of a thread that still runs
ends the process (511), and then there may be no report: `ReportExact` is about a
report that was made.

### Hazards beyond the list

`PROJECT.json` lists at most forty hazards. These are real as well and have no
property: in the thread pool, two pushes before the first worker has taken its job
count one active thread (172, one thread does the work of two); a finished job
counts against `TPOOL_MAX_TASKS` until its task is deleted (164); a timeout of 0
never looks at the job (348); a task pushed to two pools is unlinked from the newest
one only (388); `get_tp_task` reads `task->list` without the mutex (247); a
push into a pool that is being deleted (141); worker threads are neither joined nor
detached (174). In the file system: a write of no bytes into an empty file (215);
no `malloc` is checked (523). The first one is visible in `ActiveCntExact`, the others are
outside of what the models let callers do.

## Proofs

`ThreadPoolProofs` proves, for any number of clients, tasks, jobs and threads:

| theorem | of | needs |
|---|---|---|
| `TypeCorrect` | `TypeInv`: the types (`Typed`), and a client has a job exactly while it joins one | nothing: every `Env` |
| `TypeOKAlways` | `TypeOK`: `Typed`, and the flags belong to allocated jobs | nothing: every `Env` |
| `NoLostWakeupAlways` | `NoLostWakeup` | nothing |
| `ThreadsBounded` | threads within `threads_cnt`, none without a pool | nothing |
| `TasksCntExactAlways` | `TasksCntExact` | nothing |
| `PoolFreedQuiescentAlways` | `PoolFreedQuiescent` | nothing |
| `OneRunnerAlways` | `OneRunner` | `"early_delete" \notin Env` |
| `FreedAfterRunAlways` | `FreedAfterRun` | `"early_delete" \notin Env` |
| `OnlyLateSignalAlways` | `OnlyLateSignal` | `"early_delete" \notin Env` |
| `ListAlways` | `ListHoldsAll`, `UnpickedFirst` | `"early_delete" \notin Env` |
| `ActiveCntExactAlways` | `ActiveCntExact` | nothing |
| `ThreadsCntExactAlways` | `ThreadsCntExact` | `"create_fails" \notin Env` |
| `SomeWorkerAlways` | `SomeWorker` | `"create_fails" \notin Env` |
| `JoinReturnsFinishedAlways` | `JoinReturnsFinished` | no `early_delete`, `spurious`, `huge` |
| `JoinedIsDeletableAlways` | `JoinedIsDeletable` | no `early_delete`, `repush` |
| `PoolIsService` | `IsService`: `ThreadPool` implements the safety part of `TaskService` | `"early_delete" \notin Env` |

The assumption about `early_delete` is necessary: `timed_then_delete` is the
counterexample without it; `MCThreadPool_spurious.cfg` is the one for the wait of a
join, and a `pthread_create` that fails is counted as a thread by the code. The only assumption on the constants is
`ThreadPoolAssumption` (positive limits, finitely many addresses).

The argument: `TypeInv` (types, and a client has a job exactly while it joins
one) is inductive by itself. On it stand four independent invariants:
`NoLostWakeup`; `ThreadInv`, which places the threads in the first `threads_cnt`
slots so that a new thread never takes the slot of a running one; `CloserInv` and
`CountInv` for the count of jobs and the end of the pool; `OrderInv`, that the list
relates only allocated jobs. With the last one goes `LiveInv`, that no field outlives its
job: flags belong to allocated jobs (`FlagInv`), only the newest job of a task is
detached (`TaskInv`), and joins are about allocated jobs of tasks not detached (`JoinInv`).
`CareInv` adds to `LiveInv` what is true of memory when no client deletes early: a
worker holds a job exactly while it runs and the flag `is_running` says so (`RunInv`),
and the older jobs of a detached task that were joined are finished (`DetachInv`,
without which the worker's own `delete_task` could free a job of another worker). From it follow
the three theorems on runners and freed memory, and, with `OrderInv`, that the
picked job is always the head of the list.

`ActiveInv` counts the threads inside a function; with it a push that finds no thread
finds both counters at zero, and so makes one (`PushFindsThread`). `WokenInv` says that
a client out of its wait was signalled for a job that is finished; that the job is
still there is `JoinInv`. `OldJobsInv` says that all jobs of a task but the newest were
joined and are finished. The refinement (`CallServes`, `ContinueServes`, `WorkServes`)
takes the whole of it: `KnownIsLive` makes the list that `get_task` walks the set of jobs
without a flag, `PickHasRoom` bounds the running jobs by the threads, `CountInv` and
`CloserInv` show that nothing is known when the pool is closed, and
`DetachedFreesFinished` that the worker's own `delete_task` forgets only what is done.

`UserFSProofs` proves, for any number of names, files, slots and flags and any size of
blocks and files:

| theorem | of |
|---|---|
| `RefsExactAlways` | `RefsExact` |
| `LiveExactlyAlways` | `LiveExactly` |
| `ListSoundAlways` | `ListSound` |
| `SlotsCountedAlways` | `SlotsCounted` |
| `BlocksPackedAlways` | `BlocksPacked` |
| `SizeBoundedAlways` | `SizeBounded` |
| `ReadIsFlatAlways` | `ReadIsFlat` |
| `ResizeReturnsUnlessOddAlways` | `ResizeReturnsUnlessOdd` |
| `TypeOKAlways` | `TypeOK` |
| `IsFlatFSHolds` | `IsFlatFS`: `UserFS` implements `FlatFS` |

The assumptions are `UserFSAssumption` (limits are numbers, addresses are finitely
many and are not `NULL` or `WILD`), `BlocksAssumption` (a block has room for
a byte) and `NullAssumption` (`NULL` is not the record of a descriptor either).

The invariant `Inv` joins the types of the variables concerned, the list (`ListInv`),
the counts together with "allocated means listed or open" (`RefInv`), and that
slots behind the end of the array are not in use (`SlotInv`). `LiveExactly` is not
inductive without the counts, because a close decides by the count
whether to free, and the counts are not without `SlotInv`: a slot taken twice would
lose a reference. `GetFdFree` is the lemma that no open slot is ever taken, and
`UnlinkedRest` that unlinking a file keeps the rest of the list.

What the blocks contain is a matter of the three loops, which are recursive functions.
The library's induction theorems take an operator as a parameter, which the provers at
hand cannot instantiate, so `RecursionProofs` states what is needed about sets and
functions instead: a function whose definition looks only at arguments of smaller
measure satisfies that definition (`Recursion`), and a set that has each element below
which it has all has every element (`MeasureInduction`). The measures are what a
loop still has before it: `WriteLoop` the data and the blocks it has not passed,
`ReadLoop` the blocks, `ResizeLoop` the bytes and the blocks. `BlocksProofs` then says
of each loop what it does to the bytes of the file, from the state of any round:

| theorem | of |
|---|---|
| `ReadingIs` | what `ufs_read` delivers is that part of the file's bytes |
| `WrittenIs` | `ufs_write` overwrites the bytes at the position, or appends; the blocks stay packed, and no empty block is left at the end that was not there |
| `ResizedIs` | `ufs_resize` returns unless the size is odd and not below the file's; then the bytes are cut and no more blocks are left than the size needs |

All three rest on the blocks being packed: with a gap in the middle a position of the
descriptor and a position in the bytes would differ. So `DataInv` of `UserFSProofs`
has, for each file, that it is packed, that its bytes and `bytes_left` together are within
`MAX_FILE_SIZE`, and that its last block begins before it; `BlocksNeeded` is the
arithmetic between the two. `ReadIsFlat`, `SizeBounded` and the others are its consequences.

The refinement joins everything: a name of `FlatFS` is the listed file of that name
(`DirIs`, from `ListInv`), a descriptor the fields of its slot (`TableIs`), and a file is
reachable exactly while it is allocated (`UseIs`, from `RefInv`), so that freeing is what
`FlatFS` calls forgetting (`FlatFree`). One lemma for each call (`FlatCreate`,
`FlatWrite`, `FlatClose`, ...) maps it to one step of `FlatFS` or to none.

`CoroProofs` proves, for any number of coroutines and any program that uses the
library, from `CoroAssumption` alone:

| theorem | of |
|---|---|
| `ListExactAlways` | `ListExact`: the list from its head, followed by `next` and back by `prev`, is the coroutines created and not returned, each once |
| `OnlyLiveRunsAlways` | `OnlyLiveRuns` |
| `ServiceImplemented` | `IsService`: `Coro` implements `CoroService` |

The invariant joins the types, the list and who may run. None of the three is
inductive alone: `coro_yield` follows `next` without a look at `is_finished`, so that
it leads to a live coroutine needs that the list holds only unreturned
coroutines and that a finished one is alone; and that one stays alone because
`coro_sched_wait` takes it out before it resumes anyone.

`CoroSortProofs` proves that each behaviour of the program is one of `Coro`
(`SortOverCoro`: `SortSpec => Spec`), and carries the theorems over:
`SortOnlyLiveRuns` and `SortServiceImplemented`. Its own results are, for any number of
coroutines and any files,

| theorem | of |
|---|---|
| `OneSorterAlways` | `OneSorter` |
| `FilesSortedAlways` | `FilesSorted` |
| `NoLeakAlways` | `NoLeak` |
| `WorkTimeExactAlways` | `WorkTimeExact` |
| `FairTurnsAlways` | `FairTurns` |

The assumptions are `CoroAssumption`, `CoroSortAssumption` (a coroutine is the number of
its creation, the numbers are integers, garbage is no valid pointer) and
`MergeSortAssumption` (the length of the first buffer and the nanoseconds of a second are positive).

`OneSorter` says that no file is sorted by two coroutines nor again after it was
sorted. The invariant relates the common index to the files at hand: every
file taken is below the index, files at hand differ, and the destination of a
file at or above the index, or at hand, is still unset. `WorkTimeExactAlways` proves
`WorkTimeExact`: the carries of the difference and of the sum of two times cancel, for
any number of nanoseconds to the second. `FairTurnsAlways` proves `FairTurns` from
an exact count (`TurnInv`): of two coroutines of the list the later one is ahead by the
number of coroutines between them that have ended, and by one while the turn is
between them. That needs the list to be in the order of creation (`DescInv`) and nobody to run
before the last one is made (`BeginInv`).

What is sorted rests on `MergeSortProofs`, about arrays of any length:

| theorem | of |
|---|---|
| `ReadNumbersIs` | `ReadNumbers` is the file and one number of the buffer, however often it was doubled |
| `MergeIs` | `Merge` of two arrays in order is in order and has each number as often as both together |
| `OrderSorts` | the calls of `PostOrder`, made one after the other, leave one array more, their part in order |

`Merge` recurs on a pair of positions and `PostOrder` on a length, so both go through
`Recursion` and `MeasureInduction`, with what is left before the positions, and the
length, as measures. Between two calls of one sort any other coroutine may run; what the
first has yet to do is `Sorting(calls, numbers, sorted)`: the calls that are left, made
on the arrays at hand, would leave one array that is in order and has the numbers. Each
call keeps that (`SortingGoes`), and with none left it is the result
(`SortingEnds`). `NumbersInv` then says where the numbers of each file are: a
file that was taken is in hand of a coroutine that lives, whose array is the file and one
number more, or its destination delivers it (`Delivers`); and nobody ends
before all files were taken, so that main finds every destination set when it collects
them (`CollectNumbers`). `FlattenExceeds` adds the lengths and counts up over the files.
`FilesSorted` alone is not inductive: it says nothing of the files in hand.

`NoLeak` speaks of the end only; `LeakInv` counts before it. A coroutine holds nothing,
two, five, or six blocks and its arrays, by its state and whether it is at a file
(`Held`); `blocks` is the sum of these (the size of the set `Rows`), three of main
and one for each file taken, which is the numbers read and then their sorted array. For
the sum to be right when a file is delivered, one array must be left at the end of
its sort (`AtLoopDelivers`), and the field `prev_timestamp` must be a valid time in
every coroutine at a file, since what it frees is counted. That the first
`set_coro_timestamp` frees a wild pointer ends the program in the model, and is
not excluded by the theorem.

`HeapHelpProofs` proves, for any number of threads, addresses and records and
everything `Env` allows, from `HeapHelpAssumption` alone:

| theorem | of |
|---|---|
| `TypeOKAlways` | `TypeOK` |
| `RecordsApartAlways` | `RecordsApart` |
| `TableExactAlways` | `TableExact` |
| `NoFalseAlarmAlways` | `NoFalseAlarm` |
| `ReportExactAlways` | `ReportExact` |

`NoFalseAlarm` is far from inductive. One would like to say that the record a call
will drop is there; but several calls can owe one address a drop at the same time,
when its block was moved away again and again, and any of them may take the record
of any other. So the argument counts. `Balance(q)` is the difference between the
records of an address and what `TableExact` says they should be; each action of one
thread leaves it at zero (`AccountStep`, `BlockStep`, `DropStep`). `OwnInv` says that a
live block is held by the callers or is in the hand of one call. From the two,
`EnoughRecords`: an address has at least as many records as calls that will drop one.
At the exit the balance ends, because blocks are no longer recorded; from then on no
call begins that will drop a record, so the surplus that was there stays
(`Surplus`). A thread that finds no record is then one whose address has lost it to a
`realloc` that failed.

`ReportExact` needs `EndInv` beside it: no block is lost, for a caller has it or the
call that hands it out or frees it (`HandInv`). So at the exit the balance of an address
that is in no call says that it has one record if a caller holds its block, and none
otherwise (`ExitSettles`). From then on only calls that were under way touch the records
of an address, and all of those addresses are in `at_exit.busy` (`TiedInv`), which keeps
that table until the report reads it (`KeptInv`). A `strdup` after the exit changes none of
this: it ends the process. The count is right because the list
has no record twice and `alloc_count` is its length.

Every invariant the passing runs check is the subject of a theorem; `ListExact`, which is
proved for any program, is in no run. Only model-checked is
what needs fairness: `EveryJobRuns`, `JoinTerminates`, `DetachedIsFreed`,
`PoolDeleteReturns`, `ProgramEnds` and the fair refinement `IsFairService` (liveness and
`ENABLED` are beyond the provers at hand).

## Not modelled

The tests and the unit-test macros are drivers of the code above; the generator
and the checker of the sort are scripts that read and write files. Inside the
components, what is left out is named with each of them above: values returned, queries
that only read, failures of `malloc` in the libraries, printing.

## What is left

1. The list of the pool with `last_task`, `next` and `prev` as in the code, shown to
   implement the relation `order` of `ThreadPool`; two pools with a task in both.
2. The list of files of `UserFS` as pointers; it is a sequence here.
