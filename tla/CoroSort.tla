------------------------------ MODULE CoroSort ------------------------------
(***************************************************************************)
(* The program homework01/solution.c, a client of libcoro: main creates    *)
(* coroutines, each sorts files it takes from a common index and yields in *)
(* each call of its recursive sort, and main sorts the sorted files once   *)
(* more.  A step is what one context does between two switches.            *)
(*                                                                         *)
(* Coroutine i is the i-th one that main creates.  calls[c] are the calls  *)
(* of get_sorted_numbers that c still has to finish, sorted[c] the arrays  *)
(* that finished ones returned to calls that wait for them.                *)
(***************************************************************************)
EXTENDS Coro, MergeSort, SequencesExt

CONSTANTS
    Values,     \* the numbers in files, and in memory nobody has written
    MaxFiles,   \* bound: files on the command line
    MaxLen,     \* bound: numbers in a file
    MaxNumbers, \* bound: numbers in all of them
    Ticks,      \* bound: how long a step may take
    WILD        \* what malloc left in a pointer

ASSUME CoroSortAssumption ==
    /\ Coros = 1 .. Cardinality(Coros)
    /\ Values \subseteq Int /\ Values # {}
    /\ MaxFiles \in Nat /\ MaxLen \in Nat /\ MaxNumbers \in Nat /\ Ticks \subseteq Nat
    /\ WILD \notin TimeSpec \cup {NULL} /\ NULL \notin TimeSpec

VARIABLES
    input,          \* the files on the command line
    coros_total,    \* the number given there
    made,           \* coroutines created so far
    next_file_idx,
    destinations,   \* file -> the sorted array, NULL before
    file,           \* coroutine -> the file it is at, 0 for none yet
    numbers, calls, sorted,             \* context -> the state of its sort
    prev_timestamp, coro_work_time,     \* coroutine -> field of its my_context
    clock,          \* the monotonic clock
    worked,         \* coroutine -> the time its steps took
    blocks,         \* number of blocks from malloc that were not freed
    result,         \* what result.txt gets
    phase           \* where main is, or what went wrong

sortVars == <<numbers, calls, sorted>>
timeVars == <<prev_timestamp, coro_work_time, clock, worked>>
argVars  == <<input, coros_total>>
vars     == <<coroVars, sortVars, timeVars, argVars, made, next_file_idx, destinations,
              file, blocks, result, phase>>

files_total == Len(input)
FileIdx     == 1 .. files_total
Contents    == UNION {[1 .. n -> Values] : n \in 0 .. MaxLen}
Phases      == {"coros", "merge", "done",
                "wild free",            \* set_coro_timestamp frees what malloc left there
                "unset destinations",   \* no coroutine has set them
                "endless recursion"}    \* the sort of an array of length 0

SortInit ==
    /\ Init
    /\ input \in UNION {[1 .. n -> Contents] : n \in 0 .. MaxFiles}
    /\ Len(FlattenSeq(input)) <= MaxNumbers
    /\ coros_total \in 0 .. Cardinality(Coros)
    /\ made = 0
    /\ next_file_idx = 0
    /\ destinations = [f \in FileIdx |-> NULL]
    /\ file = [c \in Coros |-> 0]
    /\ numbers = [c \in Contexts |-> << >>]
    /\ calls = [c \in Contexts |-> << >>]
    /\ sorted = [c \in Contexts |-> << >>]
    /\ prev_timestamp = [c \in Coros |-> NULL]
    /\ coro_work_time = [c \in Coros |-> Time(0)]
    /\ clock = 0
    /\ worked = [c \in Coros |-> 0]
    /\ blocks = 3       \* program_start_timestamp, destinations, next_file_idx
    /\ result = NULL
    /\ phase = "coros"

-----------------------------------------------------------------------------
(* main: creates the coroutines and waits for them                         *)

\* my_context_new and coro_new: three blocks of the context, one for the struct
\* coro and one for its stack.  prev_timestamp is not set.
CreateCoro ==
    /\ made < coros_total
    /\ New(made + 1)
    /\ made' = made + 1
    /\ \E garbage \in {NULL, WILD} : prev_timestamp' = [prev_timestamp EXCEPT ![made + 1] = garbage]
    /\ blocks' = blocks + 5
    /\ UNCHANGED <<sortVars, coro_work_time, clock, worked, argVars, next_file_idx,
                   destinations, file, result, phase>>

Wait ==
    /\ made = coros_total
    /\ \A c \in Coros : life[c] # "returned"
    /\ WaitResume \/ \E c \in Coros : WaitReturn(c)
    /\ UNCHANGED <<sortVars, timeVars, argVars, made, next_file_idx, destinations, file,
                   blocks, result, phase>>

DeleteCoro(c) ==
    /\ Delete(c)
    /\ blocks' = blocks - 2
    /\ UNCHANGED <<sortVars, timeVars, argVars, made, next_file_idx, destinations, file,
                   result, phase>>

\* All coroutines are gone: the sorted files go into one array to be sorted.
Collected == FlattenSeq(destinations)

Collect ==
    /\ made = coros_total
    /\ \A c \in Coros : life[c] # "returned"
    /\ WaitNone
    /\ IF files_total = 0 THEN phase' = "endless recursion" /\ UNCHANGED <<sortVars, blocks>>
       ELSE IF coros_total = 0 THEN phase' = "unset destinations" /\ UNCHANGED <<sortVars, blocks>>
       ELSE /\ phase' = "merge"
            /\ numbers' = [numbers EXCEPT ![SCHED] = Collected]
            /\ calls' = [calls EXCEPT ![SCHED] = PostOrder[Len(Collected)]]
            /\ blocks' = blocks + 1 - 2 - files_total
            /\ UNCHANGED sorted
    /\ UNCHANGED <<timeVars, argVars, made, next_file_idx, destinations, file, result>>

-----------------------------------------------------------------------------
(* get_sorted_numbers                                                      *)

\* What one call, up to its yield, does to the blocks.
BadBlocksOf(call) == IF IsLeaf(call) THEN 1 ELSE 0
BlocksOf(call) == IF IsLeaf(call) THEN 1 ELSE 1 - 2

\* The context c, its numbers being array, finishes the first of todo.
FinishCall(c, array, todo, done) ==
    /\ numbers' = [numbers EXCEPT ![c] = array]
    /\ sorted' = [sorted EXCEPT ![c] = SortedBy(Head(todo), array, done)]
    /\ calls' = [calls EXCEPT ![c] = Tail(todo)]
    /\ Yield

BadStamp(c) == IF prev_timestamp[c] = NULL THEN Time(clock) ELSE prev_timestamp[c]
\* set_coro_timestamp as c goes on, which may be for the first time.
Stamp(c) == Time(clock)
BlocksOfStamp(c) == IF prev_timestamp[c] = NULL THEN 1 ELSE 0

\* The step of c takes some time, and update_coro_work_time is called at its end.
Work(c) ==
    \E d \in Ticks :
        /\ clock' = clock + d
        /\ worked' = [worked EXCEPT ![c] = @ + d]
        /\ prev_timestamp' = [prev_timestamp EXCEPT ![c] = Stamp(c)]
        /\ coro_work_time' = [coro_work_time EXCEPT ![c] =
               AddTime(@, get_time_diff(Stamp(c), Time(clock + d)))]

-----------------------------------------------------------------------------
(* coroutine_func_f                                                        *)

Runs(c) == coro_this = c /\ prev_timestamp[c] # WILD
\* The sort of the file at hand is over, or there was none yet.
AtLoop(c) == calls[c] = << >>

\* The sorted array becomes the destination; the numbers read are freed.
Delivered(c) ==
    IF file[c] = 0 THEN destinations ELSE [destinations EXCEPT ![file[c]] = sorted[c][1]]
FreedAtLoop(c) == IF file[c] = 0 THEN 0 ELSE 1

SortOn(c) ==
    /\ Runs(c)
    /\ ~AtLoop(c)
    /\ FinishCall(c, numbers[c], calls[c], sorted[c])
    /\ blocks' = blocks + BlocksOf(Head(calls[c]))
    /\ Work(c)
    /\ UNCHANGED <<argVars, made, next_file_idx, destinations, file, result, phase>>

BadClaimed == next_file_idx
\* The value of the common index once a file was taken.
Claimed == next_file_idx + 1

TakeFile(c) ==
    /\ Runs(c)
    /\ AtLoop(c)
    /\ next_file_idx < files_total
    /\ next_file_idx' = Claimed
    /\ file' = [file EXCEPT ![c] = next_file_idx + 1]
    /\ destinations' = Delivered(c)
    /\ \E garbage \in Values :
          LET array == ReadNumbers(input[next_file_idx + 1], garbage)
              todo  == PostOrder[Len(array)]
          IN /\ FinishCall(c, array, todo, << >>)
             /\ blocks' = blocks + BlocksOfStamp(c) - FreedAtLoop(c) + 1 + BlocksOf(Head(todo))
    /\ Work(c)
    /\ UNCHANGED <<argVars, made, result, phase>>

\* my_context_delete frees four blocks, and the coroutine ends.
Leave(c) ==
    /\ Runs(c)
    /\ AtLoop(c)
    /\ next_file_idx >= files_total
    /\ destinations' = Delivered(c)
    /\ blocks' = blocks + BlocksOfStamp(c) - FreedAtLoop(c) - 4
    /\ Work(c)
    /\ Finish
    /\ UNCHANGED <<sortVars, argVars, made, next_file_idx, file, result, phase>>

\* The first set_coro_timestamp frees a pointer that was never set.
StartWild(c) ==
    /\ coro_this = c
    /\ prev_timestamp[c] = WILD
    /\ phase' = "wild free"
    /\ UNCHANGED <<coroVars, sortVars, timeVars, argVars, made, next_file_idx, destinations,
                   file, blocks, result>>

-----------------------------------------------------------------------------
(* main: the last sort, where it yields to itself                          *)

SortAll ==
    /\ calls[SCHED] # << >>
    /\ FinishCall(SCHED, numbers[SCHED], calls[SCHED], sorted[SCHED])
    /\ blocks' = blocks + BlocksOf(Head(calls[SCHED]))
    /\ UNCHANGED <<timeVars, argVars, made, next_file_idx, destinations, file, result, phase>>

\* The result is written; all_numbers, it and the times of main are freed.
WriteResult ==
    /\ calls[SCHED] = << >>
    /\ result' = sorted[SCHED][1]
    /\ phase' = "done"
    /\ blocks' = blocks - 2 + 2 - 3
    /\ UNCHANGED <<coroVars, sortVars, timeVars, argVars, made, next_file_idx, destinations, file>>

SortNext ==
    \/ /\ phase = "coros"
       /\ \/ CreateCoro \/ Wait \/ Collect
          \/ \E c \in Coros : \/ DeleteCoro(c)
                              \/ SortOn(c) \/ TakeFile(c) \/ Leave(c) \/ StartWild(c)
    \/ phase = "merge" /\ (SortAll \/ WriteResult)

SortSpec == SortInit /\ [][SortNext]_vars
\* The operating system lets the process run.
FairSortSpec == SortSpec /\ WF_vars(SortNext)

-----------------------------------------------------------------------------
(* Properties                                                              *)

\* s is in order, has all numbers of given, and one more for each of that many files.
SortOf(s, given, files) ==
    /\ Ascending(s)
    /\ Len(s) = Len(given) + files
    /\ \A v \in Values : Count(s, v) >= Count(given, v)

\* However the coroutines interleave and however reads grow their buffers, each
\* sorted file, and the result, is in order and has lost no number
\* (coroutine_func_f 63-76, main 126-136).  Each file adds one number nobody wrote:
\* task_eng.txt:7-8 says "Each file should be sorted, and then results should be
\* merged into a new file.", but solution.c:176 returns idx + 1 numbers.
FilesSorted ==
    /\ \A f \in FileIdx : destinations[f] # NULL => SortOf(destinations[f], input[f], 1)
    /\ phase = "done" => SortOf(result, FlattenSeq(input), files_total)

\* Two coroutines never sort the same file, nor a file that is sorted: the
\* index is read and increased without a yield in between (63-66).
OneSorter ==
    \A c \in Coros : file[c] # 0 /\ life[c] = "ready" =>
        /\ destinations[file[c]] = NULL
        /\ \A d \in Coros : file[d] = file[c] => d = c

\* A turn goes round the list: of two coroutines the one created later is ahead,
\* by one turn, and one more for each coroutine before the other that finished,
\* because the scheduler then starts again at the head (coro_sched_wait 131-141).
FairTurns ==
    \A c, d \in Listed : c > d =>
        switch_count[c] - switch_count[d]
            \in 0 .. 1 + Cardinality({e \in Coros : e > d /\ e <= made /\ life[e] # "ready"})

\* coro_work_time is the time its coroutine has run, without the time of others
\* while it was inside coro_yield (task_eng.txt:135-137), over each carry.
WorkTimeExact == \A c \in Coros : coro_work_time[c] = Time(worked[c])

\* homework01/README.md:4 "no memory leaks": all blocks are freed in the end.
NoLeak == phase = "done" => blocks = 0

\* Every coroutine finishes, every file is sorted and the program ends, unless it
\* comes to undefined behaviour.
ProgramEnds == <>(phase \notin {"coros", "merge"})

\* task_eng.txt:7-8: each file is sorted and the results are merged into one, with
\* no number that is in none of them.  What solution.c:176 returns breaks it.
NothingAdded == phase = "done" => Len(result) = Len(FlattenSeq(input))
=============================================================================
