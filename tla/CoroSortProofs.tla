--------------------------- MODULE CoroSortProofs ---------------------------
(***************************************************************************)
(* The program uses the library as Next of Coro allows, so what CoroProofs *)
(* shows holds of it too; and, for any number of coroutines and files, no  *)
(* two coroutines sort one file, what is sorted is in order and whole, the *)
(* times are those it ran, turns are fair, and no memory is left.          *)
(***************************************************************************)
EXTENDS CoroSort, CoroProofs, MergeSortProofs

USE CoroSortAssumption

\* Main makes coroutines in their order; those to come are free and have no file.
MadeInv ==
    /\ made \in Nat /\ coros_total \in 0 .. Cardinality(Coros)
    /\ \A c \in Coros : c > made => life[c] = "free" /\ file[c] = 0

\* Files were taken up to next_file_idx, by one coroutine each, and a file that is
\* sorted is not at hand for one that runs on.
FileInv ==
    /\ files_total \in Nat /\ next_file_idx \in 0 .. files_total
    /\ DOMAIN destinations = FileIdx
    /\ file \in [Coros -> 0 .. next_file_idx]
    /\ \A c, d \in Coros : file[c] = file[d] /\ file[c] # 0 => c = d
    /\ \A f \in FileIdx : destinations[f] # NULL =>
          f <= next_file_idx /\ \A c \in Coros : file[c] = f => life[c] # "ready"

SortInv == CoroInv /\ MadeInv /\ FileInv

LEMMA CorosAre == Cardinality(Coros) \in Nat /\ Coros = 1 .. Cardinality(Coros)
BY CoroAssumption, FS_CardinalityType

LEMMA SortInitInv == SortInit => SortInv
<1> SUFFICES ASSUME SortInit PROVE SortInv
  OBVIOUS
<1>1. CoroInv
  BY CoroInit DEF SortInit
<1>2. MadeInv
  BY CorosAre DEF SortInit, Init, MadeInv
<1>3. files_total \in Nat
  BY DEF SortInit, files_total
<1>4. FileInv
  BY <1>3 DEF SortInit, FileInv, FileIdx
<1> QED  BY <1>1, <1>2, <1>4 DEF SortInv

\* Every step of the program is one of the library, or none of its business.
LEMMA StepOverCoro ==
    ASSUME SortInv, [SortNext]_vars
    PROVE  [Next]_coroVars
<1>1. CASE CreateCoro
  <2>1. made + 1 \in Coros
    BY <1>1, CorosAre DEF CreateCoro, SortInv, MadeInv
  <2> QED  BY <1>1, <2>1 DEF CreateCoro, Next
<1>2. CASE Wait
  BY <1>2 DEF Wait, Next
<1>3. CASE Collect
  BY <1>3 DEF Collect, Next
<1>4. ASSUME NEW c \in Coros, DeleteCoro(c) PROVE Next
  BY <1>4 DEF DeleteCoro, Next
<1>5. ASSUME NEW c \in Coros, SortOn(c) PROVE Next
  BY <1>5 DEF SortOn, FinishCall, Next
<1>6. ASSUME NEW c \in Coros, TakeFile(c) PROVE Next
  BY <1>6 DEF TakeFile, FinishCall, Next
<1>7. ASSUME NEW c \in Coros, Leave(c) PROVE Next
  BY <1>7 DEF Leave, Next
<1>8. ASSUME NEW c \in Coros, StartWild(c) PROVE UNCHANGED coroVars
  BY <1>8 DEF StartWild
<1>9. CASE SortAll
  BY <1>9 DEF SortAll, FinishCall, Next
<1>10. CASE WriteResult
  BY <1>10 DEF WriteResult
<1>11. CASE UNCHANGED vars
  BY <1>11 DEF vars
<1> QED  BY <1>1, <1>2, <1>3, <1>4, <1>5, <1>6, <1>7, <1>8, <1>9, <1>10, <1>11 DEF SortNext

\* Steps that take no file and make no coroutine, and after which none lives that
\* did not before, keep the files apart.
LEMMA FilesStay ==
    ASSUME SortInv, UNCHANGED <<argVars, made, next_file_idx, file, destinations>>,
           \A c \in Coros : /\ life'[c] = "ready" => life[c] = "ready"
                            /\ life[c] = "free" => life'[c] = "free"
    PROVE  MadeInv' /\ FileInv'
<1>1. files_total' = files_total /\ FileIdx' = FileIdx
  BY DEF argVars, files_total, FileIdx
<1>2. MadeInv'
  BY DEF SortInv, MadeInv, argVars
<1>3. FileInv'
  BY <1>1 DEF SortInv, FileInv
<1> QED  BY <1>2, <1>3

LEMMA SortStepInv == SortInv /\ [SortNext]_vars => SortInv'
<1> SUFFICES ASSUME SortInv, [SortNext]_vars PROVE SortInv'
  OBVIOUS
<1>0. CoroInv'
  BY StepOverCoro, CoroStep DEF SortInv
<1>t. /\ life \in [Coros -> {"free", "ready", "finished", "returned"}]
      /\ \A c \in Coros : coro_this = c => life[c] = "ready"
  BY DEF SortInv, CoroInv, TypeOK, OnlyLiveRuns
<1>1. CASE CreateCoro
  <2>1. made + 1 \in Coros /\ made' = made + 1
    BY <1>1, CorosAre DEF CreateCoro, SortInv, MadeInv
  <2>2. life' = [life EXCEPT ![made + 1] = "ready"] /\ file[made + 1] = 0
    BY <1>1, <2>1, CorosAre DEF CreateCoro, New, SortInv, MadeInv
  <2>3. /\ UNCHANGED <<argVars, next_file_idx, file, destinations>>
        /\ files_total' = files_total /\ FileIdx' = FileIdx
    BY <1>1 DEF CreateCoro, argVars, files_total, FileIdx
  <2>4. MadeInv'
    BY <1>t, <2>1, <2>2, <2>3, CorosAre DEF SortInv, MadeInv, argVars
  <2>5. FileInv'
    <3>1. ASSUME NEW f \in FileIdx, destinations[f] # NULL, NEW c \in Coros, file[c] = f
          PROVE  life'[c] # "ready"
      <4>1. life[c] # "ready"
        BY <3>1 DEF SortInv, FileInv
      <4>2. f # 0
        BY <2>3 DEF FileIdx, SortInv, FileInv
      <4>3. c # made + 1
        BY <2>2, <3>1, <4>2
      <4>4. life'[c] = life[c]
        BY <1>t, <2>2, <4>3
      <4> QED  BY <4>1, <4>4
    <3>2. /\ files_total' \in Nat /\ next_file_idx' \in 0 .. files_total'
          /\ DOMAIN destinations' = FileIdx'
          /\ file' \in [Coros -> 0 .. next_file_idx']
          /\ \A c, d \in Coros : file'[c] = file'[d] /\ file'[c] # 0 => c = d
      BY <2>3 DEF SortInv, FileInv
    <3>3. \A f \in FileIdx' : destinations'[f] # NULL =>
             f <= next_file_idx' /\ \A c \in Coros : file'[c] = f => life'[c] # "ready"
      BY <2>3, <3>1 DEF SortInv, FileInv
    <3> QED  BY <3>2, <3>3 DEF FileInv
  <2> QED  BY <1>0, <2>4, <2>5 DEF SortInv
<1>2. CASE Wait
  <2>1. \A c \in Coros : /\ life'[c] = "ready" => life[c] = "ready"
                         /\ life[c] = "free" => life'[c] = "free"
    BY <1>2, <1>t DEF Wait, WaitResume, WaitReturn, Finished
  <2> QED  BY <1>0, <1>2, <2>1, FilesStay DEF Wait, SortInv
<1>3. CASE Collect
  BY <1>0, <1>3, FilesStay DEF Collect, WaitNone, SortInv
<1>4. ASSUME NEW c \in Coros, DeleteCoro(c) PROVE SortInv'
  <2>1. \A d \in Coros : /\ life'[d] = "ready" => life[d] = "ready"
                         /\ life[d] = "free" => life'[d] = "free"
    BY <1>4, <1>t DEF DeleteCoro, Delete
  <2> QED  BY <1>0, <1>4, <2>1, FilesStay DEF DeleteCoro, SortInv
<1>5. ASSUME NEW c \in Coros, SortOn(c) PROVE SortInv'
  BY <1>0, <1>5, FilesStay DEF SortOn, FinishCall, Yield, SortInv
<1>6. ASSUME NEW c \in Coros, TakeFile(c) PROVE SortInv'
  <2>1. /\ coro_this = c /\ next_file_idx < files_total
        /\ next_file_idx' = next_file_idx + 1
        /\ file' = [file EXCEPT ![c] = next_file_idx + 1]
        /\ destinations' = Delivered(c)
        /\ life' = life /\ UNCHANGED <<argVars, made>>
    BY <1>6 DEF TakeFile, Runs, Claimed, FinishCall, Yield
  <2>2. files_total' = files_total /\ FileIdx' = FileIdx
    BY <2>1 DEF argVars, files_total, FileIdx
  <2>3. ~ (c > made)
    BY <1>t, <2>1 DEF SortInv, MadeInv
  <2>4. MadeInv'
    BY <2>1, <2>3, CorosAre DEF SortInv, MadeInv, FileInv, argVars
  <2>5. /\ DOMAIN Delivered(c) = FileIdx
        /\ \A f \in FileIdx : f # file[c] => Delivered(c)[f] = destinations[f]
    BY DEF Delivered, SortInv, FileInv
  <2>6. /\ file' \in [Coros -> 0 .. next_file_idx + 1]
        /\ \A d, e \in Coros : file'[d] = file'[e] /\ file'[d] # 0 => d = e
    BY <2>1 DEF SortInv, FileInv
  <2>7. ASSUME NEW f \in FileIdx, destinations'[f] # NULL
        PROVE  f <= next_file_idx /\ \A d \in Coros : file'[d] = f => life[d] # "ready"
    <3>1. CASE f = file[c]
      <4>1. f # 0 /\ f \in 0 .. next_file_idx /\ next_file_idx \in Nat
        BY <3>1 DEF FileIdx, SortInv, FileInv
      <4>2. file'[c] = next_file_idx + 1
        BY <2>1 DEF SortInv, FileInv
      <4>3. \A d \in Coros : d # c => file'[d] = file[d] /\ file[d] # f
        BY <2>1, <3>1, <4>1 DEF SortInv, FileInv
      <4> QED  BY <4>1, <4>2, <4>3
    <3>2. CASE f # file[c]
      BY <2>1, <2>5, <2>7, <3>2 DEF SortInv, FileInv
    <3> QED  BY <3>1, <3>2
  <2>8. FileInv'
    BY <2>1, <2>2, <2>5, <2>6, <2>7 DEF SortInv, FileInv, FileIdx
  <2> QED  BY <1>0, <2>4, <2>8 DEF SortInv
<1>7. ASSUME NEW c \in Coros, Leave(c) PROVE SortInv'
  <2>1. /\ coro_this = c /\ destinations' = Delivered(c)
        /\ life' = [life EXCEPT ![c] = "finished"]
        /\ UNCHANGED <<argVars, made, next_file_idx, file>>
    BY <1>7 DEF Leave, Runs, Finish
  <2>2. files_total' = files_total /\ FileIdx' = FileIdx
    BY <2>1 DEF argVars, files_total, FileIdx
  <2>3. ~ (c > made)
    BY <1>t, <2>1 DEF SortInv, MadeInv
  <2>4. MadeInv'
    BY <1>t, <2>1, <2>3, CorosAre DEF SortInv, MadeInv, argVars
  <2>5. /\ DOMAIN Delivered(c) = FileIdx
        /\ \A f \in FileIdx : f # file[c] => Delivered(c)[f] = destinations[f]
    BY DEF Delivered, SortInv, FileInv
  <2>6. ASSUME NEW f \in FileIdx, destinations'[f] # NULL
        PROVE  f <= next_file_idx /\ \A d \in Coros : file[d] = f => life'[d] # "ready"
    <3>1. CASE f = file[c]
      <4>1. f # 0
        BY DEF FileIdx, SortInv, FileInv
      <4> QED  BY <1>t, <2>1, <3>1, <4>1 DEF SortInv, FileInv
    <3>2. CASE f # file[c]
      BY <1>t, <2>1, <2>5, <2>6, <3>2 DEF SortInv, FileInv
    <3> QED  BY <3>1, <3>2
  <2>7. FileInv'
    BY <2>1, <2>2, <2>5, <2>6 DEF SortInv, FileInv
  <2> QED  BY <1>0, <2>4, <2>7 DEF SortInv
<1>8. ASSUME NEW c \in Coros, StartWild(c) PROVE SortInv'
  BY <1>0, <1>8, FilesStay DEF StartWild, coroVars, SortInv
<1>9. CASE SortAll
  BY <1>0, <1>9, FilesStay DEF SortAll, FinishCall, Yield, SortInv
<1>10. CASE WriteResult
  BY <1>0, <1>10, FilesStay DEF WriteResult, coroVars, SortInv
<1>11. CASE UNCHANGED vars
  BY <1>0, <1>11, FilesStay DEF vars, coroVars, SortInv
<1> QED  BY <1>1, <1>2, <1>3, <1>4, <1>5, <1>6, <1>7, <1>8, <1>9, <1>10, <1>11 DEF SortNext

LEMMA SortInvAlways == SortSpec => []SortInv
<1>1. SortInit => SortInv
  BY SortInitInv
<1>2. SortInv /\ [SortNext]_vars => SortInv'
  BY SortStepInv
<1> QED  BY <1>1, <1>2, PTL DEF SortSpec

-----------------------------------------------------------------------------
(* The theorems                                                            *)

\* The program is a client of libcoro: each of its behaviours is one of Coro.
THEOREM SortOverCoro == SortSpec => Spec
<1>1. SortInit => Init
  BY DEF SortInit
<1>2. SortInv /\ [SortNext]_vars => [Next]_coroVars
  BY StepOverCoro
<1> QED  BY <1>1, <1>2, SortInvAlways, PTL DEF SortSpec, Spec

\* Control is only with a coroutine that lives, and its end finds the scheduler
\* waiting (libcoro.c 112-145, 159-184), in every run of the program.
THEOREM SortOnlyLiveRuns == SortSpec => []OnlyLiveRuns
BY SortOverCoro, OnlyLiveRunsAlways

\* In every run of the program the library keeps the promise of its header.
THEOREM SortServiceImplemented == SortSpec => IsService
BY SortOverCoro, ServiceImplemented

\* Two coroutines never sort one file, nor one that is sorted (solution.c 63-72).
THEOREM OneSorterAlways == SortSpec => []OneSorter
<1>1. SortInv => OneSorter
  <2> SUFFICES ASSUME SortInv, NEW c \in Coros, file[c] # 0, life[c] = "ready"
               PROVE  /\ destinations[file[c]] = NULL
                      /\ \A d \in Coros : file[d] = file[c] => d = c
    BY DEF OneSorter
  <2>1. file[c] \in FileIdx
    BY DEF SortInv, FileInv, FileIdx
  <2> QED  BY <2>1 DEF SortInv, FileInv
<1> QED  BY <1>1, SortInvAlways, PTL

-----------------------------------------------------------------------------
(* Time                                                                    *)

\* A number is its seconds and its nanoseconds in one way only.
LEMMA DivIs ==
    ASSUME NEW q \in Nat, NEW r \in 0 .. NSEC - 1
    PROVE  (q * NSEC + r) \div NSEC = q /\ (q * NSEC + r) % NSEC = r
BY MergeSortAssumption
LEMMA DivSplit ==
    ASSUME NEW n \in Nat
    PROVE  n \div NSEC \in Nat /\ n % NSEC \in 0 .. NSEC - 1 /\ n = (n \div NSEC) * NSEC + (n % NSEC)
BY MergeSortAssumption

\* struct timespec holds the time: the difference of two is the time between.
LEMMA DiffIsTime ==
    ASSUME NEW x \in Nat, NEW d \in Nat
    PROVE  get_time_diff(Time(x), Time(x + d)) = Time(d)
<1> DEFINE q == x \div NSEC  r == x % NSEC  e == d \div NSEC  s == d % NSEC
<1>1. NSEC \in Nat /\ NSEC > 0
  BY MergeSortAssumption
<1>2. /\ q \in Nat /\ r \in 0 .. NSEC - 1 /\ x = q * NSEC + r
      /\ e \in Nat /\ s \in 0 .. NSEC - 1 /\ d = e * NSEC + s
  BY DivSplit
<1>3. Time(x) = [sec |-> q, nsec |-> r] /\ Time(d) = [sec |-> e, nsec |-> s]
  BY DEF Time
<1> HIDE DEF q, r, e, s
<1>4. CASE r + s < NSEC
  <2>1. x + d = (q + e) * NSEC + (r + s) /\ q + e \in Nat /\ r + s \in 0 .. NSEC - 1
    BY <1>1, <1>2, <1>4
  <2>2. Time(x + d) = [sec |-> q + e, nsec |-> r + s]
    BY <2>1, DivIs DEF Time
  <2> QED  BY <1>1, <1>2, <1>3, <2>2 DEF get_time_diff
<1>5. CASE ~ (r + s < NSEC)
  <2>1. /\ x + d = (q + e + 1) * NSEC + (r + s - NSEC)
        /\ q + e + 1 \in Nat /\ r + s - NSEC \in 0 .. NSEC - 1
    BY <1>1, <1>2, <1>5
  <2>2. Time(x + d) = [sec |-> q + e + 1, nsec |-> r + s - NSEC]
    BY <2>1, DivIs DEF Time
  <2> QED  BY <1>1, <1>2, <1>3, <2>2 DEF get_time_diff
<1> QED  BY <1>4, <1>5

\* The carry of update_coro_work_time loses nothing.
LEMMA AddIsTime ==
    ASSUME NEW x \in Nat, NEW d \in Nat
    PROVE  AddTime(Time(x), Time(d)) = Time(x + d)
<1> DEFINE q == x \div NSEC  r == x % NSEC  e == d \div NSEC  s == d % NSEC
<1>1. NSEC \in Nat /\ NSEC > 0
  BY MergeSortAssumption
<1>2. /\ q \in Nat /\ r \in 0 .. NSEC - 1 /\ x = q * NSEC + r
      /\ e \in Nat /\ s \in 0 .. NSEC - 1 /\ d = e * NSEC + s
  BY DivSplit
<1>3. AddTime(Time(x), Time(d)) = [sec |-> q + e + ((r + s) \div NSEC), nsec |-> (r + s) % NSEC]
  BY DEF Time, AddTime
<1> HIDE DEF q, r, e, s
<1>4. PICK c \in Nat, t \in 0 .. NSEC - 1 : r + s = c * NSEC + t
  <2>1. r + s \in Nat
    BY <1>1, <1>2
  <2> QED  BY <2>1, DivSplit, Zenon
<1>5. (r + s) \div NSEC = c /\ (r + s) % NSEC = t
  BY <1>4, DivIs
<1>6. x + d = (q + e + c) * NSEC + t /\ q + e + c \in Nat
  BY <1>1, <1>2, <1>4
<1>7. Time(x + d) = [sec |-> q + e + c, nsec |-> t]
  BY <1>6, DivIs DEF Time
<1> QED  BY <1>3, <1>5, <1>7

\* The times a coroutine keeps are those it has run.
TimeInv == /\ clock \in Nat
           /\ worked \in [Coros -> Nat]
           /\ coro_work_time \in [Coros -> TimeSpec]
           /\ WorkTimeExact

LEMMA TimeIsTimeSpec == ASSUME NEW n \in Nat PROVE Time(n) \in TimeSpec
BY DivSplit DEF Time, TimeSpec

\* set_coro_timestamp and update_coro_work_time (269-297).
LEMMA WorkKeepsTime ==
    ASSUME TimeInv, NEW c \in Coros, Work(c) PROVE TimeInv'
<1>1. PICK d \in Ticks :
         /\ clock' = clock + d
         /\ worked' = [worked EXCEPT ![c] = @ + d]
         /\ coro_work_time' = [coro_work_time EXCEPT ![c] =
                AddTime(@, get_time_diff(Time(clock), Time(clock + d)))]
  BY DEF Work, Stamp
<1>2. d \in Nat /\ clock \in Nat /\ worked[c] \in Nat
  BY CoroSortAssumption DEF TimeInv
<1>3. AddTime(coro_work_time[c], get_time_diff(Time(clock), Time(clock + d)))
        = Time(worked[c] + d)
  BY <1>2, DiffIsTime, AddIsTime DEF TimeInv, WorkTimeExact
<1>4. clock' \in Nat /\ worked' \in [Coros -> Nat]
  BY <1>1, <1>2 DEF TimeInv
<1>5. Time(worked[c] + d) \in TimeSpec
  BY <1>2, TimeIsTimeSpec
<1>6. coro_work_time' = [coro_work_time EXCEPT ![c] = Time(worked[c] + d)]
  BY <1>1, <1>3 DEF TimeInv
<1>7. coro_work_time' \in [Coros -> TimeSpec]
  BY <1>5, <1>6 DEF TimeInv
<1>8. WorkTimeExact'
  BY <1>1, <1>6 DEF TimeInv, WorkTimeExact
<1> QED  BY <1>4, <1>7, <1>8 DEF TimeInv

LEMMA TimeInit == SortInit => TimeInv
BY TimeIsTimeSpec DEF SortInit, TimeInv, WorkTimeExact

LEMMA TimeStep == TimeInv /\ [SortNext]_vars => TimeInv'
<1> SUFFICES ASSUME TimeInv, [SortNext]_vars PROVE TimeInv'
  OBVIOUS
<1>1. CASE UNCHANGED <<clock, worked, coro_work_time>>
  BY <1>1 DEF TimeInv, WorkTimeExact
<1>2. ASSUME NEW c \in Coros, SortOn(c) \/ TakeFile(c) \/ Leave(c) PROVE TimeInv'
  BY <1>2, WorkKeepsTime DEF SortOn, TakeFile, Leave
<1>3. CASE CreateCoro \/ Wait \/ Collect \/ SortAll \/ WriteResult
  BY <1>1, <1>3 DEF CreateCoro, Wait, Collect, SortAll, WriteResult, timeVars
<1>4. ASSUME NEW c \in Coros, DeleteCoro(c) \/ StartWild(c) PROVE TimeInv'
  BY <1>1, <1>4 DEF DeleteCoro, StartWild, timeVars
<1>5. CASE UNCHANGED vars
  BY <1>1, <1>5 DEF vars, timeVars
<1> QED  BY <1>2, <1>3, <1>4, <1>5 DEF SortNext

\* The time of a coroutine is that of its steps, summed over all its turns and
\* carries, and of nobody else's (solution.c 224-230, 269-313).
THEOREM WorkTimeExactAlways == SortSpec => []WorkTimeExact
<1>1. TimeInv => WorkTimeExact
  BY DEF TimeInv
<1> QED  BY <1>1, TimeInit, TimeStep, PTL DEF SortSpec

-----------------------------------------------------------------------------
(* Turns                                                                   *)

\* The list is in the order of creation, the last one made at its head.
DescInv ==
    /\ coro_list # NULL => \A e \in Listed : e <= coro_list
    /\ \A c \in Listed :
          IF next[c] = NULL THEN \A e \in Listed : c <= e
          ELSE next[c] < c /\ \A e \in Listed : c <= e \/ e <= next[c]

\* Nobody has run before the last coroutine is made.
BeginInv ==
    made < coros_total =>
        /\ coro_this = SCHED
        /\ \A c \in Coros : c <= made => life[c] = "ready" /\ switch_count[c] = 0

\* The coroutines from d on and before c that have ended, and whether this turn has
\* come to c and not yet to d.
Gone(c, d)  == {e \in Coros : d <= e /\ e < c /\ life[e] # "ready"}
Ahead(c, d) == IF coro_this \in Coros /\ d <= coro_this /\ coro_this < c THEN 1 ELSE 0

\* Exactly: each turn that c took and d did not was cut short by one of them.
TurnInv ==
    \A c, d \in Listed : c > d =>
        switch_count[c] - switch_count[d] = Cardinality(Gone(c, d)) + Ahead(c, d)

FairInv == SortInv /\ DescInv /\ BeginInv /\ TurnInv

\* What every step may use.
LEMMA FairFacts ==
    ASSUME FairInv
    PROVE  /\ Coros \subseteq Nat /\ NULL \notin Coros /\ SCHED \notin Coros
           /\ life \in [Coros -> {"free", "ready", "finished", "returned"}]
           /\ switch_count \in [Contexts -> Nat] /\ next \in [Coros -> Coros \cup {NULL}]
           /\ Listed = {c \in Coros : life[c] \in {"ready", "finished"}}
           /\ ListSound /\ OnlyLiveRuns /\ made \in Nat /\ coro_this \in Contexts
           /\ \A c \in Listed : c <= made
           /\ \A c, d : Gone(c, d) \subseteq Coros /\ IsFiniteSet(Gone(c, d))
                        /\ Cardinality(Gone(c, d)) \in Nat
<1>1. CoroInv /\ MadeInv /\ TypeOK
  BY DEF FairInv, SortInv, CoroInv
<1>2. Coros \subseteq Nat
  BY CorosAre
<1>3. ListSound
  <2>1. PICK n \in Nat : \E s : IsList(n, s)
    BY <1>1 DEF CoroInv
  <2>2. PICK s : IsList(n, s)
    BY <2>1
  <2> QED  BY <1>1, <2>2, ListIsSound
<1>4. \A c \in Listed : c <= made
  BY <1>1, <1>2 DEF MadeInv, Listed
<1>5. ASSUME NEW c, NEW d
      PROVE  /\ Gone(c, d) \subseteq Coros /\ IsFiniteSet(Gone(c, d))
             /\ Cardinality(Gone(c, d)) \in Nat
  BY CoroAssumption, FS_Subset, FS_CardinalityType DEF Gone
<1> QED
  <2>1. OnlyLiveRuns /\ made \in Nat /\ coro_this \in Contexts
        /\ life \in [Coros -> {"free", "ready", "finished", "returned"}]
        /\ switch_count \in [Contexts -> Nat] /\ next \in [Coros -> Coros \cup {NULL}]
    BY <1>1 DEF CoroInv, TypeOK, MadeInv
  <2> QED  BY <1>2, <1>3, <1>4, <1>5, <2>1, CoroAssumption DEF Listed

\* A step that moves nobody in the list, ends nobody and gives nobody a turn.
LEMMA TurnsStay ==
    ASSUME FairInv, UNCHANGED <<coro_list, coros_total, made, coro_this>>,
           \A c \in Listed : next'[c] = next[c],
           life' \in [Coros -> {"free", "ready", "finished", "returned"}],
           Listed' = Listed, \A c \in Coros : life'[c] = "ready" <=> life[c] = "ready",
           \A c \in Coros : switch_count'[c] = switch_count[c]
    PROVE  DescInv' /\ BeginInv' /\ TurnInv'
<1>1. DescInv'
  BY DEF FairInv, DescInv
<1>2. BeginInv'
  BY FairFacts DEF FairInv, BeginInv
<1>3. \A c, d : Gone(c, d)' = Gone(c, d) /\ Ahead(c, d)' = Ahead(c, d)
  BY DEF Gone, Ahead
<1>4. \A c \in Listed : c \in Coros
  BY DEF Listed
<1>5. TurnInv'
  <2> SUFFICES ASSUME NEW c \in Listed, NEW d \in Listed, c > d
               PROVE  switch_count'[c] - switch_count'[d]
                        = Cardinality(Gone(c, d)') + Ahead(c, d)'
    BY DEF TurnInv
  <2>1. switch_count'[c] = switch_count[c] /\ switch_count'[d] = switch_count[d]
    BY <1>4
  <2> QED  BY <1>3, <2>1 DEF FairInv, TurnInv
<1> QED  BY <1>1, <1>2, <1>5

\* coro_yield in a coroutine: the next of the list is the next to be created before.
LEMMA YieldTurns ==
    ASSUME FairInv, coro_this \in Coros, Yield, UNCHANGED <<coros_total, made>>
    PROVE  DescInv' /\ BeginInv' /\ TurnInv'
<1> DEFINE k == coro_this  n == Successor
<1>1. k \in Listed /\ Finished = {}
  BY FairFacts DEF OnlyLiveRuns, Listed
<1>2. /\ UNCHANGED <<coro_list, next, life>> /\ Listed' = Listed
      /\ coro_this' = n
      /\ switch_count' = [switch_count EXCEPT ![k] = @ + 1]
  BY DEF Yield, SwitchTo, Listed
<1>3. /\ DescInv' /\ \A c, d : Gone(c, d)' = Gone(c, d)
  BY <1>2 DEF FairInv, DescInv, Gone
<1>4. made >= coros_total /\ BeginInv'
  BY <1>1, FairFacts DEF FairInv, BeginInv, SortInv, MadeInv
<1>5. \/ n = SCHED /\ \A e \in Listed : k <= e
      \/ n \in Listed /\ n < k /\ \A e \in Listed : k <= e \/ e <= n
  BY <1>1, FairFacts DEF Successor, FairInv, DescInv, ListSound
<1>6. k \in Coros /\ k \in Contexts /\ \A c \in Listed : c \in Coros /\ c \in Contexts
  BY DEF Listed, Contexts
<1>7. \A c, d : Ahead(c, d) = IF d <= k /\ k < c THEN 1 ELSE 0
  BY DEF Ahead
<1>8. \A c, d : Ahead(c, d)' = IF n \in Coros /\ d <= n /\ n < c THEN 1 ELSE 0
  BY <1>2 DEF Ahead
<1> HIDE DEF k, n
<1>9. ASSUME NEW c \in Listed, NEW d \in Listed, c > d
      PROVE  switch_count'[c] - switch_count'[d] = Cardinality(Gone(c, d)) + Ahead(c, d)'
  <2>1. /\ c \in Nat /\ d \in Nat /\ k \in Nat /\ (n \in Coros => n \in Nat)
        /\ switch_count[c] \in Nat /\ switch_count[d] \in Nat
        /\ Cardinality(Gone(c, d)) \in Nat
    BY <1>6, FairFacts
  <2>2. switch_count[c] - switch_count[d] = Cardinality(Gone(c, d)) + Ahead(c, d)
    BY <1>9 DEF FairInv, TurnInv
  <2>3. n = SCHED => n \notin Coros
    BY FairFacts
  <2>4. n \in Listed => n \in Coros
    BY <1>6
  <2>5. /\ switch_count'[c] = IF c = k THEN switch_count[c] + 1 ELSE switch_count[c]
        /\ switch_count'[d] = IF d = k THEN switch_count[d] + 1 ELSE switch_count[d]
    BY <1>2, <1>6, FairFacts
  <2>6. CASE c = k
    <3>1. Ahead(c, d) = 0 /\ Ahead(c, d)' = 1
      BY <1>5, <1>7, <1>8, <1>9, <2>1, <2>3, <2>4, <2>6
    <3> QED  BY <1>9, <2>1, <2>2, <2>5, <2>6, <3>1
  <2>7. CASE d = k
    <3>1. Ahead(c, d) = 1 /\ Ahead(c, d)' = 0
      BY <1>5, <1>7, <1>8, <1>9, <2>1, <2>3, <2>4, <2>7
    <3> QED  BY <1>9, <2>1, <2>2, <2>5, <2>7, <3>1
  <2>8. CASE c # k /\ d # k
    <3>1. Ahead(c, d)' = Ahead(c, d)
      BY <1>5, <1>7, <1>8, <1>9, <2>1, <2>3, <2>4, <2>8
    <3> QED  BY <2>2, <2>5, <2>8, <3>1
  <2> QED  BY <2>6, <2>7, <2>8
<1>10. TurnInv'
  BY <1>2, <1>3, <1>9 DEF TurnInv
<1> QED  BY <1>3, <1>4, <1>10

\* The scheduler starts a turn at the head of the list (134-141).
LEMMA ResumeTurns ==
    ASSUME FairInv, WaitResume, made = coros_total, UNCHANGED <<coros_total, made>>
    PROVE  DescInv' /\ BeginInv' /\ TurnInv'
<1>1. /\ UNCHANGED <<coro_list, next, life>> /\ Listed' = Listed
      /\ coro_this = SCHED /\ coro_this' = coro_list /\ coro_list # NULL
      /\ switch_count' = [switch_count EXCEPT ![SCHED] = @ + 1]
  BY DEF WaitResume, SwitchTo, Listed
<1>2. /\ DescInv' /\ \A c, d : Gone(c, d)' = Gone(c, d)
  BY <1>1 DEF FairInv, DescInv, Gone
<1>3. BeginInv'
  BY FairFacts DEF BeginInv
<1>4. ASSUME NEW c \in Listed, NEW d \in Listed, c > d
      PROVE  switch_count'[c] - switch_count'[d] = Cardinality(Gone(c, d)) + Ahead(c, d)'
  <2>1. c \in Coros /\ d \in Coros /\ c # SCHED /\ d # SCHED
    BY FairFacts DEF Listed
  <2>2. switch_count'[c] = switch_count[c] /\ switch_count'[d] = switch_count[d]
    BY <1>1, <2>1, FairFacts
  <2>3. Ahead(c, d) = 0
    BY <1>1, FairFacts DEF Ahead
  <2>4. c <= coro_list /\ coro_list \in Listed
    BY <1>1, FairFacts DEF FairInv, DescInv, ListSound
  <2>5. Ahead(c, d)' = 0
    BY <1>1, <2>1, <2>4, FairFacts DEF Ahead
  <2> QED  BY <1>4, <2>2, <2>3, <2>5 DEF FairInv, TurnInv
<1>5. TurnInv'
  BY <1>1, <1>2, <1>4 DEF TurnInv
<1> QED  BY <1>2, <1>3, <1>5

\* A coroutine that ends cuts its turn short (coro_body 159-184).
LEMMA FinishTurns ==
    ASSUME FairInv, Finish, UNCHANGED <<coros_total, made>>
    PROVE  DescInv' /\ BeginInv' /\ TurnInv'
<1> DEFINE k == coro_this
<1>1. /\ UNCHANGED <<coro_list, next, switch_count>>
      /\ k \in Coros /\ life[k] = "ready"
      /\ coro_this' = SCHED /\ life' = [life EXCEPT ![k] = "finished"]
  BY FairFacts DEF Finish, OnlyLiveRuns
<1>2. Listed' = Listed
  BY <1>1, FairFacts DEF Listed
<1>3. DescInv'
  BY <1>1, <1>2 DEF FairInv, DescInv
<1>4. BeginInv'
  BY <1>1, FairFacts DEF FairInv, BeginInv
<1> HIDE DEF k
<1>5. ASSUME NEW c \in Listed, NEW d \in Listed, c > d
      PROVE  switch_count[c] - switch_count[d] = Cardinality(Gone(c, d)') + Ahead(c, d)'
  <2>1. switch_count[c] - switch_count[d] = Cardinality(Gone(c, d)) + Ahead(c, d)
    BY <1>5 DEF FairInv, TurnInv
  <2>2. Ahead(c, d)' = 0
    BY <1>1, FairFacts DEF Ahead
  <2>3. Cardinality(Gone(c, d)) \in Nat /\ IsFiniteSet(Gone(c, d)) /\ k \notin Gone(c, d)
    <3>1. k \notin Gone(c, d)
      BY <1>1 DEF Gone
    <3> QED  BY <3>1, FairFacts
  <2>4. CASE d <= k /\ k < c
    <3>1. Gone(c, d)' = Gone(c, d) \cup {k}
      BY <1>1, <2>4, FairFacts DEF Gone
    <3>2. Cardinality(Gone(c, d) \cup {k}) = Cardinality(Gone(c, d)) + 1
      BY <2>3, FS_AddElement
    <3>3. Ahead(c, d) = 1
      BY <1>1, <2>4 DEF Ahead, k
    <3> QED  BY <2>1, <2>2, <2>3, <3>1, <3>2, <3>3
  <2>5. CASE ~ (d <= k /\ k < c)
    <3>1. Gone(c, d)' = Gone(c, d)
      BY <1>1, <2>5, FairFacts DEF Gone
    <3>2. Ahead(c, d) = 0
      BY <2>5 DEF Ahead, k
    <3> QED  BY <2>1, <2>2, <3>1, <3>2
  <2> QED  BY <2>4, <2>5
<1>6. TurnInv'
  BY <1>1, <1>2, <1>5 DEF TurnInv
<1> QED  BY <1>3, <1>4, <1>6

\* The one that coro_sched_wait returns leaves the others in their order (63-74).
LEMMA ReturnTurns ==
    ASSUME FairInv, NEW k \in Coros, WaitReturn(k), made = coros_total,
           UNCHANGED <<coros_total, made>>
    PROVE  DescInv' /\ BeginInv' /\ TurnInv'
<1>1. /\ k \in Listed /\ life[k] = "finished"
      /\ life' = [life EXCEPT ![k] = "returned"]
      /\ UNCHANGED <<switch_count, coro_this>>
      /\ next' = [d \in Coros |-> IF d = prev[k] THEN next[k] ELSE next[d]]
      /\ coro_list' = IF prev[k] = NULL THEN next[k] ELSE coro_list
  BY DEF WaitReturn, Unlink, Finished, Listed
<1>2. Listed' = Listed \ {k}
  BY <1>1, FairFacts DEF Listed
<1>3. \A c, d : Gone(c, d)' = Gone(c, d) /\ Ahead(c, d)' = Ahead(c, d)
  BY <1>1, FairFacts DEF Gone, Ahead
<1>4. TurnInv'
  <2> SUFFICES ASSUME NEW c \in Listed', NEW d \in Listed', c > d
               PROVE  switch_count'[c] - switch_count'[d]
                        = Cardinality(Gone(c, d)') + Ahead(c, d)'
    BY DEF TurnInv
  <2> QED  BY <1>1, <1>2, <1>3 DEF FairInv, TurnInv
<1>5. BeginInv'
  BY FairFacts DEF BeginInv
<1>6. Listed \subseteq Nat /\ k \in Nat /\ NULL \notin Listed
  BY <1>1, FairFacts DEF Listed
<1>7. /\ \A e \in Listed : coro_list # NULL => e <= coro_list
      /\ next[k] = NULL => \A e \in Listed : k <= e
      /\ next[k] # NULL => /\ next[k] \in Listed /\ next[k] < k
                           /\ \A e \in Listed : k <= e \/ e <= next[k]
  BY <1>1, FairFacts DEF FairInv, DescInv, ListSound
<1>8. ASSUME coro_list' # NULL, NEW e \in Listed' PROVE e <= coro_list'
  <2>1. CASE prev[k] = NULL
    <3>1. k = coro_list /\ coro_list' = next[k] /\ coro_list # NULL
      BY <1>1, <1>6, <2>1, FairFacts DEF ListSound
    <3>2. e <= k /\ e # k /\ (k <= e \/ e <= next[k])
      BY <1>2, <1>7, <1>8, <3>1
    <3>3. next[k] \in Nat /\ e \in Nat
      BY <1>2, <1>6, <1>7, <1>8, <3>1
    <3> QED  BY <1>6, <3>1, <3>2, <3>3
  <2>2. CASE prev[k] # NULL
    BY <1>1, <1>2, <1>7, <1>8, <2>2
  <2> QED  BY <2>1, <2>2
<1>9. ASSUME NEW c \in Listed'
      PROVE  IF next'[c] = NULL THEN \A e \in Listed' : c <= e
             ELSE next'[c] < c /\ \A e \in Listed' : c <= e \/ e <= next'[c]
  <2>1. c \in Listed /\ c \in Coros /\ c # k
    BY <1>2 DEF Listed
  <2>2. IF next[c] = NULL THEN \A e \in Listed : c <= e
        ELSE next[c] < c /\ \A e \in Listed : c <= e \/ e <= next[c]
    BY <2>1 DEF FairInv, DescInv
  <2>3. CASE c = prev[k]
    <3>1. next[c] = k /\ next'[c] = next[k] /\ k # NULL
      BY <1>1, <1>6, <2>1, <2>3, FairFacts DEF ListSound
    <3>2. k < c /\ \A e \in Listed : c <= e \/ e <= k
      BY <2>2, <3>1
    <3>3. CASE next[k] = NULL
      <4>1. ASSUME NEW e \in Listed' PROVE c <= e
        BY <1>2, <1>6, <1>7, <2>1, <3>2, <3>3
      <4> QED  BY <3>1, <3>3, <4>1
    <3>4. CASE next[k] # NULL
      <4>1. ASSUME NEW e \in Listed' PROVE c <= e \/ e <= next[k]
        <5>1. e \in Listed /\ e # k /\ e \in Nat /\ k \in Nat
          BY <1>2, <1>6
        <5>2. (c <= e \/ e <= k) /\ (k <= e \/ e <= next[k])
          BY <1>7, <3>2, <3>4, <5>1
        <5> QED  BY <5>1, <5>2
      <4>2. next[k] < c
        <5>1. next[k] \in Nat /\ next[k] < k
          BY <1>6, <1>7, <3>4
        <5>2. c \in Nat /\ k \in Nat /\ k < c
          BY <1>6, <2>1, <3>2
        <5> QED  BY <5>1, <5>2
      <4> QED  BY <3>1, <3>4, <4>1, <4>2
    <3> QED  BY <3>3, <3>4
  <2>4. CASE c # prev[k]
    <3>1. next'[c] = next[c]
      BY <1>1, <2>1, <2>4
    <3> QED  BY <1>2, <2>2, <3>1
  <2> QED  BY <2>3, <2>4
<1>10. DescInv'
  BY <1>8, <1>9 DEF DescInv
<1> QED  BY <1>4, <1>5, <1>10

\* Main puts each coroutine it makes before the others; none of them has run (53-61).
LEMMA CreateTurns ==
    ASSUME FairInv, CreateCoro
    PROVE  DescInv' /\ BeginInv' /\ TurnInv'
<1> DEFINE k == made + 1
<1>1. /\ k \in Coros /\ made' = k /\ life[k] = "free"
      /\ coro_this = SCHED /\ UNCHANGED <<coro_this, coros_total>>
      /\ life' = [life EXCEPT ![k] = "ready"]
      /\ switch_count' = [switch_count EXCEPT ![k] = 0]
      /\ next' = [next EXCEPT ![k] = coro_list]
      /\ coro_list' = k
  BY CorosAre DEF CreateCoro, New, argVars, FairInv, SortInv, MadeInv, BeginInv
<1>2. Listed' = Listed \cup {k} /\ k \notin Listed
  BY <1>1, FairFacts DEF Listed
<1>3. \A c \in Listed : c \in Coros /\ c \in Nat /\ c < k /\ c # k
  <2>1. \A c \in Listed : c \in Coros /\ c \in Nat /\ c <= made
    BY FairFacts DEF Listed
  <2> QED  BY <2>1, FairFacts
<1>4. \A c \in Coros : c <= made => life[c] = "ready" /\ switch_count[c] = 0
  BY DEF CreateCoro, FairInv, BeginInv
<1>5. k \in Nat /\ k \in Contexts /\ made \in Nat /\ NULL # k
  BY <1>1, FairFacts DEF Contexts
<1>6. \A c \in Coros : c <= k => life'[c] = "ready" /\ switch_count'[c] = 0
  <2> SUFFICES ASSUME NEW c \in Coros, c <= k PROVE life'[c] = "ready" /\ switch_count'[c] = 0
    OBVIOUS
  <2>1. CASE c = k
    BY <1>1, <1>5, <2>1, FairFacts
  <2>2. CASE c # k
    <3>1. c <= made
      BY <1>5, <2>2, FairFacts
    <3>2. c \in Contexts
      BY DEF Contexts
    <3> QED  BY <1>1, <1>4, <2>2, <3>1, <3>2, FairFacts
  <2> QED  BY <2>1, <2>2
<1>7. BeginInv'
  BY <1>1, <1>6 DEF BeginInv
<1>8. ASSUME NEW c \in Listed', NEW d \in Listed', c > d
      PROVE  switch_count'[c] - switch_count'[d] = Cardinality(Gone(c, d)') + Ahead(c, d)'
  <2>1. c \in Coros /\ d \in Coros /\ c <= k /\ d <= k
    BY <1>1, <1>2, <1>3, <1>5
  <2>2. switch_count'[c] = 0 /\ switch_count'[d] = 0
    BY <1>6, <2>1
  <2>3. Gone(c, d)' = {}
    BY <1>5, <1>6, <2>1, FairFacts DEF Gone
  <2>4. Ahead(c, d)' = 0
    BY <1>1, FairFacts DEF Ahead
  <2> QED  BY <2>2, <2>3, <2>4, FS_EmptySet
<1>9. TurnInv'
  BY <1>8 DEF TurnInv
<1>10. \A e \in Listed' : e <= coro_list'
  BY <1>1, <1>2, <1>3, <1>5
<1>11. ASSUME NEW c \in Listed'
       PROVE  IF next'[c] = NULL THEN \A e \in Listed' : c <= e
              ELSE next'[c] < c /\ \A e \in Listed' : c <= e \/ e <= next'[c]
  <2>1. CASE c = k
    <3>1. next'[c] = coro_list
      BY <1>1, <2>1, FairFacts
    <3>2. coro_list = NULL => Listed = {}
      BY FairFacts DEF ListSound
    <3>3. coro_list # NULL => coro_list \in Listed /\ \A e \in Listed : e <= coro_list
      BY FairFacts DEF ListSound, FairInv, DescInv
    <3>4. CASE coro_list = NULL
      BY <1>2, <1>5, <2>1, <3>1, <3>2, <3>4
    <3>5. CASE coro_list # NULL
      <4>1. coro_list < k
        BY <1>3, <3>3, <3>5
      <4>2. \A e \in Listed' : k <= e \/ e <= coro_list
        BY <1>2, <1>5, <3>3, <3>5
      <4> QED  BY <2>1, <3>1, <3>5, <4>1, <4>2
    <3> QED  BY <3>4, <3>5
  <2>2. CASE c # k
    <3>1. c \in Listed /\ next'[c] = next[c]
      BY <1>1, <1>2, <1>3, <2>2, FairFacts
    <3>2. IF next[c] = NULL THEN \A e \in Listed : c <= e
          ELSE next[c] < c /\ \A e \in Listed : c <= e \/ e <= next[c]
      BY <3>1 DEF FairInv, DescInv
    <3>3. c <= k
      BY <1>3, <1>5, <3>1
    <3> QED  BY <1>2, <3>1, <3>2, <3>3
  <2> QED  BY <2>1, <2>2
<1>12. DescInv'
  BY <1>10, <1>11 DEF DescInv
<1> QED  BY <1>7, <1>9, <1>12

LEMMA FairStep == FairInv /\ [SortNext]_vars => FairInv'
<1> SUFFICES ASSUME FairInv, [SortNext]_vars PROVE DescInv' /\ BeginInv' /\ TurnInv'
  BY SortStepInv DEF FairInv
<1>1. CASE CreateCoro
  BY <1>1, CreateTurns
<1>2. CASE Wait
  BY <1>2, ResumeTurns, ReturnTurns DEF Wait, argVars
<1>3. CASE UNCHANGED <<coro_list, next, life, switch_count, coro_this, coros_total, made>>
  <2>1. Listed' = Listed
    BY <1>3 DEF Listed
  <2> QED  BY <1>3, <2>1, FairFacts, TurnsStay
<1>4. CASE Collect
  BY <1>3, <1>4 DEF Collect, WaitNone, argVars
<1>5. ASSUME NEW c \in Coros, DeleteCoro(c) PROVE DescInv' /\ BeginInv' /\ TurnInv'
  <2>1. /\ life[c] = "returned" /\ life' = [life EXCEPT ![c] = "free"]
        /\ next' = [next EXCEPT ![c] = NULL]
        /\ UNCHANGED <<coro_list, switch_count, coro_this, coros_total, made>>
    BY <1>5 DEF DeleteCoro, Delete, argVars
  <2>2. c \notin Listed /\ Listed \subseteq Coros
    BY <2>1 DEF Listed
  <2>3. Listed' = Listed
    BY <2>1, FairFacts DEF Listed
  <2>4. \A d \in Listed : next'[d] = next[d]
    BY <2>1, <2>2, FairFacts
  <2>5. /\ life' \in [Coros -> {"free", "ready", "finished", "returned"}]
        /\ \A d \in Coros : life'[d] = "ready" <=> life[d] = "ready"
    BY <2>1, FairFacts
  <2> QED  BY <2>1, <2>3, <2>4, <2>5, TurnsStay
<1>6. ASSUME NEW c \in Coros, SortOn(c) \/ TakeFile(c) PROVE DescInv' /\ BeginInv' /\ TurnInv'
  BY <1>6, YieldTurns DEF SortOn, TakeFile, Runs, FinishCall, argVars
<1>7. ASSUME NEW c \in Coros, Leave(c) PROVE DescInv' /\ BeginInv' /\ TurnInv'
  BY <1>7, FinishTurns DEF Leave, argVars
<1>8. ASSUME NEW c \in Coros, StartWild(c) PROVE DescInv' /\ BeginInv' /\ TurnInv'
  BY <1>3, <1>8 DEF StartWild, coroVars, argVars
<1>9. CASE SortAll
  <2>1. Yield /\ UNCHANGED <<coros_total, made>>
    BY <1>9 DEF SortAll, FinishCall, argVars
  <2>2. CASE coro_this \in Coros
    BY <2>1, <2>2, YieldTurns
  <2>3. CASE coro_this = SCHED
    <3>1. /\ UNCHANGED <<coro_list, next, life, coro_this>>
          /\ switch_count' = [switch_count EXCEPT ![SCHED] = @ + 1]
      BY <2>1, <2>3 DEF Yield, SwitchTo, Successor
    <3>2. \A c \in Coros : switch_count'[c] = switch_count[c]
      BY <3>1, FairFacts DEF Contexts
    <3>3. Listed' = Listed
      BY <3>1 DEF Listed
    <3> QED  BY <2>1, <3>1, <3>2, <3>3, FairFacts, TurnsStay
  <2> QED  BY <2>2, <2>3, FairFacts DEF Contexts
<1>10. CASE WriteResult
  BY <1>3, <1>10 DEF WriteResult, coroVars, argVars
<1>11. CASE UNCHANGED vars
  BY <1>3, <1>11 DEF vars, coroVars, argVars
<1> QED  BY <1>1, <1>2, <1>4, <1>5, <1>6, <1>7, <1>8, <1>9, <1>10, <1>11 DEF SortNext

\* No coroutine is passed over: of two, the turns one has had more than the other
\* are those that a coroutine between them cut short, and the one under way
\* (coro_sched_wait 131-141, coro_yield 112-121).
THEOREM FairTurnsAlways == SortSpec => []FairTurns
<1>1. SortInit => FairInv
  <2> SUFFICES ASSUME SortInit PROVE DescInv /\ BeginInv /\ TurnInv
    BY SortInitInv DEF FairInv
  <2>1. Listed = {} /\ coro_list = NULL
    BY DEF SortInit, Init, Listed
  <2>2. BeginInv
    BY CorosAre DEF SortInit, Init, BeginInv
  <2> QED  BY <2>1, <2>2 DEF DescInv, TurnInv
<1>2. FairInv /\ [SortNext]_vars => FairInv'
  BY FairStep
<1>3. FairInv => FairTurns
  <2> SUFFICES ASSUME FairInv, NEW c \in Listed, NEW d \in Listed, c > d
               PROVE  switch_count[c] - switch_count[d] \in
                        0 .. 1 + Cardinality({e \in Coros : e > d /\ e <= made /\ life[e] # "ready"})
    BY DEF FairTurns
  <2> DEFINE S == {e \in Coros : e > d /\ e <= made /\ life[e] # "ready"}
  <2>1. switch_count[c] - switch_count[d] = Cardinality(Gone(c, d)) + Ahead(c, d)
    BY DEF FairInv, TurnInv
  <2>2. c \in Nat /\ d \in Nat /\ d \in Coros /\ c <= made /\ made \in Nat
    BY FairFacts DEF Listed
  <2>3. IsFiniteSet(S) /\ Cardinality(S) \in Nat
    BY CoroAssumption, FS_Subset, FS_CardinalityType
  <2>4. Gone(c, d) \ {d} \subseteq S
    <3>1. Coros \subseteq Nat
      BY FairFacts
    <3>2. ASSUME NEW e \in Gone(c, d) \ {d} PROVE e \in S
      <4>1. e \in Coros /\ d <= e /\ e < c /\ e # d /\ life[e] # "ready"
        BY DEF Gone
      <4>2. e > d /\ e <= made
        BY <2>2, <3>1, <4>1
      <4> QED  BY <4>1, <4>2
    <3> QED  BY <3>2
  <2>5. CASE coro_this \in Coros
    <3>1. life[d] = "ready"
      BY <2>5, FairFacts DEF OnlyLiveRuns, Finished
    <3>2. Gone(c, d) \subseteq S
      BY <2>4, <3>1 DEF Gone
    <3>3. Cardinality(Gone(c, d)) <= Cardinality(S)
      BY <2>3, <3>2, FS_Subset
    <3>4. Ahead(c, d) \in 0 .. 1
      BY DEF Ahead
    <3> HIDE DEF S
    <3>5. Cardinality(Gone(c, d)) + Ahead(c, d) \in 0 .. 1 + Cardinality(S)
      BY <2>3, <3>3, <3>4, FairFacts
    <3> QED  BY <2>1, <3>5 DEF S
  <2>6. CASE coro_this \notin Coros
    <3>1. Ahead(c, d) = 0
      BY <2>6 DEF Ahead
    <3>2. Cardinality(Gone(c, d) \ {d}) <= Cardinality(S)
      BY <2>3, <2>4, FS_Subset
    <3>3. /\ IsFiniteSet(Gone(c, d)) /\ Cardinality(Gone(c, d)) \in Nat
      BY FairFacts
    <3>4. Cardinality(Gone(c, d)) <= Cardinality(Gone(c, d) \ {d}) + 1
      <4>1. CASE d \in Gone(c, d)
        <5>1. Cardinality(Gone(c, d) \ {d}) = Cardinality(Gone(c, d)) - 1
          BY <3>3, <4>1, FS_RemoveElement
        <5> QED  BY <3>3, <5>1
      <4>2. CASE d \notin Gone(c, d)
        <5>1. Gone(c, d) \ {d} = Gone(c, d)
          BY <4>2
        <5>2. Cardinality(Gone(c, d) \ {d}) = Cardinality(Gone(c, d))
          BY <5>1
        <5> QED  BY <3>3, <5>2
      <4> QED  BY <4>1, <4>2
    <3>5. IsFiniteSet(Gone(c, d) \ {d}) /\ Cardinality(Gone(c, d) \ {d}) \in Nat
      BY <3>3, FS_Subset, FS_CardinalityType
    <3> HIDE DEF S
    <3>6. Cardinality(Gone(c, d)) + Ahead(c, d) \in 0 .. 1 + Cardinality(S)
      BY <2>3, <3>1, <3>2, <3>3, <3>4, <3>5
    <3> QED  BY <2>1, <3>6 DEF S
  <2> QED  BY <2>5, <2>6
<1> QED  BY <1>1, <1>2, <1>3, PTL DEF SortSpec

-----------------------------------------------------------------------------
(* The numbers                                                             *)

\* x is the sorted array of file f.
Delivers(x, f) ==
    /\ x \in Arrays /\ Ascending(x)
    /\ Len(x) = Len(input[f]) + 1
    /\ \A v \in Int : Count(x, v) >= Count(input[f], v)

\* Where c is in the sort of the file it is at.
InHand(c) ==
    /\ \E x \in Values : numbers[c] = input[file[c]] \o << x >>
    /\ calls[c] \in Seq(Calls)
    /\ Sorting(calls[c], numbers[c], sorted[c])

\* Where main is in the last sort.
InMerge ==
    /\ numbers[SCHED] \in Arrays
    /\ Len(numbers[SCHED]) = Len(FlattenSeq(input)) + files_total
    /\ \A v \in Int : Count(numbers[SCHED], v) >= Count(FlattenSeq(input), v)
    /\ calls[SCHED] \in Seq(Calls)
    /\ Sorting(calls[SCHED], numbers[SCHED], sorted[SCHED])

\* Each file that was taken is in hand or sorted; nobody ends before all were taken.
HandInv ==
    /\ destinations = [f \in FileIdx |-> destinations[f]]
    /\ \A c \in Coros : file[c] = 0 => calls[c] = << >>
    /\ \A c \in Coros : file[c] # 0 /\ life[c] = "ready" => InHand(c)
    /\ \A f \in FileIdx : f <= next_file_idx =>
          \/ \E c \in Coros : file[c] = f /\ life[c] = "ready"
          \/ Delivers(destinations[f], f)
    /\ \A c \in Coros : c <= made /\ life[c] # "ready" => next_file_idx = files_total

NumbersInv ==
    /\ SortInv
    /\ input \in Seq(Seq(Values))
    /\ DOMAIN numbers = Contexts /\ DOMAIN calls = Contexts /\ DOMAIN sorted = Contexts
    /\ HandInv
    /\ phase = "coros" => sorted[SCHED] = << >>
    /\ phase = "merge" => InMerge
    /\ phase = "done" => SortOf(result, FlattenSeq(input), files_total)

LEMMA NumbersFacts ==
    ASSUME NumbersInv
    PROVE  /\ files_total \in Nat /\ next_file_idx \in 0 .. files_total /\ next_file_idx \in Nat
           /\ FileIdx = 1 .. files_total /\ DOMAIN destinations = FileIdx
           /\ file \in [Coros -> 0 .. next_file_idx]
           /\ \A c, d \in Coros : file[c] = file[d] /\ file[c] # 0 => c = d
           /\ \A f \in FileIdx : destinations[f] # NULL =>
                 f <= next_file_idx /\ \A c \in Coros : file[c] = f => life[c] # "ready"
           /\ made \in Nat /\ coros_total \in Nat /\ coros_total <= Cardinality(Coros)
           /\ \A c \in Coros : c > made => life[c] = "free" /\ file[c] = 0
           /\ life \in [Coros -> {"free", "ready", "finished", "returned"}]
           /\ \A c \in Coros : coro_this = c => life[c] = "ready"
           /\ Coros \subseteq Contexts /\ SCHED \in Contexts /\ SCHED \notin Coros
           /\ Coros \subseteq Nat
           /\ \A f \in FileIdx : input[f] \in Arrays /\ input[f] \in Seq(Values)
<1>1. FileInv /\ MadeInv /\ TypeOK /\ OnlyLiveRuns
  BY DEF NumbersInv, SortInv, CoroInv
<1>2. \A f \in FileIdx : input[f] \in Arrays /\ input[f] \in Seq(Values)
  <2>1. ASSUME NEW f \in FileIdx PROVE input[f] \in Seq(Values)
    BY ElementOfSeq DEF NumbersInv, FileIdx, files_total
  <2>2. Seq(Values) \subseteq Arrays
    BY SeqMonotonic DEF Arrays
  <2> QED  BY <2>1, <2>2
<1>3. /\ files_total \in Nat /\ next_file_idx \in 0 .. files_total /\ next_file_idx \in Nat
      /\ FileIdx = 1 .. files_total /\ DOMAIN destinations = FileIdx
  BY <1>1 DEF FileInv, FileIdx
<1>4. /\ file \in [Coros -> 0 .. next_file_idx]
      /\ \A c, d \in Coros : file[c] = file[d] /\ file[c] # 0 => c = d
      /\ \A f \in FileIdx : destinations[f] # NULL =>
            f <= next_file_idx /\ \A c \in Coros : file[c] = f => life[c] # "ready"
  BY <1>1 DEF FileInv
<1>5. /\ made \in Nat /\ coros_total \in Nat /\ coros_total <= Cardinality(Coros)
      /\ \A c \in Coros : c > made => life[c] = "free" /\ file[c] = 0
  BY <1>1, CorosAre DEF MadeInv
<1>6. /\ life \in [Coros -> {"free", "ready", "finished", "returned"}]
      /\ \A c \in Coros : coro_this = c => life[c] = "ready"
  BY <1>1 DEF TypeOK, OnlyLiveRuns
<1>7. Coros \subseteq Contexts /\ SCHED \in Contexts /\ SCHED \notin Coros /\ Coros \subseteq Nat
  BY CoroAssumption, CorosAre DEF Contexts
<1> QED  BY <1>2, <1>3, <1>4, <1>5, <1>6, <1>7

\* How many arrays, and so blocks, a call adds.
LEMMA SortedByLen ==
    ASSUME NEW s \in Seq(Arrays), NEW call, NEW array, IsLeaf(call) \/ Len(s) >= 2
    PROVE  Len(SortedBy(call, array, s)) = Len(s) + BlocksOf(call)
<1>1. Len(s) \in Nat /\ \A i \in 1 .. Len(s) : s[i] \in Arrays
  BY LenProperties
<1>2. ASSUME NEW x, NEW t \in Seq(Arrays) PROVE Len(Append(t, x)) = Len(t) + 1
  <2>1. t \in Seq(Arrays \cup {x}) /\ x \in Arrays \cup {x}
    BY SeqMonotonic
  <2> QED  BY <2>1, AppendProperties
<1>3. CASE IsLeaf(call)
  BY <1>2, <1>3 DEF SortedBy, BlocksOf
<1>4. CASE ~IsLeaf(call)
  <2> DEFINE t == SubSeq(s, 1, Len(s) - 2)
  <2>1. t \in Seq(Arrays) /\ Len(t) = Len(s) - 2
    <3>1. \A i \in 1 .. Len(s) - 2 : s[i] \in Arrays
      BY <1>1
    <3>2. /\ t \in Seq(Arrays)
          /\ Len(t) = IF 1 <= Len(s) - 2 THEN (Len(s) - 2) - 1 + 1 ELSE 0
      BY <1>1, <3>1, SubSeqProperties
    <3> DEFINE k == Len(s) - 2
    <3>3. k \in Nat /\ k = Len(s) - 2
      BY <1>1, <1>4
    <3>4. Len(t) = IF 1 <= k THEN k - 1 + 1 ELSE 0
      BY <3>2
    <3> HIDE DEF t, k
    <3>5. Len(t) = k
      BY <3>3, <3>4
    <3> QED  BY <3>2, <3>3, <3>5
  <2>2. SortedBy(call, array, s) = Append(t, Merge(s[Len(s) - 1], s[Len(s)]))
    BY <1>4 DEF SortedBy
  <2> HIDE DEF t
  <2>3. BlocksOf(call) = 1 - 2
    BY <1>4 DEF BlocksOf
  <2> QED  BY <1>1, <1>2, <2>1, <2>2, <2>3
<1> QED  BY <1>3, <1>4

LEMMA Finishes ==
    ASSUME DOMAIN numbers = Contexts, DOMAIN calls = Contexts, DOMAIN sorted = Contexts,
           NEW c \in Contexts, NEW array, NEW todo \in Seq(Calls), todo # << >>, NEW s,
           Sorting(todo, array, s), FinishCall(c, array, todo, s)
    PROVE  /\ DOMAIN numbers' = Contexts /\ DOMAIN calls' = Contexts /\ DOMAIN sorted' = Contexts
           /\ numbers'[c] = array /\ calls'[c] \in Seq(Calls)
           /\ Sorting(calls'[c], array, sorted'[c])
           /\ \A d \in Contexts : d # c => /\ numbers'[d] = numbers[d]
                                           /\ calls'[d] = calls[d] /\ sorted'[d] = sorted[d]
           /\ Len(s) \in Nat /\ Len(sorted'[c]) = Len(s) + BlocksOf(Head(todo))
           /\ IsLeaf(Head(todo)) \/ Len(s) >= 2
<1>1. /\ numbers' = [numbers EXCEPT ![c] = array]
      /\ sorted' = [sorted EXCEPT ![c] = SortedBy(Head(todo), array, s)]
      /\ calls' = [calls EXCEPT ![c] = Tail(todo)]
  BY DEF FinishCall
<1>2. /\ Tail(todo) \in Seq(Calls) /\ s \in Seq(Arrays) /\ (IsLeaf(Head(todo)) \/ Len(s) >= 2)
      /\ Sorting(Tail(todo), array, SortedBy(Head(todo), array, s))
  BY SortingGoes
<1>3. Len(SortedBy(Head(todo), array, s)) = Len(s) + BlocksOf(Head(todo)) /\ Len(s) \in Nat
  BY <1>2, SortedByLen, LenProperties
<1>4. /\ numbers'[c] = array /\ calls'[c] = Tail(todo)
      /\ sorted'[c] = SortedBy(Head(todo), array, s)
      /\ DOMAIN numbers' = Contexts /\ DOMAIN calls' = Contexts /\ DOMAIN sorted' = Contexts
      /\ \A d \in Contexts : d # c => /\ numbers'[d] = numbers[d]
                                      /\ calls'[d] = calls[d] /\ sorted'[d] = sorted[d]
  BY <1>1
<1> QED  BY <1>2, <1>3, <1>4

\* A file that was read is not empty, and its sort begins.
LEMMA ReadBegins ==
    ASSUME NumbersInv, NEW f \in FileIdx, NEW garbage \in Values
    PROVE  LET array == ReadNumbers(input[f], garbage)
               todo  == PostOrder[Len(array)]
           IN /\ \E x \in Values : array = input[f] \o << x >>
              /\ todo \in Seq(Calls) /\ todo # << >> /\ Sorting(todo, array, << >>)
<1> DEFINE array == ReadNumbers(input[f], garbage)
<1>1. PICK x \in Values : array = input[f] \o << x >>
  <2>1. input[f] \in Seq(Values)
    BY NumbersFacts
  <2> QED  BY <2>1, ReadNumbersIs
<1>2. array \in Arrays /\ Len(array) # 0
  <2>1. x \in Int /\ input[f] \in Seq(Int)
    BY NumbersFacts DEF Arrays
  <2>2. << x >> \in Seq(Int) /\ Len(<< x >>) = 1
    BY <2>1
  <2>3. array \in Seq(Int) /\ Len(array) = Len(input[f]) + 1 /\ Len(input[f]) \in Nat
    BY <1>1, <2>1, <2>2, ConcatProperties, LenProperties
  <2> HIDE DEF array
  <2> QED  BY <2>3 DEF Arrays
<1> HIDE DEF array
<1>3. /\ PostOrder[Len(array)] \in Seq(Calls) /\ PostOrder[Len(array)] # << >>
      /\ Sorting(PostOrder[Len(array)], array, << >>)
  BY <1>2, SortingBegins
<1> QED  BY <1>1, <1>3 DEF array

\* When no call is left, there is one array, and it is what the file comes to.
LEMMA AtLoopDelivers ==
    ASSUME NumbersInv, NEW c \in Coros, file[c] # 0, InHand(c), AtLoop(c)
    PROVE  Len(sorted[c]) = 1 /\ Delivers(sorted[c][1], file[c])
<1>1. PICK x \in Values : numbers[c] = input[file[c]] \o << x >>
  BY DEF InHand
<1>2. PICK y \in Arrays : sorted[c] = << y >> /\ Arranges(y, numbers[c])
  <2>1. Sorting(<< >>, numbers[c], sorted[c])
    BY DEF InHand, AtLoop
  <2> QED  BY <2>1, SortingEnds
<1>3. file[c] \in FileIdx /\ input[file[c]] \in Seq(Int)
  <2>1. file[c] \in FileIdx
    BY NumbersFacts
  <2> QED  BY <2>1, NumbersFacts DEF Arrays
<1> DEFINE i == input[file[c]]
<1>4. x \in Int /\ << x >> \in Seq(Int) /\ Len(<< x >>) = 1
  OBVIOUS
<1>5. i \in Seq(Int) /\ Len(i) \in Nat /\ numbers[c] = i \o << x >>
  BY <1>1, <1>3, LenProperties
<1> HIDE DEF i
<1>6. Len(numbers[c]) = Len(i) + 1
  BY <1>4, <1>5, ConcatProperties
<1>7. ASSUME NEW v \in Int PROVE Count(numbers[c], v) >= Count(i, v)
  <2>1. Count(numbers[c], v) = Count(i, v) + Count(<< x >>, v)
    <3> DEFINE one == << x >>
    <3>1. one \in Seq(Int) /\ numbers[c] = i \o one
      BY <1>4, <1>5
    <3> HIDE DEF one
    <3>2. Count(i \o one, v) = Count(i, v) + Count(one, v)
      BY <1>5, <3>1, CountConcat
    <3> QED  BY <3>1, <3>2 DEF one
  <2>2. Count(i, v) \in Nat /\ Count(<< x >>, v) \in Nat
    BY <1>4, <1>5, CountType
  <2> QED  BY <2>1, <2>2
<1>8. Delivers(y, file[c])
  BY <1>2, <1>6, <1>7, Zenon DEF Delivers, Arranges, i
<1>9. Len(sorted[c]) = 1 /\ sorted[c][1] = y
  BY <1>2
<1> QED  BY <1>8, <1>9

\* What Delivered makes of the destinations: c's file is sorted, the others stay.
LEMMA DeliveredIs ==
    ASSUME NumbersInv, NEW c \in Coros, life[c] = "ready", AtLoop(c)
    PROVE  /\ file[c] # 0 => Len(sorted[c]) = 1
           /\ \A f \in FileIdx : f = file[c] => Delivers(Delivered(c)[f], f)
           /\ \A f \in FileIdx : f # file[c] => Delivered(c)[f] = destinations[f]
           /\ Delivered(c) = [f \in FileIdx |-> Delivered(c)[f]]
<1>1. ASSUME file[c] # 0 PROVE Len(sorted[c]) = 1 /\ Delivers(sorted[c][1], file[c])
  BY <1>1, AtLoopDelivers DEF NumbersInv, HandInv
<1>2. ASSUME NEW f \in FileIdx, f = file[c] PROVE Delivers(Delivered(c)[f], f)
  <2>1. file[c] # 0 /\ file[c] \in DOMAIN destinations
    BY <1>2, NumbersFacts
  <2>2. Delivered(c)[f] = sorted[c][1]
    BY <1>2, <2>1 DEF Delivered
  <2> QED  BY <1>1, <1>2, <2>1, <2>2
<1>3. ASSUME NEW f \in FileIdx, f # file[c] PROVE Delivered(c)[f] = destinations[f]
  BY <1>3, NumbersFacts DEF Delivered
<1>4. Delivered(c) = [f \in FileIdx |-> Delivered(c)[f]]
  <2>1. destinations = [f \in FileIdx |-> destinations[f]]
    BY DEF NumbersInv, HandInv
  <2>2. ASSUME NEW y PROVE LET g == [destinations EXCEPT ![file[c]] = y]
                           IN g = [f \in FileIdx |-> g[f]]
    BY <2>1
  <2> QED  BY <2>1, <2>2 DEF Delivered
<1> QED  BY <1>1, <1>2, <1>3, <1>4

\* Steps that sort nothing.
LEMMA HandStays ==
    ASSUME NumbersInv, UNCHANGED <<argVars, next_file_idx, destinations, file, made>>,
           \A c \in Coros : /\ numbers'[c] = numbers[c] /\ calls'[c] = calls[c] /\ sorted'[c] = sorted[c]
                            /\ life'[c] = "ready" <=> life[c] = "ready"
    PROVE  HandInv'
<1>1. /\ UNCHANGED <<input, files_total, FileIdx>>
      /\ \A f \in FileIdx : input'[f] = input[f]
  BY DEF argVars, files_total, FileIdx
<1>2. ASSUME NEW c \in Coros, InHand(c) PROVE InHand(c)'
  BY <1>1, <1>2 DEF InHand
<1>3. \A x, f : Delivers(x, f)' <=> Delivers(x, f)
  BY <1>1 DEF Delivers
<1> QED  BY <1>1, <1>2, <1>3 DEF NumbersInv, HandInv

LEMMA NumbersStay ==
    ASSUME NumbersInv, SortInv', UNCHANGED <<argVars, sortVars, result>>, HandInv',
           phase' = phase \/ phase' \notin {"coros", "merge", "done"}
    PROVE  NumbersInv'
<1>1. UNCHANGED <<input, files_total, numbers, calls, sorted, result>>
  BY DEF argVars, sortVars, files_total
<1>2. /\ Contexts' = Contexts
      /\ InMerge' <=> InMerge
  BY <1>1 DEF InMerge, Contexts
<1>3. SortOf(result, FlattenSeq(input), files_total)' <=> SortOf(result, FlattenSeq(input), files_total)
  BY <1>1 DEF SortOf
<1> QED  BY <1>1, <1>2, <1>3 DEF NumbersInv

LEMMA SortOnNumbers ==
    ASSUME NumbersInv, SortInv', NEW c \in Coros, SortOn(c)
    PROVE  NumbersInv' /\ file[c] # 0 /\ Len(sorted[c]) \in Nat
           /\ Len(sorted'[c]) = Len(sorted[c]) + BlocksOf(Head(calls[c]))
<1>1. /\ life[c] = "ready" /\ calls[c] # << >> /\ FinishCall(c, numbers[c], calls[c], sorted[c])
      /\ life' = life /\ UNCHANGED <<argVars, made, next_file_idx, destinations, file, result, phase>>
  BY NumbersFacts DEF SortOn, Runs, AtLoop, FinishCall, Yield
<1>2. file[c] # 0 /\ InHand(c) /\ c \in Contexts
  BY <1>1, NumbersFacts DEF NumbersInv, HandInv
<1>3. /\ DOMAIN numbers' = Contexts /\ DOMAIN calls' = Contexts /\ DOMAIN sorted' = Contexts
      /\ numbers'[c] = numbers[c] /\ calls'[c] \in Seq(Calls)
      /\ Sorting(calls'[c], numbers[c], sorted'[c])
      /\ \A d \in Contexts : d # c => /\ numbers'[d] = numbers[d]
                                      /\ calls'[d] = calls[d] /\ sorted'[d] = sorted[d]
      /\ Len(sorted[c]) \in Nat /\ Len(sorted'[c]) = Len(sorted[c]) + BlocksOf(Head(calls[c]))
  <2>1. calls[c] \in Seq(Calls) /\ Sorting(calls[c], numbers[c], sorted[c])
    BY <1>2 DEF InHand
  <2>2. DOMAIN numbers = Contexts /\ DOMAIN calls = Contexts /\ DOMAIN sorted = Contexts
    BY DEF NumbersInv
  <2> QED  BY <1>1, <1>2, <2>1, <2>2, Finishes
<1>4. UNCHANGED <<input, files_total, FileIdx>> /\ Contexts' = Contexts
  BY <1>1 DEF argVars, files_total, FileIdx, Contexts
<1>5. \A d \in Coros : file'[d] = 0 => calls'[d] = << >>
  BY <1>1, <1>2, <1>3, NumbersFacts DEF NumbersInv, HandInv
<1>6. ASSUME NEW d \in Coros, file'[d] # 0, life'[d] = "ready" PROVE InHand(d)'
  <2>1. CASE d = c
    BY <1>1, <1>2, <1>3, <1>4, <2>1 DEF InHand
  <2>2. CASE d # c
    <3>1. InHand(d) /\ d \in Contexts
      BY <1>1, <1>6, NumbersFacts DEF NumbersInv, HandInv
    <3> QED  BY <1>1, <1>3, <1>4, <2>2, <3>1 DEF InHand
  <2> QED  BY <2>1, <2>2
<1>7. \A x, f : Delivers(x, f)' <=> Delivers(x, f)
  BY <1>4 DEF Delivers
<1>8. HandInv'
  BY <1>1, <1>4, <1>5, <1>6, <1>7 DEF NumbersInv, HandInv
<1>9. sorted'[SCHED] = sorted[SCHED] /\ (InMerge' <=> InMerge)
  <2>1. SCHED \in Contexts /\ SCHED # c
    BY NumbersFacts
  <2>2. numbers'[SCHED] = numbers[SCHED] /\ calls'[SCHED] = calls[SCHED] /\ sorted'[SCHED] = sorted[SCHED]
    BY <1>3, <2>1
  <2> QED  BY <1>4, <2>2 DEF InMerge
<1>10. SortOf(result, FlattenSeq(input), files_total)' <=> SortOf(result, FlattenSeq(input), files_total)
  BY <1>1, <1>4 DEF SortOf
<1> QED  BY <1>1, <1>2, <1>3, <1>4, <1>8, <1>9, <1>10 DEF NumbersInv

LEMMA TakeFileNumbers ==
    ASSUME NumbersInv, phase = "coros", SortInv', NEW c \in Coros, TakeFile(c)
    PROVE  /\ NumbersInv' /\ (file[c] # 0 => Len(sorted[c]) = 1)
           /\ Len(sorted'[c]) = 1 /\ sorted'[SCHED] = sorted[SCHED]
           /\ blocks' = blocks + BlocksOfStamp(c) - FreedAtLoop(c) + 1 + 1
<1>1. /\ life[c] = "ready" /\ AtLoop(c) /\ next_file_idx < files_total
      /\ next_file_idx' = next_file_idx + 1
      /\ file' = [file EXCEPT ![c] = next_file_idx + 1]
      /\ destinations' = Delivered(c)
      /\ UNCHANGED <<argVars, made, result, phase>>
  BY NumbersFacts DEF TakeFile, Runs, Claimed
<1>t. life' = life
  BY DEF TakeFile, FinishCall, Yield
<1> DEFINE f == next_file_idx + 1
<1>2. f \in FileIdx /\ f \in Nat /\ f # 0
  BY <1>1, NumbersFacts
<1>3. PICK garbage \in Values :
         LET array == ReadNumbers(input[f], garbage)
             todo  == PostOrder[Len(array)]
         IN /\ FinishCall(c, array, todo, << >>)
            /\ blocks' = blocks + BlocksOfStamp(c) - FreedAtLoop(c) + 1 + BlocksOf(Head(todo))
  BY DEF TakeFile
<1> DEFINE array == ReadNumbers(input[f], garbage)
           todo  == PostOrder[Len(array)]
<1>4. /\ FinishCall(c, array, todo, << >>)
      /\ blocks' = blocks + BlocksOfStamp(c) - FreedAtLoop(c) + 1 + BlocksOf(Head(todo))
      /\ \E x \in Values : array = input[f] \o << x >>
      /\ todo \in Seq(Calls) /\ todo # << >> /\ Sorting(todo, array, << >>)
  BY <1>2, <1>3, ReadBegins
<1> HIDE DEF array, todo
<1>5. /\ DOMAIN numbers' = Contexts /\ DOMAIN calls' = Contexts /\ DOMAIN sorted' = Contexts
      /\ numbers'[c] = array /\ calls'[c] \in Seq(Calls)
      /\ Sorting(calls'[c], array, sorted'[c])
      /\ \A d \in Contexts : d # c => /\ numbers'[d] = numbers[d]
                                      /\ calls'[d] = calls[d] /\ sorted'[d] = sorted[d]
      /\ Len(sorted'[c]) = Len(<< >>) + BlocksOf(Head(todo))
      /\ IsLeaf(Head(todo)) \/ Len(<< >>) >= 2
  <2>1. c \in Contexts
    BY NumbersFacts
  <2>2. DOMAIN numbers = Contexts /\ DOMAIN calls = Contexts /\ DOMAIN sorted = Contexts
    BY DEF NumbersInv
  <2>3. FinishCall(c, array, todo, << >>) /\ todo \in Seq(Calls) /\ todo # << >>
        /\ Sorting(todo, array, << >>)
    BY <1>4
  <2> QED  BY <2>1, <2>2, <2>3, Finishes
<1>6. BlocksOf(Head(todo)) = 1 /\ Len(sorted'[c]) = 1
  <2>1. Len(<< >>) = 0
    OBVIOUS
  <2>2. IsLeaf(Head(todo))
    BY <1>5, <2>1
  <2>3. BlocksOf(Head(todo)) = 1
    BY <2>2 DEF BlocksOf
  <2> QED  BY <1>5, <2>1, <2>3
<1>7. UNCHANGED <<input, files_total, FileIdx>> /\ Contexts' = Contexts
  BY <1>1 DEF argVars, files_total, FileIdx, Contexts
<1>8. /\ file'[c] = f
      /\ \A d \in Coros : d # c => file'[d] = file[d] /\ d \in Contexts
  BY <1>1, NumbersFacts
<1>9. \A d \in Coros : file'[d] = 0 => calls'[d] = << >>
  BY <1>2, <1>5, <1>8 DEF NumbersInv, HandInv
<1>10. ASSUME NEW d \in Coros, file'[d] # 0, life'[d] = "ready" PROVE InHand(d)'
  <2>1. CASE d = c
    BY <1>4, <1>5, <1>7, <1>8, <2>1 DEF InHand
  <2>2. CASE d # c
    <3>1. InHand(d) /\ d \in Contexts /\ file'[d] = file[d]
      BY <1>t, <1>8, <1>10, <2>2 DEF NumbersInv, HandInv
    <3> QED  BY <1>5, <1>7, <2>2, <3>1 DEF InHand
  <2> QED  BY <2>1, <2>2
<1>11. \A x, e : Delivers(x, e)' <=> Delivers(x, e)
  BY <1>7 DEF Delivers
<1>d. destinations' = [e \in FileIdx' |-> destinations'[e]]
  BY <1>1, <1>7, DeliveredIs
<1>12. ASSUME NEW e \in FileIdx, e <= next_file_idx'
       PROVE  \/ \E d \in Coros : file'[d] = e /\ life'[d] = "ready"
              \/ Delivers(destinations'[e], e)
  <2>1. CASE e = f
    BY <1>1, <1>t, <1>8, <2>1
  <2>2. CASE e # f /\ e = file[c]
    BY <1>1, <2>2, DeliveredIs
  <2>3. CASE e # f /\ e # file[c]
    <3>1. e <= next_file_idx
      BY <1>1, <1>12, <2>3, NumbersFacts
    <3>2. \/ \E d \in Coros : file[d] = e /\ life[d] = "ready"
          \/ Delivers(destinations[e], e)
      BY <3>1 DEF NumbersInv, HandInv
    <3>3. destinations'[e] = destinations[e]
      BY <1>1, <2>3, DeliveredIs
    <3>4. \A d \in Coros : file[d] = e => file'[d] = e
      BY <1>8, <2>3
    <3> QED  BY <1>t, <3>2, <3>3, <3>4
  <2> QED  BY <2>1, <2>2, <2>3
<1>13. \A d \in Coros : ~ (d <= made' /\ life'[d] # "ready")
  BY <1>1, <1>t, NumbersFacts DEF NumbersInv, HandInv
<1>14. HandInv'
  BY <1>7, <1>d, <1>9, <1>10, <1>11, <1>12, <1>13 DEF HandInv
<1>s. sorted'[SCHED] = sorted[SCHED]
  BY <1>5, NumbersFacts
<1>15. NumbersInv'
  BY <1>1, <1>5, <1>7, <1>14, <1>s DEF NumbersInv
<1>16. file[c] # 0 => Len(sorted[c]) = 1
  BY <1>1, DeliveredIs
<1> QED  BY <1>4, <1>6, <1>15, <1>16, <1>s

LEMMA LeaveNumbers ==
    ASSUME NumbersInv, phase = "coros", SortInv', NEW c \in Coros, Leave(c)
    PROVE  NumbersInv' /\ (file[c] # 0 => Len(sorted[c]) = 1)
<1>1. /\ life[c] = "ready" /\ AtLoop(c) /\ next_file_idx >= files_total
      /\ life' = [life EXCEPT ![c] = "finished"] /\ coro_this = c
      /\ destinations' = Delivered(c)
      /\ UNCHANGED <<sortVars, argVars, made, next_file_idx, file, result, phase>>
  BY NumbersFacts DEF Leave, Runs, Finish
<1>2. /\ UNCHANGED <<input, files_total, FileIdx, numbers, calls, sorted>>
      /\ next_file_idx = files_total
  BY <1>1, NumbersFacts DEF argVars, files_total, FileIdx, sortVars
<1>3. /\ life'[c] = "finished"
      /\ \A d \in Coros : d # c => life'[d] = life[d]
  BY <1>1, NumbersFacts
<1>4. ASSUME NEW d \in Coros, file'[d] # 0, life'[d] = "ready" PROVE InHand(d)'
  <2>1. InHand(d)
    BY <1>1, <1>3, <1>4 DEF NumbersInv, HandInv
  <2> QED  BY <1>1, <1>2, <2>1 DEF InHand
<1>5. \A x, e : Delivers(x, e)' <=> Delivers(x, e)
  BY <1>2 DEF Delivers
<1>6. ASSUME NEW e \in FileIdx, e <= next_file_idx
      PROVE  \/ \E d \in Coros : file[d] = e /\ life'[d] = "ready"
             \/ Delivers(destinations'[e], e)
  <2>1. CASE e = file[c]
    BY <1>1, <2>1, DeliveredIs
  <2>2. CASE e # file[c]
    <3>1. \/ \E d \in Coros : file[d] = e /\ life[d] = "ready"
          \/ Delivers(destinations[e], e)
      BY <1>6 DEF NumbersInv, HandInv
    <3>2. destinations'[e] = destinations[e]
      BY <1>1, <2>2, DeliveredIs
    <3> QED  BY <1>3, <2>2, <3>1, <3>2
  <2> QED  BY <2>1, <2>2
<1>d. destinations' = [e \in FileIdx' |-> destinations'[e]]
  BY <1>1, <1>2, DeliveredIs
<1>7. HandInv'
  BY <1>1, <1>2, <1>4, <1>5, <1>6, <1>d DEF NumbersInv, HandInv
<1>8. file[c] # 0 => Len(sorted[c]) = 1
  BY <1>1, DeliveredIs
<1>9. NumbersInv'
  BY <1>1, <1>7, NumbersStay
<1> QED  BY <1>8, <1>9

\* All files were taken and none is in hand: the last sort is of all their numbers.
LEMMA CollectNumbers ==
    ASSUME NumbersInv, phase = "coros", SortInv', Collect
    PROVE  /\ NumbersInv' /\ \A c \in Coros : life[c] = "free"
           /\ phase' = "merge" => next_file_idx = files_total /\ sorted' = sorted
<1>1. /\ made = coros_total /\ \A c \in Coros : life[c] # "returned"
      /\ coro_list = NULL /\ UNCHANGED life
      /\ UNCHANGED <<argVars, made, next_file_idx, destinations, file, result>>
  BY DEF Collect, WaitNone
<1>2. \A c \in Coros : life[c] = "free"
  <2>1. PICK n \in Nat : \E s : IsList(n, s)
    BY DEF NumbersInv, SortInv, CoroInv
  <2>2. ListSound
    BY <2>1, ListIsSound DEF NumbersInv, SortInv, CoroInv
  <2>3. Listed = {}
    BY <1>1, <2>2 DEF ListSound
  <2> QED  BY <1>1, <2>3, NumbersFacts DEF Listed
<1>3. UNCHANGED <<input, files_total, FileIdx>> /\ Contexts' = Contexts
  BY <1>1 DEF argVars, files_total, FileIdx, Contexts
<1>4. ASSUME \A c \in Coros : /\ numbers'[c] = numbers[c] /\ calls'[c] = calls[c]
                              /\ sorted'[c] = sorted[c]
      PROVE  HandInv'
  BY <1>1, <1>4, HandStays
<1>5. CASE files_total = 0 \/ coros_total = 0
  <2>1. phase' \notin {"coros", "merge", "done"} /\ UNCHANGED sortVars
    BY <1>5 DEF Collect
  <2>2. NumbersInv'
    BY <1>1, <1>4, <2>1, NumbersStay DEF sortVars
  <2> QED  BY <1>2, <2>1, <2>2
<1>6. CASE files_total # 0 /\ coros_total # 0
  <2>1. /\ phase' = "merge" /\ sorted' = sorted
        /\ numbers' = [numbers EXCEPT ![SCHED] = Collected]
        /\ calls' = [calls EXCEPT ![SCHED] = PostOrder[Len(Collected)]]
    BY <1>6 DEF Collect
  <2>2. next_file_idx = files_total
    <3>1. 1 \in Coros /\ 1 <= made
      BY <1>1, <1>6, CorosAre, NumbersFacts
    <3> QED  BY <1>2, <3>1 DEF NumbersInv, HandInv
  <2>3. \A f \in FileIdx : Delivers(destinations[f], f)
    BY <1>2, <2>2, NumbersFacts DEF NumbersInv, HandInv
  <2>4. destinations \in Seq(Arrays) /\ Len(destinations) = files_total
    <3>1. destinations = [f \in 1 .. files_total |-> destinations[f]]
      BY NumbersFacts DEF NumbersInv, HandInv
    <3>2. \A f \in 1 .. files_total : destinations[f] \in Arrays
      BY <2>3, NumbersFacts DEF Delivers
    <3>3. destinations \in [1 .. files_total -> Arrays]
      BY <3>1, <3>2
    <3>4. files_total \in Nat
      BY NumbersFacts
    <3>5. destinations \in Seq(Arrays)
      BY <3>3, <3>4, SeqDef
    <3>6. Len(destinations) \in Nat /\ DOMAIN destinations = 1 .. Len(destinations)
      BY <3>5, LenProperties
    <3> QED  BY <3>3, <3>4, <3>5, <3>6
  <2>5. input \in Seq(Arrays) /\ Len(input) = files_total
    <3>1. Seq(Values) \subseteq Arrays
      BY SeqMonotonic DEF Arrays
    <3> QED  BY <3>1, SeqMonotonic DEF NumbersInv, files_total
  <2>6. Exceeds(destinations, input)
    BY <2>3, <2>4, <2>5, NumbersFacts DEF Exceeds, Delivers
  <2>7. /\ Collected \in Arrays
        /\ Len(Collected) = Len(FlattenSeq(input)) + files_total
        /\ \A v \in Int : Count(Collected, v) >= Count(FlattenSeq(input), v)
    BY <2>4, <2>5, <2>6, FlattenExceeds DEF Collected
  <2>8. Len(Collected) # 0
    <3>1. Len(FlattenSeq(input)) \in Nat
      <4>1. FlattenSeq(input) \in Seq(Int)
        BY <2>5, FlattenType DEF Arrays
      <4> QED  BY <4>1, LenProperties
    <3> QED  BY <1>6, <2>7, <3>1, NumbersFacts
  <2>9. /\ PostOrder[Len(Collected)] \in Seq(Calls)
        /\ Sorting(PostOrder[Len(Collected)], Collected, << >>)
    BY <2>7, <2>8, SortingBegins
  <2>10. /\ DOMAIN numbers' = Contexts /\ DOMAIN calls' = Contexts /\ DOMAIN sorted' = Contexts
         /\ numbers'[SCHED] = Collected /\ calls'[SCHED] = PostOrder[Len(Collected)]
         /\ sorted'[SCHED] = << >>
         /\ \A c \in Coros : numbers'[c] = numbers[c] /\ calls'[c] = calls[c]
    BY <2>1, NumbersFacts DEF NumbersInv
  <2>11. HandInv'
    BY <1>4, <2>1, <2>10
  <2>12. InMerge'
    BY <1>3, <2>7, <2>9, <2>10 DEF InMerge
  <2>13. NumbersInv'
    BY <1>3, <2>1, <2>10, <2>11, <2>12 DEF NumbersInv
  <2> QED  BY <1>2, <2>1, <2>2, <2>13
<1> QED  BY <1>5, <1>6

\* The last sort goes on, as that of a file does.
LEMMA SortAllNumbers ==
    ASSUME NumbersInv, phase = "merge", SortInv', SortAll
    PROVE  /\ NumbersInv' /\ Len(sorted[SCHED]) \in Nat
           /\ Len(sorted'[SCHED]) = Len(sorted[SCHED]) + BlocksOf(Head(calls[SCHED]))
<1>1. /\ calls[SCHED] # << >>
      /\ FinishCall(SCHED, numbers[SCHED], calls[SCHED], sorted[SCHED])
      /\ life' = life /\ UNCHANGED <<argVars, made, next_file_idx, destinations, file, result, phase>>
  BY DEF SortAll, FinishCall, Yield
<1>2. /\ DOMAIN numbers' = Contexts /\ DOMAIN calls' = Contexts /\ DOMAIN sorted' = Contexts
      /\ numbers'[SCHED] = numbers[SCHED] /\ calls'[SCHED] \in Seq(Calls)
      /\ Sorting(calls'[SCHED], numbers[SCHED], sorted'[SCHED])
      /\ \A d \in Contexts : d # SCHED => /\ numbers'[d] = numbers[d]
                                          /\ calls'[d] = calls[d] /\ sorted'[d] = sorted[d]
      /\ Len(sorted[SCHED]) \in Nat
      /\ Len(sorted'[SCHED]) = Len(sorted[SCHED]) + BlocksOf(Head(calls[SCHED]))
  <2>1. calls[SCHED] \in Seq(Calls) /\ Sorting(calls[SCHED], numbers[SCHED], sorted[SCHED])
    BY DEF NumbersInv, InMerge
  <2>2. DOMAIN numbers = Contexts /\ DOMAIN calls = Contexts /\ DOMAIN sorted = Contexts
    BY DEF NumbersInv
  <2>3. SCHED \in Contexts
    BY NumbersFacts
  <2> QED  BY <1>1, <2>1, <2>2, <2>3, Finishes
<1>3. UNCHANGED <<input, files_total>> /\ Contexts' = Contexts
  BY <1>1 DEF argVars, files_total, Contexts
<1>4. HandInv'
  <2>1. \A c \in Coros : numbers'[c] = numbers[c] /\ calls'[c] = calls[c] /\ sorted'[c] = sorted[c]
    BY <1>2, NumbersFacts
  <2> QED  BY <1>1, <2>1, HandStays
<1>5. InMerge'
  BY <1>2, <1>3 DEF NumbersInv, InMerge
<1> QED  BY <1>1, <1>2, <1>3, <1>4, <1>5 DEF NumbersInv

LEMMA WriteNumbers ==
    ASSUME NumbersInv, phase = "merge", SortInv', WriteResult
    PROVE  NumbersInv' /\ Len(sorted[SCHED]) = 1
<1>1. /\ calls[SCHED] = << >> /\ result' = sorted[SCHED][1] /\ phase' = "done"
      /\ UNCHANGED <<life, argVars, sortVars, made, next_file_idx, destinations, file>>
  BY DEF WriteResult, coroVars
<1>2. UNCHANGED <<input, files_total, numbers, calls, sorted>> /\ Contexts' = Contexts
  BY <1>1 DEF argVars, sortVars, files_total, Contexts
<1>3. PICK x \in Arrays : sorted[SCHED] = << x >> /\ Arranges(x, numbers[SCHED])
  <2>1. Sorting(<< >>, numbers[SCHED], sorted[SCHED])
    BY <1>1 DEF NumbersInv, InMerge
  <2> QED  BY <2>1, SortingEnds
<1>4. Len(sorted[SCHED]) = 1 /\ result' = x
  BY <1>1, <1>3
<1>5. SortOf(x, FlattenSeq(input), files_total)
  <2>1. Ascending(x) /\ Len(x) = Len(FlattenSeq(input)) + files_total
    BY <1>3 DEF NumbersInv, InMerge, Arranges
  <2>2. \A v \in Int : Count(x, v) >= Count(FlattenSeq(input), v)
    BY <1>3 DEF NumbersInv, InMerge, Arranges
  <2> QED  BY <2>1, <2>2 DEF SortOf
<1>6. SortOf(result, FlattenSeq(input), files_total)'
  BY <1>2, <1>4, <1>5 DEF SortOf
<1>7. HandInv'
  BY <1>1, <1>2, HandStays
<1> QED  BY <1>1, <1>2, <1>4, <1>6, <1>7 DEF NumbersInv

LEMMA CreateNumbers ==
    ASSUME NumbersInv, SortInv', CreateCoro PROVE NumbersInv'
<1> DEFINE k == made + 1
<1>1. /\ life' = [life EXCEPT ![k] = "ready"] /\ made' = k
      /\ UNCHANGED <<argVars, sortVars, next_file_idx, destinations, file, result, phase>>
  BY DEF CreateCoro, New
<1>2. k \in Coros /\ file[k] = 0 /\ life'[k] = "ready" /\ k > made
  BY <1>1, NumbersFacts, CorosAre DEF CreateCoro
<1>3. \A c \in Coros : c # k => life'[c] = life[c] /\ (c <= k => c <= made)
  <2>1. \A c \in Coros : c # k => life'[c] = life[c]
    BY <1>1, NumbersFacts
  <2>2. \A c \in Coros : c # k /\ c <= k => c <= made
    BY NumbersFacts
  <2> QED  BY <2>1, <2>2
<1> HIDE DEF k
<1>4. UNCHANGED <<input, files_total, FileIdx, numbers, calls, sorted>>
  BY <1>1 DEF argVars, sortVars, files_total, FileIdx
<1>5. ASSUME NEW c \in Coros, InHand(c) PROVE InHand(c)'
  BY <1>1, <1>4, <1>5 DEF InHand
<1>6. \A x, f : Delivers(x, f)' <=> Delivers(x, f)
  BY <1>4 DEF Delivers
<1>7. \A c \in Coros : file'[c] # 0 /\ life'[c] = "ready" => InHand(c)'
  BY <1>1, <1>2, <1>3, <1>5 DEF NumbersInv, HandInv
<1>8. \A f \in FileIdx : f <= next_file_idx =>
          \/ \E c \in Coros : file[c] = f /\ life'[c] = "ready"
          \/ Delivers(destinations[f], f)
  BY <1>2, <1>3 DEF NumbersInv, HandInv
<1>9. \A c \in Coros : c <= made' /\ life'[c] # "ready" => next_file_idx = files_total
  BY <1>1, <1>2, <1>3 DEF NumbersInv, HandInv
<1>10. HandInv'
  BY <1>1, <1>4, <1>6, <1>7, <1>8, <1>9 DEF NumbersInv, HandInv
<1> QED  BY <1>1, <1>10, NumbersStay

\* Main and the library touch no numbers.
LEMMA OthersNumbers ==
    ASSUME NumbersInv, SortInv',
           \/ Wait \/ UNCHANGED vars
           \/ \E c \in Coros : DeleteCoro(c) \/ StartWild(c)
    PROVE  NumbersInv'
<1>1. /\ UNCHANGED <<argVars, sortVars, made, next_file_idx, destinations, file, result>>
      /\ phase' = phase \/ phase' \notin {"coros", "merge", "done"}
  BY DEF Wait, DeleteCoro, StartWild, vars
<1>2. \A c \in Coros : life'[c] = "ready" <=> life[c] = "ready"
  <2>1. CASE Wait
    BY <2>1, NumbersFacts DEF Wait, WaitResume, WaitReturn, Finished
  <2>2. ASSUME NEW c \in Coros, DeleteCoro(c) PROVE \A d \in Coros : life'[d] = "ready" <=> life[d] = "ready"
    BY <2>2, NumbersFacts DEF DeleteCoro, Delete
  <2>3. ASSUME UNCHANGED life PROVE \A d \in Coros : life'[d] = "ready" <=> life[d] = "ready"
    BY <2>3
  <2> QED  BY <2>1, <2>2, <2>3 DEF StartWild, vars, coroVars
<1>3. HandInv'
  <2>1. UNCHANGED <<numbers, calls, sorted>>
    BY <1>1 DEF sortVars
  <2> QED  BY <1>1, <1>2, <2>1, HandStays
<1> QED  BY <1>1, <1>3, NumbersStay

LEMMA NumbersInit == SortInit => NumbersInv
<1> SUFFICES ASSUME SortInit PROVE NumbersInv
  OBVIOUS
<1>1. SortInv
  BY SortInitInv
<1>2. /\ DOMAIN numbers = Contexts /\ DOMAIN calls = Contexts /\ DOMAIN sorted = Contexts
      /\ sorted[SCHED] = << >> /\ phase = "coros"
      /\ \A c \in Coros : file[c] = 0 /\ calls[c] = << >>
  BY DEF SortInit, Contexts
<1>3. input \in Seq(Seq(Values))
  <2>1. Contents \subseteq Seq(Values)
    BY SeqDef DEF Contents
  <2>2. input \in Seq(Contents)
    BY SeqDef DEF SortInit
  <2> QED  BY <2>1, <2>2, SeqMonotonic
<1>4. HandInv
  <2>1. destinations = [f \in FileIdx |-> destinations[f]]
    BY DEF SortInit
  <2>2. \A f \in FileIdx : ~ (f <= next_file_idx)
    BY DEF SortInit, FileIdx
  <2>3. \A c \in Coros : ~ (c <= made)
    BY CorosAre DEF SortInit
  <2> QED  BY <1>2, <2>1, <2>2, <2>3 DEF HandInv
<1> QED  BY <1>1, <1>2, <1>3, <1>4 DEF NumbersInv

LEMMA NumbersStep == NumbersInv /\ [SortNext]_vars => NumbersInv'
<1> SUFFICES ASSUME NumbersInv, [SortNext]_vars PROVE NumbersInv'
  OBVIOUS
<1>1. SortInv'
  BY SortStepInv DEF NumbersInv
<1>2. CASE CreateCoro
  BY <1>1, <1>2, CreateNumbers
<1>3. CASE Wait \/ UNCHANGED vars
  BY <1>1, <1>3, OthersNumbers
<1>4. CASE phase = "coros" /\ Collect
  BY <1>1, <1>4, CollectNumbers
<1>5. ASSUME phase = "coros", NEW c \in Coros,
             DeleteCoro(c) \/ SortOn(c) \/ TakeFile(c) \/ Leave(c) \/ StartWild(c)
      PROVE  NumbersInv'
  <2>1. CASE DeleteCoro(c) \/ StartWild(c)
    BY <1>1, <2>1, OthersNumbers
  <2>2. CASE SortOn(c)
    BY <1>1, <2>2, SortOnNumbers
  <2>3. CASE TakeFile(c)
    BY <1>1, <1>5, <2>3, TakeFileNumbers
  <2>4. CASE Leave(c)
    BY <1>1, <1>5, <2>4, LeaveNumbers
  <2> QED  BY <1>5, <2>1, <2>2, <2>3, <2>4
<1>6. CASE phase = "merge" /\ SortAll
  BY <1>1, <1>6, SortAllNumbers
<1>7. CASE phase = "merge" /\ WriteResult
  BY <1>1, <1>7, WriteNumbers
<1> QED  BY <1>2, <1>3, <1>4, <1>5, <1>6, <1>7 DEF SortNext

\* For any files, buffers and order of the coroutines: the sort of each file, and
\* the result, is in order and has lost no number (solution.c 62-76, 120-136, 156-267).
THEOREM FilesSortedAlways == SortSpec => []FilesSorted
<1>1. NumbersInv => FilesSorted
  <2> SUFFICES ASSUME NumbersInv,
                      NEW f \in FileIdx, destinations[f] # NULL
               PROVE  SortOf(destinations[f], input[f], 1)
    BY DEF FilesSorted, NumbersInv
  <2>1. f <= next_file_idx /\ \A c \in Coros : file[c] = f => life[c] # "ready"
    BY NumbersFacts
  <2>2. Delivers(destinations[f], f)
    BY <2>1 DEF NumbersInv, HandInv
  <2> QED  BY <2>2 DEF Delivers, SortOf
<1> QED  BY <1>1, NumbersInit, NumbersStep, PTL DEF SortSpec

-----------------------------------------------------------------------------
(* Memory                                                                  *)

\* The blocks c holds: its struct coro and stack until coro_delete, three of its
\* context, and, at a file, its time and the arrays of its sort.
Held == [c \in Coros |->
    IF life[c] = "free" THEN 0
    ELSE IF life[c] # "ready" THEN 2
    ELSE IF file[c] = 0 THEN 5 ELSE 6 + Len(sorted[c])]

\* One pair for each of them.
Rows(h) == {p \in Coros \X Nat : p[2] \in 1 .. h[p[1]]}

\* The other blocks are three of main and one for each file that was taken: the
\* numbers read, then their sorted array.
BlocksInv ==
    /\ DOMAIN prev_timestamp = Coros
    /\ \A c \in Coros : life[c] = "ready" =>
          IF file[c] = 0 THEN prev_timestamp[c] \in {NULL, WILD} ELSE prev_timestamp[c] \in TimeSpec
    /\ phase = "coros" =>
          IsFiniteSet(Rows(Held)) /\ blocks = 3 + next_file_idx + Cardinality(Rows(Held))
    /\ phase = "merge" => blocks = 2 + Len(sorted[SCHED])
    /\ phase = "done" => blocks = 0

LeakInv == NumbersInv /\ TimeInv /\ BlocksInv

LEMMA RowsChange ==
    ASSUME NEW h \in [Coros -> Nat], NEW c \in Coros, NEW n \in Nat, IsFiniteSet(Rows(h))
    PROVE  /\ IsFiniteSet(Rows([h EXCEPT ![c] = n]))
           /\ Cardinality(Rows([h EXCEPT ![c] = n])) = Cardinality(Rows(h)) - h[c] + n
           /\ Cardinality(Rows(h)) \in Nat
<1> DEFINE Others == {p \in Rows(h) : p[1] # c}
           Row(m) == {c} \X (1 .. m)
<1>1. IsFiniteSet(Others) /\ Cardinality(Others) \in Nat
  <2>1. Others \subseteq Rows(h)
    OBVIOUS
  <2> QED  BY <2>1, FS_Subset, FS_CardinalityType
<1>2. ASSUME NEW m \in Nat PROVE IsFiniteSet(Row(m)) /\ Cardinality(Row(m)) = m
  <2>1. IsFiniteSet(1 .. m) /\ Cardinality(1 .. m) = m
    <3>1. IsFiniteSet(1 .. m) /\ Cardinality(1 .. m) = IF 1 > m THEN 0 ELSE m - 1 + 1
      BY FS_Interval
    <3> QED  BY <3>1
  <2>2. IsFiniteSet({c}) /\ Cardinality({c}) = 1
    <3>1. \A y : IsFiniteSet({y}) /\ Cardinality({y}) = 1
      BY FS_Singleton
    <3> QED  BY <3>1
  <2> DEFINE one == {c}  to == 1 .. m
  <2> HIDE DEF one, to
  <2>3. IsFiniteSet(one \X to) /\ Cardinality(one \X to) = Cardinality(one) * Cardinality(to)
    <3>1. IsFiniteSet(one) /\ IsFiniteSet(to)
      BY <2>1, <2>2 DEF one, to
    <3> QED  BY <3>1, FS_Product
  <2>4. IsFiniteSet(Row(m)) /\ Cardinality(Row(m)) = 1 * m
    BY <2>1, <2>2, <2>3 DEF one, to
  <2> QED  BY <2>4
<1>3. ASSUME NEW m \in Nat
      PROVE  /\ IsFiniteSet(Others \cup Row(m))
             /\ Cardinality(Others \cup Row(m)) = Cardinality(Others) + m
  <2>1. Others \cap Row(m) = {}
    OBVIOUS
  <2>2. Cardinality(Others \cap Row(m)) = 0
    BY <2>1, FS_EmptySet
  <2>3. /\ IsFiniteSet(Others \cup Row(m))
        /\ Cardinality(Others \cup Row(m))
             = Cardinality(Others) + Cardinality(Row(m)) - Cardinality(Others \cap Row(m))
    BY <1>1, <1>2, FS_Union
  <2> HIDE DEF Others, Row
  <2> QED  BY <1>1, <1>2, <2>2, <2>3
<1>4. Rows(h) = Others \cup Row(h[c])
  BY DEF Rows
<1>5. Rows([h EXCEPT ![c] = n]) = Others \cup Row(n)
  BY DEF Rows
<1> HIDE DEF Others, Row
<1>6. h[c] \in Nat
  OBVIOUS
<1>7. Cardinality(Rows(h)) = Cardinality(Others) + h[c]
  BY <1>3, <1>4, <1>6
<1>8. /\ IsFiniteSet(Rows([h EXCEPT ![c] = n]))
      /\ Cardinality(Rows([h EXCEPT ![c] = n])) = Cardinality(Others) + n
  BY <1>3, <1>5
<1> QED  BY <1>1, <1>6, <1>7, <1>8

LEMMA HeldType == NumbersInv => Held \in [Coros -> Nat]
<1> SUFFICES ASSUME NumbersInv PROVE Held \in [Coros -> Nat]
  OBVIOUS
<1>1. ASSUME NEW c \in Coros, life[c] = "ready", file[c] # 0 PROVE Len(sorted[c]) \in Nat
  <2>1. calls[c] \in Seq(Calls) /\ Sorting(calls[c], numbers[c], sorted[c])
    BY <1>1 DEF NumbersInv, HandInv, InHand
  <2>2. sorted[c] \in Seq(Arrays)
    <3>1. CASE calls[c] # << >>
      BY <2>1, <3>1, SortingGoes
    <3>2. CASE calls[c] = << >>
      <4>1. PICK x \in Arrays : sorted[c] = << x >>
        BY <2>1, <3>2, SortingEnds
      <4> QED  BY <4>1
    <3> QED  BY <3>1, <3>2
  <2> QED  BY <2>2, LenProperties
<1>2. ASSUME NEW c \in Coros PROVE Held[c] \in Nat
  BY <1>1 DEF Held
<1>3. Held = [c \in Coros |-> Held[c]]
  BY DEF Held
<1> QED  BY <1>2, <1>3
LEMMA HeldTypeNext == NumbersInv' => Held' \in [Coros -> Nat]
<1>1. (NumbersInv => Held \in [Coros -> Nat])'
  BY HeldType, PTL
<1> QED  BY <1>1

LEMMA Adds ==
    ASSUME NEW k \in Nat, NEW l \in Nat, NEW a \in Nat, NEW r \in Nat, NEW n \in Nat
    PROVE  (3 + k + r) + (l - k) + n - a = 3 + l + (r - a + n)
OBVIOUS

\* One coroutine gets or frees blocks in a step.
LEMMA BlocksMove ==
    ASSUME NumbersInv, BlocksInv, phase = "coros", phase' = "coros",
           NEW c \in Coros, NEW n \in Nat, Held' = [Held EXCEPT ![c] = n],
           blocks' = blocks + (next_file_idx' - next_file_idx) + n - Held[c],
           next_file_idx' \in Nat
    PROVE  /\ IsFiniteSet(Rows(Held'))
           /\ blocks' = 3 + next_file_idx' + Cardinality(Rows(Held'))
<1>1. /\ IsFiniteSet(Rows(Held)) /\ blocks = 3 + next_file_idx + Cardinality(Rows(Held))
  BY DEF BlocksInv
<1>2. Held \in [Coros -> Nat] /\ next_file_idx \in Nat
  BY HeldType, NumbersFacts
<1>3. /\ IsFiniteSet(Rows(Held')) /\ Cardinality(Rows(Held')) = Cardinality(Rows(Held)) - Held[c] + n
      /\ Cardinality(Rows(Held)) \in Nat
  BY <1>1, <1>2, RowsChange
<1>4. Held[c] \in Nat
  BY <1>2
<1>5. blocks' = 3 + next_file_idx' + Cardinality(Rows(Held'))
  <2> DEFINE k == next_file_idx  l == next_file_idx'
             a == Held[c]  r == Cardinality(Rows(Held))  s == Cardinality(Rows(Held'))
  <2>1. k \in Nat /\ l \in Nat /\ a \in Nat /\ r \in Nat
    BY <1>2, <1>3, <1>4
  <2>2. blocks' = (3 + k + r) + (l - k) + n - a /\ s = r - a + n
    BY <1>1, <1>3
  <2> HIDE DEF k, l, a, r, s
  <2>3. blocks' = 3 + l + s
    BY <2>1, <2>2, Adds
  <2> QED  BY <2>3 DEF l, s
<1> QED  BY <1>3, <1>5

\* The time is set in the first step at a file.
LEMMA StampIs ==
    ASSUME LeakInv, NEW c \in Coros, Runs(c)
    PROVE  /\ life[c] = "ready" /\ BlocksOfStamp(c) = IF file[c] = 0 THEN 1 ELSE 0
           /\ Work(c) => /\ DOMAIN prev_timestamp' = Coros /\ prev_timestamp'[c] \in TimeSpec
                         /\ \A d \in Coros : d # c => prev_timestamp'[d] = prev_timestamp[d]
<1>1. life[c] = "ready" /\ prev_timestamp[c] # WILD
  BY NumbersFacts DEF Runs, LeakInv
<1>2. IF file[c] = 0 THEN prev_timestamp[c] \in {NULL, WILD} ELSE prev_timestamp[c] \in TimeSpec
  BY <1>1 DEF LeakInv, BlocksInv
<1>3. BlocksOfStamp(c) = IF file[c] = 0 THEN 1 ELSE 0
  BY <1>1, <1>2, CoroSortAssumption DEF BlocksOfStamp
<1>4. ASSUME Work(c)
      PROVE  /\ DOMAIN prev_timestamp' = Coros /\ prev_timestamp'[c] \in TimeSpec
             /\ \A d \in Coros : d # c => prev_timestamp'[d] = prev_timestamp[d]
  <2>1. prev_timestamp' = [prev_timestamp EXCEPT ![c] = Time(clock)]
    BY <1>4 DEF Work, Stamp
  <2>2. Time(clock) \in TimeSpec
    BY TimeIsTimeSpec DEF LeakInv, TimeInv
  <2> QED  BY <2>1, <2>2 DEF LeakInv, BlocksInv
<1> QED  BY <1>1, <1>3, <1>4

\* Steps in which c has other blocks at their end.
LEMMA LeakMove ==
    ASSUME LeakInv, NumbersInv', TimeInv', phase = "coros", phase' = "coros",
           DOMAIN prev_timestamp' = Coros,
           NEW c \in Coros,
           life'[c] = "ready" => IF file'[c] = 0 THEN prev_timestamp'[c] \in {NULL, WILD}
                                                 ELSE prev_timestamp'[c] \in TimeSpec,
           \A d \in Coros : d # c => /\ life'[d] = life[d] /\ file'[d] = file[d]
                                     /\ Len(sorted'[d]) = Len(sorted[d])
                                     /\ prev_timestamp'[d] = prev_timestamp[d],
           blocks' = blocks + (next_file_idx' - next_file_idx) + Held'[c] - Held[c]
    PROVE  LeakInv'
<1>1. Held' \in [Coros -> Nat]
  BY HeldTypeNext
<1>2. Held' = [Held EXCEPT ![c] = Held'[c]]
  <2>1. \A d \in Coros : d # c => Held'[d] = Held[d]
    BY DEF Held
  <2>2. Held \in [Coros -> Nat]
    BY HeldType DEF LeakInv
  <2> QED  BY <1>1, <2>1, <2>2
<1>3. next_file_idx' \in Nat /\ Held'[c] \in Nat
  BY <1>1 DEF NumbersInv, SortInv, FileInv
<1>4. /\ IsFiniteSet(Rows(Held'))
      /\ blocks' = 3 + next_file_idx' + Cardinality(Rows(Held'))
  BY <1>2, <1>3, BlocksMove DEF LeakInv
<1>5. Rows(Held)' = Rows(Held')
  BY DEF Rows
<1>6. \A d \in Coros : life'[d] = "ready" =>
          IF file'[d] = 0 THEN prev_timestamp'[d] \in {NULL, WILD} ELSE prev_timestamp'[d] \in TimeSpec
  BY DEF LeakInv, BlocksInv
<1> QED  BY <1>4, <1>5, <1>6 DEF LeakInv, BlocksInv

\* Steps after which main and the coroutines hold as much.
LEMMA LeakStays ==
    ASSUME LeakInv, NumbersInv', TimeInv', UNCHANGED <<sorted, prev_timestamp, next_file_idx, file, blocks>>,
           \A c \in Coros : life'[c] = "ready" <=> life[c] = "ready",
           \A c \in Coros : life'[c] = "free" <=> life[c] = "free",
           phase' = phase \/ phase' \notin {"coros", "merge", "done"}
    PROVE  LeakInv'
<1>1. Held' = Held
  BY DEF Held
<1>2. Rows(Held)' = Rows(Held)
  BY <1>1 DEF Rows
<1> QED  BY <1>2 DEF LeakInv, BlocksInv

LEMMA LeakInit == SortInit => LeakInv
<1> SUFFICES ASSUME SortInit PROVE LeakInv
  OBVIOUS
<1>1. Held = [c \in Coros |-> 0]
  BY DEF SortInit, Init, Held
<1>2. Rows(Held) = {}
  <2>1. 1 .. 0 = {}
    OBVIOUS
  <2> QED  BY <1>1, <2>1 DEF Rows
<1>3. IsFiniteSet(Rows(Held)) /\ Cardinality(Rows(Held)) = 0
  BY <1>2, FS_EmptySet
<1>4. BlocksInv
  BY <1>3 DEF SortInit, Init, BlocksInv
<1> QED  BY <1>4, NumbersInit, TimeInit DEF LeakInv

\* What c holds, in each of its states.
LEMMA HeldIs ==
    ASSUME NEW c \in Coros
    PROVE  /\ life[c] = "free" => Held[c] = 0
           /\ life[c] \in {"finished", "returned"} => Held[c] = 2
           /\ life[c] = "ready" /\ file[c] = 0 => Held[c] = 5
           /\ life[c] = "ready" /\ file[c] # 0 => Held[c] = 6 + Len(sorted[c])
           /\ life'[c] = "free" => Held'[c] = 0
           /\ life'[c] \in {"finished", "returned"} => Held'[c] = 2
           /\ life'[c] = "ready" /\ file'[c] = 0 => Held'[c] = 5
           /\ life'[c] = "ready" /\ file'[c] # 0 => Held'[c] = 6 + Len(sorted'[c])
BY DEF Held

LEMMA BlocksInt ==
    ASSUME LeakInv, phase = "coros" PROVE blocks \in Int /\ next_file_idx \in Nat
<1>1. next_file_idx \in Nat
  BY NumbersFacts DEF LeakInv
<1>2. blocks = 3 + next_file_idx + Cardinality(Rows(Held)) /\ IsFiniteSet(Rows(Held))
  BY DEF LeakInv, BlocksInv
<1>3. Cardinality(Rows(Held)) \in Nat
  BY <1>2, FS_CardinalityType
<1> QED  BY <1>1, <1>2, <1>3

LEMMA CreateLeaks ==
    ASSUME LeakInv, NumbersInv', TimeInv', phase = "coros", CreateCoro PROVE LeakInv'
<1> DEFINE k == made + 1
<1>1. /\ life[k] = "free" /\ life' = [life EXCEPT ![k] = "ready"]
      /\ \E garbage \in {NULL, WILD} : prev_timestamp' = [prev_timestamp EXCEPT ![k] = garbage]
      /\ blocks' = blocks + 5 /\ UNCHANGED <<sortVars, next_file_idx, file, phase>>
  BY DEF CreateCoro, New
<1>2. k \in Coros /\ file[k] = 0 /\ next_file_idx \in Nat
  BY NumbersFacts, CorosAre DEF LeakInv, CreateCoro
<1>3. /\ life'[k] = "ready" /\ \A d \in Coros : d # k => life'[d] = life[d]
      /\ DOMAIN prev_timestamp' = Coros /\ prev_timestamp'[k] \in {NULL, WILD}
      /\ \A d \in Coros : d # k => prev_timestamp'[d] = prev_timestamp[d]
  BY <1>1, <1>2, NumbersFacts DEF LeakInv, BlocksInv
<1> HIDE DEF k
<1>4. Held[k] = 0 /\ Held'[k] = 5
  BY <1>1, <1>2, <1>3, HeldIs
<1>5. \A d \in Coros : file'[d] = file[d] /\ Len(sorted'[d]) = Len(sorted[d])
  BY <1>1 DEF sortVars
<1>6. blocks' = blocks + (next_file_idx' - next_file_idx) + Held'[k] - Held[k]
  <2>1. blocks \in Int
    BY BlocksInt
  <2> QED  BY <1>1, <1>2, <1>4, <2>1
<1> QED  BY <1>1, <1>2, <1>3, <1>5, <1>6, LeakMove

LEMMA DeleteLeaks ==
    ASSUME LeakInv, NumbersInv', TimeInv', phase = "coros", NEW c \in Coros, DeleteCoro(c)
    PROVE  LeakInv'
<1>1. /\ life[c] = "returned" /\ life' = [life EXCEPT ![c] = "free"]
      /\ blocks' = blocks - 2 /\ UNCHANGED <<sortVars, prev_timestamp, next_file_idx, file, phase>>
  BY DEF DeleteCoro, Delete, timeVars
<1>2. /\ life'[c] = "free" /\ \A d \in Coros : d # c => life'[d] = life[d]
      /\ next_file_idx \in Nat
  BY <1>1, NumbersFacts DEF LeakInv
<1>3. Held[c] = 2 /\ Held'[c] = 0
  BY <1>1, <1>2, HeldIs
<1>4. \A d \in Coros : /\ file'[d] = file[d] /\ Len(sorted'[d]) = Len(sorted[d])
                       /\ prev_timestamp'[d] = prev_timestamp[d]
  BY <1>1 DEF sortVars
<1>5. blocks' = blocks + (next_file_idx' - next_file_idx) + Held'[c] - Held[c]
  <2>1. blocks \in Int
    BY BlocksInt
  <2> QED  BY <1>1, <1>2, <1>3, <2>1
<1>6. DOMAIN prev_timestamp' = Coros
  BY <1>1 DEF LeakInv, BlocksInv
<1> QED  BY <1>1, <1>2, <1>4, <1>5, <1>6, LeakMove

LEMMA SortOnLeaks ==
    ASSUME LeakInv, SortInv', TimeInv', phase = "coros", NEW c \in Coros, SortOn(c)
    PROVE  LeakInv'
<1>1. /\ NumbersInv' /\ file[c] # 0 /\ Len(sorted[c]) \in Nat
      /\ Len(sorted'[c]) = Len(sorted[c]) + BlocksOf(Head(calls[c]))
  BY SortOnNumbers DEF LeakInv
<1>2. /\ Runs(c) /\ Work(c) /\ life' = life
      /\ sorted' = [sorted EXCEPT ![c] = SortedBy(Head(calls[c]), numbers[c], sorted[c])]
      /\ blocks' = blocks + BlocksOf(Head(calls[c])) /\ UNCHANGED <<next_file_idx, file, phase>>
  BY DEF SortOn, FinishCall, Yield
<1>3. /\ life[c] = "ready"
      /\ DOMAIN prev_timestamp' = Coros /\ prev_timestamp'[c] \in TimeSpec
      /\ \A d \in Coros : d # c => prev_timestamp'[d] = prev_timestamp[d]
  BY <1>2, StampIs
<1>4. \A d \in Coros : d # c => Len(sorted'[d]) = Len(sorted[d])
  <2>1. \A d \in Coros : d \in DOMAIN sorted
    BY NumbersFacts DEF LeakInv, NumbersInv
  <2> QED  BY <1>2, <2>1
<1>5. Held[c] = 6 + Len(sorted[c]) /\ Held'[c] = 6 + Len(sorted'[c])
  BY <1>1, <1>2, <1>3, HeldIs
<1>6. blocks' = blocks + (next_file_idx' - next_file_idx) + Held'[c] - Held[c]
  <2>1. blocks \in Int /\ next_file_idx \in Nat
    BY BlocksInt
  <2>2. BlocksOf(Head(calls[c])) \in Int
    BY DEF BlocksOf
  <2> DEFINE s == Len(sorted[c])  b == BlocksOf(Head(calls[c]))
  <2>3. s \in Nat /\ b \in Int /\ Held[c] = 6 + s /\ Held'[c] = 6 + (s + b) /\ blocks' = blocks + b
    BY <1>1, <1>2, <1>5, <2>2
  <2> HIDE DEF s, b
  <2> QED  BY <1>2, <2>1, <2>3
<1> QED  BY <1>1, <1>2, <1>3, <1>4, <1>6, LeakMove

LEMMA TakeFileLeaks ==
    ASSUME LeakInv, SortInv', TimeInv', phase = "coros", NEW c \in Coros, TakeFile(c)
    PROVE  LeakInv'
<1>1. /\ NumbersInv' /\ (file[c] # 0 => Len(sorted[c]) = 1) /\ Len(sorted'[c]) = 1
      /\ blocks' = blocks + BlocksOfStamp(c) - FreedAtLoop(c) + 1 + 1
  BY TakeFileNumbers DEF LeakInv
<1>2. /\ Runs(c) /\ Work(c) /\ life' = life
      /\ \E y : sorted' = [sorted EXCEPT ![c] = y]
      /\ next_file_idx' = next_file_idx + 1 /\ file' = [file EXCEPT ![c] = next_file_idx + 1]
      /\ UNCHANGED phase
  BY DEF TakeFile, FinishCall, Yield, Claimed
<1>3. /\ life[c] = "ready" /\ BlocksOfStamp(c) = IF file[c] = 0 THEN 1 ELSE 0
      /\ DOMAIN prev_timestamp' = Coros /\ prev_timestamp'[c] \in TimeSpec
      /\ \A d \in Coros : d # c => prev_timestamp'[d] = prev_timestamp[d]
  BY <1>2, StampIs
<1>4. \A d \in Coros : d # c => Len(sorted'[d]) = Len(sorted[d]) /\ file'[d] = file[d]
  <2>1. \A d \in Coros : d \in DOMAIN sorted /\ d \in DOMAIN file
    BY NumbersFacts DEF LeakInv, NumbersInv
  <2> QED  BY <1>2, <2>1
<1>5. next_file_idx \in Nat /\ file'[c] # 0
  BY <1>2, NumbersFacts DEF LeakInv
<1>6. Held'[c] = 7 /\ Held[c] = IF file[c] = 0 THEN 5 ELSE 7
  <2>1. life'[c] = "ready" /\ file'[c] # 0 /\ life[c] = "ready"
    BY <1>2, <1>3, <1>5
  <2>2. Held'[c] = 6 + Len(sorted'[c]) /\ Held[c] = IF file[c] = 0 THEN 5 ELSE 6 + Len(sorted[c])
    BY <2>1, HeldIs
  <2>3. Len(sorted'[c]) = 1 /\ (file[c] # 0 => 6 + Len(sorted[c]) = 6 + 1)
    BY <1>1
  <2>4. Held'[c] = 6 + 1
    BY <2>2, <2>3
  <2>5. Held[c] = IF file[c] = 0 THEN 5 ELSE 6 + 1
    BY <2>2, <2>3, Zenon
  <2> QED  BY <2>4, <2>5
<1>7. blocks' = blocks + (next_file_idx' - next_file_idx) + Held'[c] - Held[c]
  <2>1. blocks \in Int
    BY BlocksInt
  <2> QED  BY <1>1, <1>2, <1>3, <1>5, <1>6, <2>1 DEF FreedAtLoop
<1> QED  BY <1>1, <1>2, <1>3, <1>4, <1>5, <1>7, LeakMove

LEMMA LeaveLeaks ==
    ASSUME LeakInv, SortInv', TimeInv', phase = "coros", NEW c \in Coros, Leave(c)
    PROVE  LeakInv'
<1>1. NumbersInv' /\ (file[c] # 0 => Len(sorted[c]) = 1)
  BY LeaveNumbers DEF LeakInv
<1>2. /\ Runs(c) /\ Work(c) /\ coro_this = c /\ life' = [life EXCEPT ![coro_this] = "finished"]
      /\ blocks' = blocks + BlocksOfStamp(c) - FreedAtLoop(c) - 4
      /\ UNCHANGED <<sortVars, next_file_idx, file, phase>>
  BY DEF Leave, Finish, Runs
<1>3. /\ life[c] = "ready" /\ BlocksOfStamp(c) = IF file[c] = 0 THEN 1 ELSE 0
      /\ DOMAIN prev_timestamp' = Coros
      /\ \A d \in Coros : d # c => prev_timestamp'[d] = prev_timestamp[d]
  BY <1>2, StampIs
<1>4. life'[c] = "finished" /\ \A d \in Coros : d # c => life'[d] = life[d]
  BY <1>2, NumbersFacts DEF LeakInv
<1>5. \A d \in Coros : Len(sorted'[d]) = Len(sorted[d]) /\ file'[d] = file[d]
  BY <1>2 DEF sortVars
<1>6. Held'[c] = 2 /\ Held[c] = IF file[c] = 0 THEN 5 ELSE 7
  <2>1. Held'[c] = 2 /\ Held[c] = IF file[c] = 0 THEN 5 ELSE 6 + Len(sorted[c])
    BY <1>3, <1>4, HeldIs
  <2>2. file[c] # 0 => 6 + Len(sorted[c]) = 6 + 1
    BY <1>1
  <2>3. Held[c] = IF file[c] = 0 THEN 5 ELSE 6 + 1
    BY <2>1, <2>2, Zenon
  <2> QED  BY <2>1, <2>3
<1>7. blocks' = blocks + (next_file_idx' - next_file_idx) + Held'[c] - Held[c]
  <2>1. blocks \in Int /\ next_file_idx \in Nat
    BY BlocksInt
  <2> QED  BY <1>2, <1>3, <1>6, <2>1 DEF FreedAtLoop
<1> QED  BY <1>1, <1>2, <1>3, <1>4, <1>5, <1>7, LeakMove

\* When no coroutine is left, main has its three blocks and the sorted files.
LEMMA CollectLeaks ==
    ASSUME LeakInv, SortInv', TimeInv', phase = "coros", Collect
    PROVE  LeakInv'
<1>1. /\ NumbersInv' /\ \A c \in Coros : life[c] = "free"
      /\ phase' = "merge" => next_file_idx = files_total /\ sorted' = sorted
  BY CollectNumbers DEF LeakInv
<1>2. life' = life /\ UNCHANGED <<prev_timestamp, next_file_idx, file>>
  BY DEF Collect, WaitNone, timeVars
<1>3. CASE phase' # "merge"
  <2>1. phase' \notin {"coros", "merge", "done"} /\ UNCHANGED <<sorted, blocks>>
    BY <1>3 DEF Collect, sortVars
  <2> QED  BY <1>1, <1>2, <2>1, LeakStays
<1>4. CASE phase' = "merge"
  <2>1. blocks' = blocks + 1 - 2 - files_total
    BY <1>4 DEF Collect
  <2>2. Rows(Held) = {}
    <3>1. 1 .. 0 = {}
      OBVIOUS
    <3>2. \A c \in Coros : Held[c] = 0
      BY <1>1, HeldIs
    <3> QED  BY <3>1, <3>2 DEF Rows
  <2>3. Cardinality(Rows(Held)) = 0
    BY <2>2, FS_EmptySet
  <2>4. blocks = 3 + next_file_idx + 0 /\ sorted[SCHED] = << >>
    BY <2>3 DEF LeakInv, BlocksInv, NumbersInv
  <2>5. blocks' = 2 /\ Len(sorted'[SCHED]) = 0
    BY <1>1, <1>4, <2>1, <2>4, NumbersFacts DEF LeakInv
  <2>6. BlocksInv'
    BY <1>1, <1>2, <1>4, <2>5 DEF LeakInv, BlocksInv
  <2> QED  BY <1>1, <2>6 DEF LeakInv
<1> QED  BY <1>3, <1>4

LEMMA MergeLeaks ==
    ASSUME LeakInv, SortInv', TimeInv', phase = "merge", SortAll \/ WriteResult
    PROVE  LeakInv'
<1>1. CASE SortAll
  <2>1. /\ NumbersInv' /\ Len(sorted[SCHED]) \in Nat
        /\ Len(sorted'[SCHED]) = Len(sorted[SCHED]) + BlocksOf(Head(calls[SCHED]))
    BY <1>1, SortAllNumbers DEF LeakInv
  <2>2. /\ blocks' = blocks + BlocksOf(Head(calls[SCHED]))
        /\ life' = life /\ UNCHANGED <<prev_timestamp, file, phase>>
    BY <1>1 DEF SortAll, FinishCall, Yield, timeVars
  <2>3. blocks' = 2 + Len(sorted'[SCHED])
    <3>1. blocks = 2 + Len(sorted[SCHED])
      BY DEF LeakInv, BlocksInv
    <3>2. BlocksOf(Head(calls[SCHED])) \in Int
      BY DEF BlocksOf
    <3> DEFINE s == Len(sorted[SCHED])  b == BlocksOf(Head(calls[SCHED]))
    <3>3. s \in Nat /\ b \in Int /\ blocks' = (2 + s) + b /\ Len(sorted'[SCHED]) = s + b
      BY <2>1, <2>2, <3>1, <3>2
    <3> HIDE DEF s, b
    <3> QED  BY <3>3
  <2>4. BlocksInv'
    BY <2>2, <2>3 DEF LeakInv, BlocksInv
  <2> QED  BY <2>1, <2>4 DEF LeakInv
<1>2. CASE WriteResult
  <2>1. NumbersInv' /\ Len(sorted[SCHED]) = 1
    BY <1>2, WriteNumbers DEF LeakInv
  <2>2. /\ blocks' = blocks - 2 + 2 - 3 /\ phase' = "done"
        /\ UNCHANGED <<life, prev_timestamp, file>>
    BY <1>2 DEF WriteResult, timeVars, coroVars
  <2>3. blocks = 2 + 1
    BY <2>1 DEF LeakInv, BlocksInv
  <2>4. BlocksInv'
    BY <2>2, <2>3 DEF LeakInv, BlocksInv
  <2> QED  BY <2>1, <2>4 DEF LeakInv
<1> QED  BY <1>1, <1>2

LEMMA LeakStep == LeakInv /\ [SortNext]_vars => LeakInv'
<1> SUFFICES ASSUME LeakInv, [SortNext]_vars PROVE LeakInv'
  OBVIOUS
<1>1. SortInv' /\ TimeInv' /\ NumbersInv'
  BY SortStepInv, TimeStep, NumbersStep DEF LeakInv, NumbersInv
<1>2. CASE phase = "coros" /\ CreateCoro
  BY <1>1, <1>2, CreateLeaks
<1>3. CASE Wait \/ UNCHANGED vars
  <2>1. \A c \in Coros : /\ life'[c] = "ready" <=> life[c] = "ready"
                         /\ life'[c] = "free" <=> life[c] = "free"
    <3>1. CASE Wait
      BY <3>1, NumbersFacts DEF LeakInv, Wait, WaitResume, WaitReturn, Finished
    <3>2. CASE UNCHANGED vars
      BY <3>2 DEF vars, coroVars
    <3> QED  BY <1>3, <3>1, <3>2
  <2>2. UNCHANGED <<sorted, prev_timestamp, next_file_idx, file, blocks, phase>>
    BY <1>3 DEF Wait, vars, sortVars, timeVars
  <2> QED  BY <1>1, <2>1, <2>2, LeakStays
<1>4. CASE phase = "coros" /\ Collect
  BY <1>1, <1>4, CollectLeaks
<1>5. ASSUME phase = "coros", NEW c \in Coros,
             DeleteCoro(c) \/ SortOn(c) \/ TakeFile(c) \/ Leave(c) \/ StartWild(c)
      PROVE  LeakInv'
  <2>1. CASE DeleteCoro(c)
    BY <1>1, <1>5, <2>1, DeleteLeaks
  <2>2. CASE SortOn(c)
    BY <1>1, <1>5, <2>2, SortOnLeaks
  <2>3. CASE TakeFile(c)
    BY <1>1, <1>5, <2>3, TakeFileLeaks
  <2>4. CASE Leave(c)
    BY <1>1, <1>5, <2>4, LeaveLeaks
  <2>5. CASE StartWild(c)
    <3>1. /\ UNCHANGED <<life, sorted, prev_timestamp, next_file_idx, file, blocks>>
          /\ phase' \notin {"coros", "merge", "done"}
      BY <2>5 DEF StartWild, coroVars, sortVars, timeVars
    <3> QED  BY <1>1, <3>1, LeakStays
  <2> QED  BY <1>5, <2>1, <2>2, <2>3, <2>4, <2>5
<1>6. CASE phase = "merge" /\ (SortAll \/ WriteResult)
  BY <1>1, <1>6, MergeLeaks
<1> QED  BY <1>2, <1>3, <1>4, <1>5, <1>6 DEF SortNext

\* Every block is freed when the program ends without undefined behaviour: those of
\* the contexts (solution.c 30-53), of the times, of the numbers read, of each merge
\* (220-221) and of main (118-151).
THEOREM NoLeakAlways == SortSpec => []NoLeak
<1>1. LeakInv => NoLeak
  BY DEF LeakInv, BlocksInv, NoLeak
<1> QED  BY <1>1, LeakInit, LeakStep, PTL DEF SortSpec
=============================================================================
