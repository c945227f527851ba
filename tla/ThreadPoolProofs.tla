--------------------------- MODULE ThreadPoolProofs ---------------------------
(***************************************************************************)
(* What holds of ThreadPool for any number of clients, tasks, jobs and     *)
(* threads: types, wake-ups, jobs, memory and the list; and what callers   *)
(* see: the counters of threads, a thread for every job, joins, and the    *)
(* implementation of TaskService.                                          *)
(***************************************************************************)
EXTENDS ThreadPool, FiniteSetTheorems, TLAPS

USE ThreadPoolAssumption

JoinPc == ClientPc \ {"idle", "closing", "closewake"}

\* A client is about a job exactly while it is inside a join.
PcOK == \A c \in Clients : pc[c] \in JoinPc <=> cjob[c] # NULL

TypeInv == Typed /\ PcOK

-----------------------------------------------------------------------------
(* Type correctness                                                        *)

\* Waking workers keeps the threads where threads can be (broadcast at 142, 193).
LEMMA WakeWorkersType ==
    ASSUME Typed PROVE WakeWorkers \in [Workers -> WorkerPc]
BY DEF Typed, WakeWorkers, WorkerPc

\* Creating a thread, or failing to, does too (push 172-176).
LEMMA SpawnType ==
    ASSUME Typed, Spawn
    PROVE  worker' \in [Workers -> WorkerPc] /\ threads_cnt' \in Int
<1>1. CASE NeedThread
  <2>1. PICK wk \in {WakeWorkers, [WakeWorkers EXCEPT ![threads_cnt + 1] = "lock"]} :
             worker' = wk /\ threads_cnt' = threads_cnt + 1
    BY <1>1 DEF Spawn
  <2> QED  BY <2>1, WakeWorkersType DEF Typed, WorkerPc
<1>2. CASE ~NeedThread
  BY <1>2, WakeWorkersType DEF Spawn, Typed
<1> QED  BY <1>1, <1>2

\* Moving a job relates jobs only (worker 290-310).
LEMMA MoveType == ASSUME Typed, NEW j \in Jobs PROVE MoveToEnd(j) \subseteq Jobs \X Jobs
BY DEF Typed, MoveToEnd, Unlink, Chain

\* Signalling a job leaves the clients where clients can be (322).
LEMMA SignalType ==
    ASSUME TypeInv, NEW j \in Jobs, SignalEnd(j), UNCHANGED cjob
    PROVE  pc' \in [Clients -> ClientPc] /\ PcOK'
BY DEF TypeInv, Typed, PcOK, SignalEnd, Waiters, ClientPc, JoinPc

\* Freeing jobs keeps the type of everything delete_task touches (378-449).
LEMMA DropType ==
    ASSUME Typed, NEW S \in SUBSET Jobs, NEW run \in SUBSET Jobs, NEW fin \in SUBSET Jobs,
           Drop(S, run, fin)
    PROVE  /\ tasks_cnt' \in Int
           /\ order' \subseteq Jobs \X Jobs
           /\ thread_task' \in [Jobs -> Tasks \cup {NULL}]
           /\ list' \in [Tasks -> Jobs \cup {NULL}]
           /\ tasks' \subseteq Tasks
           /\ is_running' \subseteq Jobs /\ is_finished' \subseteq Jobs
           /\ is_joined' \subseteq Jobs /\ is_detached' \subseteq Jobs
<1>1. IsFiniteSet(S) /\ Cardinality(S) \in Nat
  BY FS_Subset, FS_CardinalityType
<1>2. tasks_cnt' \in Int
  BY <1>1 DEF Drop, deleted_tasks_cnt, Typed
<1>3. order' \subseteq Jobs \X Jobs
  BY DEF Drop, Unlink, Typed
<1>4. thread_task' \in [Jobs -> Tasks \cup {NULL}]
  BY DEF Drop, Typed
<1>5. list' \in [Tasks -> Jobs \cup {NULL}]
  BY DEF Drop, Typed
<1>6. /\ tasks' \subseteq Tasks
      /\ is_running' \subseteq Jobs /\ is_finished' \subseteq Jobs
      /\ is_joined' \subseteq Jobs /\ is_detached' \subseteq Jobs
  BY DEF Drop, Typed
<1> QED  BY <1>2, <1>3, <1>4, <1>5, <1>6

\* Every call keeps the types.
LEMMA CallType ==
    ASSUME TypeInv, NEW c \in Clients, Call(c) PROVE TypeInv'
<1> USE DEF poolVars, jobVars, flags
<1>1. ASSUME NEW n \in 0 .. TPOOL_MAX_THREADS + 1, NewPool(c, n) PROVE TypeInv'
  BY <1>1 DEF NewPool, ValidCount, TypeInv, Typed, PcOK
<1>2. ASSUME NEW t \in Tasks, NewTask(c, t) PROVE TypeInv'
  BY <1>2 DEF NewTask, TypeInv, Typed, PcOK
<1>3. ASSUME NEW t \in Tasks, Push(c, t) PROVE TypeInv'
  <2>1. worker' \in [Workers -> WorkerPc] /\ threads_cnt' \in Int
    BY <1>3, SpawnType DEF Push, TypeInv
  <2>2. PICK j \in Jobs : /\ thread_task' = [thread_task EXCEPT ![j] = t]
                          /\ list' = [list EXCEPT ![t] = j]
                          /\ order' = Prepend(j)
    BY <1>3 DEF Push
  <2>3. /\ thread_task' \in [Jobs -> Tasks \cup {NULL}]
        /\ list' \in [Tasks -> Jobs \cup {NULL}]
    BY <2>2 DEF TypeInv, Typed
  <2>4. order' \subseteq Jobs \X Jobs
    BY <2>2 DEF TypeInv, Typed, Prepend, Chain
  <2> QED  BY <1>3, <2>1, <2>3, <2>4 DEF Push, TypeInv, Typed, PcOK
<1>4. ASSUME NEW t \in Tasks, PushRejected(c, t) PROVE TypeInv'
  BY <1>4 DEF PushRejected, vars, TypeInv, Typed, PcOK
<1>5. ASSUME NEW t \in Tasks, NEW how \in {"join", "tjoin", "tzero", "thuge"},
             JoinEnter(c, t, how)
      PROVE TypeInv'
  BY <1>5 DEF JoinEnter, Idle, TypeInv, Typed, PcOK, ClientPc, JoinPc
<1>6. ASSUME NEW t \in Tasks, DeleteUnpushed(c, t) PROVE TypeInv'
  BY <1>6 DEF DeleteUnpushed, TypeInv, Typed, PcOK
<1>7. ASSUME NEW t \in Tasks, DeleteTask(c, t) PROVE TypeInv'
  <2>1. CASE Drop(JobsOf(t), is_running, is_finished)
    BY <1>7, <2>1, DropType DEF DeleteTask, JobsOf, TypeInv, Typed, PcOK
  <2>2. CASE UNCHANGED jobVars
    BY <1>7, <2>2 DEF DeleteTask, TypeInv, Typed, PcOK
  <2> QED  BY <1>7, <2>1, <2>2 DEF DeleteTask
<1>8. ASSUME NEW t \in Tasks, Detach(c, t) PROVE TypeInv'
  <2>1. CASE Drop(JobsOf(t), is_running, is_finished)
    BY <1>8, <2>1, DropType DEF Detach, JobsOf, TypeInv, Typed, PcOK
  <2>2. CASE /\ is_detached' = is_detached \cup {list[t]}
             /\ UNCHANGED <<tasks_cnt, order, thread_task, list, tasks,
                            is_running, is_finished, is_joined>>
    BY <1>8, <2>2 DEF Detach, TypeInv, Typed, PcOK
  <2> QED  BY <1>8, <2>1, <2>2 DEF Detach
<1>9. ASSUME DeletePool(c) PROVE TypeInv'
  <2>1. worker' \in [Workers -> WorkerPc]
    BY <1>9, WakeWorkersType DEF DeletePool, TypeInv, Typed
  <2>2. pc' \in [Clients -> ClientPc] /\ PcOK'
    BY <1>9 DEF DeletePool, Idle, TypeInv, Typed, PcOK, ClientPc, JoinPc
  <2> QED  BY <1>9, <2>1, <2>2 DEF DeletePool, FreePool, TypeInv, Typed
<1> QED  BY <1>1, <1>2, <1>3, <1>4, <1>5, <1>6, <1>7, <1>8, <1>9 DEF Call

\* So does every step of a call that waited, and every timeout.
LEMMA ContinueType ==
    ASSUME TypeInv, NEW c \in Clients, Continue(c) \/ Expire(c) \/ SpuriousClient(c)
    PROVE  TypeInv'
<1> USE DEF poolVars, jobVars
<1>1. ASSUME JoinLock(c) PROVE TypeInv'
  <2>1. cjob[c] \in Jobs
    BY <1>1 DEF JoinLock, TypeInv, Typed, PcOK, ClientPc, JoinPc
  <2>2. WaitPc(pc[c]) \subseteq ClientPc \cap JoinPc
    BY <1>1 DEF JoinLock, WaitPc, ClientPc, JoinPc
  <2>3. /\ pc' \in [Clients -> ClientPc]
        /\ cjob' \in [Clients -> Jobs \cup {NULL}]
        /\ PcOK'
    <3>1. CASE Return(c)
      BY <3>1 DEF Return, TypeInv, Typed, PcOK, ClientPc, JoinPc
    <3>2. CASE (\E next \in WaitPc(pc[c]) : pc' = [pc EXCEPT ![c] = next]) /\ cjob' = cjob
      BY <3>2, <2>1, <2>2 DEF TypeInv, Typed, PcOK
    <3> QED  BY <1>1, <3>1, <3>2 DEF JoinLock
  <2> QED  BY <1>1, <2>1, <2>3 DEF JoinLock, TypeInv, Typed
<1>2. ASSUME JoinNoTime(c) \/ JoinWake(c) \/ ExpiredReturn(c) PROVE TypeInv'
  BY <1>2 DEF JoinNoTime, JoinWake, ExpiredReturn, Return, TypeInv, Typed, PcOK,
              ClientPc, JoinPc
<1>3. ASSUME CloseWake(c) PROVE TypeInv'
  BY <1>3 DEF CloseWake, FreePool, TypeInv, Typed, PcOK, ClientPc, JoinPc
<1>4. ASSUME Expire(c) \/ SpuriousClient(c) PROVE TypeInv'
  <2>1. UNCHANGED <<poolVars, jobVars, worker, wjob, cjob, uaf>>
    BY <1>4 DEF Expire, SpuriousClient
  <2>2. PICK s : /\ pc' = [pc EXCEPT ![c] = s]
                 /\ \/ s \in {"woken", "expired"} /\ pc[c] \in {"wait", "twait"}
                    \/ s = "closewake" /\ pc[c] = "closing"
    BY <1>4 DEF Expire, SpuriousClient, TypeInv, Typed
  <2>3. pc' \in [Clients -> ClientPc]
    BY <2>2 DEF TypeInv, Typed, ClientPc
  <2>4. PcOK'
    BY <2>1, <2>2 DEF TypeInv, Typed, PcOK, ClientPc, JoinPc
  <2> QED  BY <2>1, <2>3, <2>4 DEF TypeInv, Typed
<1> QED  BY <1>1, <1>2, <1>3, <1>4 DEF Continue

\* And every step of a worker.
LEMMA WorkType ==
    ASSUME TypeInv, NEW w \in Workers, Work(w) \/ SpuriousWorker(w) PROVE TypeInv'
<1> USE DEF poolVars, jobVars
<1>1. ASSUME Pick(w) PROVE TypeInv'
  <2>1. PICK j \in Jobs : /\ is_running' = is_running \cup {j}
                          /\ order' = MoveToEnd(j)
                          /\ wjob' = [wjob EXCEPT ![w] = j]
    BY <1>1 DEF Pick, get_task, Unpicked, Chain
  <2>2. order' \subseteq Jobs \X Jobs
    BY <2>1, MoveType DEF TypeInv
  <2> QED  BY <1>1, <2>1, <2>2 DEF Pick, TypeInv, Typed, PcOK, WorkerPc
<1>2. ASSUME Sleep(w) PROVE TypeInv'
  BY <1>2 DEF Sleep, TypeInv, Typed, PcOK, WorkerPc
<1>3. ASSUME Exit(w) PROVE TypeInv'
  BY <1>3 DEF Exit, TypeInv, Typed, PcOK, WorkerPc, ClientPc, JoinPc
<1>4. ASSUME Complete(w) PROVE TypeInv'
  <2>1. wjob[w] \in Jobs
    BY <1>4 DEF Complete, Live
  <2>2. pc' \in [Clients -> ClientPc] /\ PcOK'
    BY <1>4, <2>1, SignalType DEF Complete, Finished
  <2> QED  BY <1>4, <2>1, <2>2 DEF Complete, Finished, TypeInv, Typed, WorkerPc
<1>5. ASSUME CompleteDetached(w) PROVE TypeInv'
  <2>1. /\ wjob[w] \in Jobs
        /\ Drop(JobsOf(thread_task[wjob[w]]), is_running \ {wjob[w]},
                is_finished \cup {wjob[w]})
    BY <1>5 DEF CompleteDetached, Live
  <2>2. /\ JobsOf(thread_task[wjob[w]]) \in SUBSET Jobs
        /\ is_running \ {wjob[w]} \in SUBSET Jobs
        /\ is_finished \cup {wjob[w]} \in SUBSET Jobs
    BY <2>1 DEF JobsOf, TypeInv, Typed
  <2>3. /\ tasks_cnt' \in Int
        /\ order' \subseteq Jobs \X Jobs
        /\ thread_task' \in [Jobs -> Tasks \cup {NULL}]
        /\ list' \in [Tasks -> Jobs \cup {NULL}]
        /\ tasks' \subseteq Tasks
        /\ is_running' \subseteq Jobs /\ is_finished' \subseteq Jobs
        /\ is_joined' \subseteq Jobs /\ is_detached' \subseteq Jobs
    BY <2>1, <2>2, DropType DEF TypeInv
  <2>4. /\ worker' \in [Workers -> WorkerPc]
        /\ wjob' \in [Workers -> Jobs \cup {NULL}]
        /\ active_threads_cnt' \in Int
        /\ UNCHANGED <<pool, max_threads_cnt, threads_cnt, pc, cjob>>
        /\ uaf' \subseteq {"signal", "finish"}
    BY <1>5 DEF CompleteDetached, Finished, TypeInv, Typed, WorkerPc
  <2> QED  BY <2>3, <2>4 DEF TypeInv, Typed, PcOK
<1>6. ASSUME CompleteFreed(w) PROVE TypeInv'
  BY <1>6 DEF CompleteFreed, Finished, TypeInv, Typed, PcOK, WorkerPc
<1>7. ASSUME SpuriousWorker(w) PROVE TypeInv'
  BY <1>7 DEF SpuriousWorker, TypeInv, Typed, PcOK, WorkerPc
<1> QED  BY <1>1, <1>2, <1>3, <1>4, <1>5, <1>6, <1>7 DEF Work

\* The inductive step of TypeInv.
LEMMA TypeStep == TypeInv /\ [Next]_vars => TypeInv'
<1> SUFFICES ASSUME TypeInv, [Next]_vars PROVE TypeInv'
  OBVIOUS
<1>1. CASE Next
  BY <1>1, CallType, ContinueType, WorkType DEF Next
<1>2. CASE UNCHANGED vars
  BY <1>2 DEF vars, poolVars, jobVars, TypeInv, Typed, PcOK
<1> QED  BY <1>1, <1>2

\* Initially everything is empty.
LEMMA TypeInit == Init => TypeInv
BY DEF Init, TypeInv, Typed, PcOK, WorkerPc, ClientPc, JoinPc

\* Typed is an invariant, and a client has a job exactly while it joins one.
THEOREM TypeCorrect == Spec => []TypeInv
BY TypeInit, TypeStep, PTL DEF Spec

-----------------------------------------------------------------------------
(* No lost wake-up                                                         *)

\* What the calls and the workers do to the jobs nobody has picked: only a push
\* adds one.
LEMMA DropUnpicked ==
    ASSUME NEW S, NEW run, NEW fin, Drop(S, run, fin),
           is_running \cup is_finished \subseteq run \cup fin
    PROVE  Unpicked' \subseteq Unpicked
BY DEF Drop, Unpicked, Chain, Unlink

\* The broadcasts leave no worker asleep (142, 193).
LEMMA SpawnAwake ==
    ASSUME Typed, Spawn PROVE \A w \in Workers : worker'[w] # "wait"
<1>1. \A w \in Workers : WakeWorkers[w] # "wait"
  BY DEF WakeWorkers
<1>2. \A w \in Workers : [WakeWorkers EXCEPT ![threads_cnt + 1] = "lock"][w] # "wait"
  BY <1>1 DEF WakeWorkers
<1> QED  BY <1>1, <1>2 DEF Spawn

\* The inductive step: a push broadcasts, nothing else adds to the jobs that
\* wait, and a worker sleeps only after it saw none.
LEMMA NoLostWakeupStep ==
    ASSUME TypeInv, NoLostWakeup, [Next]_vars PROVE NoLostWakeup'
<1> USE DEF poolVars, jobVars, flags, NoLostWakeup
<1>1. CASE UNCHANGED vars
  BY <1>1 DEF vars, Unpicked, Chain
<1>2. ASSUME NEW c \in Clients, Call(c) PROVE NoLostWakeup'
  <2>1. ASSUME NEW n \in 0 .. TPOOL_MAX_THREADS + 1, NewPool(c, n) PROVE NoLostWakeup'
    BY <2>1 DEF NewPool, Unpicked, Chain
  <2>2. ASSUME NEW t \in Tasks, Push(c, t) PROVE NoLostWakeup'
    BY <2>2, SpawnAwake DEF Push, TypeInv
  <2>3. ASSUME NEW t \in Tasks, DeleteTask(c, t) PROVE NoLostWakeup'
    <3>1. CASE Drop(JobsOf(t), is_running, is_finished)
      BY <2>3, <3>1, DropUnpicked DEF DeleteTask
    <3>2. CASE UNCHANGED jobVars
      BY <2>3, <3>2 DEF DeleteTask, Unpicked, Chain
    <3> QED  BY <2>3, <3>1, <3>2 DEF DeleteTask
  <2>4. ASSUME NEW t \in Tasks, Detach(c, t) PROVE NoLostWakeup'
    <3>1. CASE Drop(JobsOf(t), is_running, is_finished)
      BY <2>4, <3>1, DropUnpicked DEF Detach
    <3>2. CASE UNCHANGED <<tasks_cnt, order, thread_task, list, tasks,
                           is_running, is_finished, is_joined>>
      BY <2>4, <3>2 DEF Detach, Unpicked, Chain
    <3> QED  BY <2>4, <3>1, <3>2 DEF Detach
  <2>5. ASSUME DeletePool(c) PROVE NoLostWakeup'
    BY <2>5 DEF DeletePool, WakeWorkers, Unpicked, Chain
  <2>6. ASSUME NEW t \in Tasks,
               \/ NewTask(c, t) \/ PushRejected(c, t) \/ DeleteUnpushed(c, t)
               \/ \E how \in {"join", "tjoin", "tzero", "thuge"} : JoinEnter(c, t, how)
        PROVE NoLostWakeup'
    BY <2>6 DEF NewTask, PushRejected, DeleteUnpushed, JoinEnter, vars, Unpicked, Chain
  <2> QED  BY <1>2, <2>1, <2>2, <2>3, <2>4, <2>5, <2>6 DEF Call
<1>3. ASSUME NEW c \in Clients, Continue(c) \/ Expire(c) \/ SpuriousClient(c)
      PROVE NoLostWakeup'
  BY <1>3 DEF Continue, Expire, SpuriousClient, JoinLock, JoinNoTime, JoinWake,
              ExpiredReturn, CloseWake, Unpicked, Chain
<1>4. ASSUME NEW w \in Workers, Work(w) \/ SpuriousWorker(w) PROVE NoLostWakeup'
  <2>1. CASE Pick(w)
    <3>1. PICK j \in Unpicked : /\ is_running' = is_running \cup {j}
                                /\ order' = MoveToEnd(j)
      BY <2>1 DEF Pick, get_task
    <3>2. \A k \in Workers : worker[k] # "wait"
      BY <3>1
    <3> QED  BY <2>1, <3>2 DEF Pick, TypeInv, Typed
  <2>2. CASE Sleep(w)
    BY <2>2 DEF Sleep, Unpicked, Chain
  <2>3. CASE Exit(w)
    BY <2>3 DEF Exit, Unpicked, Chain, TypeInv, Typed
  <2>4. CASE Complete(w)
    BY <2>4 DEF Complete, Finished, Unpicked, Chain, TypeInv, Typed
  <2>5. CASE CompleteDetached(w)
    <3>1. Unpicked' \subseteq Unpicked
      BY <2>5, DropUnpicked DEF CompleteDetached
    <3> QED  BY <2>5, <3>1 DEF CompleteDetached, Finished, TypeInv, Typed
  <2>6. CASE CompleteFreed(w)
    BY <2>6 DEF CompleteFreed, Finished, Unpicked, Chain, TypeInv, Typed
  <2>7. CASE SpuriousWorker(w)
    BY <2>7 DEF SpuriousWorker, Unpicked, Chain, TypeInv, Typed
  <2> QED  BY <1>4, <2>1, <2>2, <2>3, <2>4, <2>5, <2>6, <2>7 DEF Work
<1> QED  BY <1>1, <1>2, <1>3, <1>4 DEF Next

\* No worker sleeps while a job waits, whatever the callers and the platform do.
THEOREM NoLostWakeupAlways == Spec => []NoLostWakeup
<1>1. Init => NoLostWakeup
  BY DEF Init, NoLostWakeup, Unpicked, Chain
<1>2. TypeInv /\ NoLostWakeup /\ [Next]_vars => NoLostWakeup'
  BY NoLostWakeupStep
<1> QED  BY <1>1, <1>2, TypeCorrect, PTL DEF Spec

-----------------------------------------------------------------------------
(* The threads there are                                                   *)

Alive == {w \in Workers : worker[w] # "off"}

\* Threads fill the array threads from its start, there are at most as many as
\* threads_cnt says, and none when there is no pool.
ThreadInv ==
    /\ Cardinality(Alive) <= threads_cnt
    /\ threads_cnt <= max_threads_cnt
    /\ pool # "closing" => \A w \in Alive : w <= threads_cnt
    /\ pool = "none" => threads_cnt = 0

\* The set of threads is finite, whatever subset of the slots it is.
LEMMA AliveFinite == IsFiniteSet(Alive) /\ Cardinality(Alive) \in Nat
<1>1. IsFiniteSet(Workers)
  BY FS_Interval DEF Workers
<1>2. Alive \in SUBSET Workers
  BY DEF Alive
<1> QED  BY <1>1, <1>2, FS_Subset, FS_CardinalityType

\* A thread pthread_create makes takes the first free slot (172-176).
LEMMA SpawnThreads ==
    ASSUME Typed, ThreadInv, pool = "open", Spawn
    PROVE  \/ /\ threads_cnt' = threads_cnt /\ Alive' = Alive
           \/ /\ NeedThread
              /\ threads_cnt' = threads_cnt + 1
              /\ \/ "create_fails" \in Env /\ Alive' = Alive
                 \/ /\ Alive' = Alive \cup {threads_cnt + 1}
                    /\ threads_cnt + 1 \in Workers \ Alive
<1>1. {w \in Workers : WakeWorkers[w] # "off"} = Alive
  BY DEF WakeWorkers, Alive
<1>2. CASE ~NeedThread
  BY <1>1, <1>2 DEF Spawn, Alive
<1>3. CASE NeedThread /\ "create_fails" \in Env /\ worker' = WakeWorkers
  BY <1>1, <1>3 DEF Spawn, Alive
<1>4. CASE NeedThread /\ worker' = [WakeWorkers EXCEPT ![threads_cnt + 1] = "lock"]
  <2>1. Cardinality(Alive) \in Nat
    BY AliveFinite
  <2>2. threads_cnt + 1 \in Workers
    BY <1>4, <2>1 DEF NeedThread, ThreadInv, Typed, Workers
  <2>3. threads_cnt + 1 \notin Alive
    BY <2>2 DEF ThreadInv, Typed
  <2>4. Alive' = Alive \cup {threads_cnt + 1}
    BY <1>1, <1>4, <2>2 DEF Alive, WakeWorkers
  <2> QED  BY <1>4, <2>2, <2>3, <2>4 DEF Spawn
<1> QED  BY <1>2, <1>3, <1>4 DEF Spawn

\* The inductive step: only a push adds a thread, only an exit takes one away.
LEMMA ThreadStep ==
    ASSUME TypeInv, ThreadInv, [Next]_vars PROVE ThreadInv'
<1> USE DEF poolVars
<1>0. IsFiniteSet(Alive) /\ Cardinality(Alive) \in Nat
  BY AliveFinite
<1>1. ASSUME NEW c \in Clients, NEW t \in Tasks, Push(c, t) PROVE ThreadInv'
  <2>1. Spawn /\ pool = "open" /\ UNCHANGED <<pool, max_threads_cnt>>
    BY <1>1 DEF Push
  <2>2. CASE UNCHANGED <<threads_cnt, Alive>>
    BY <2>1, <2>2 DEF ThreadInv
  <2>0. /\ threads_cnt \in Int /\ max_threads_cnt \in Int /\ threads_cnt < threads_cnt + 1
        /\ \A w \in Alive : w \in Int
        /\ NeedThread => threads_cnt + 1 <= max_threads_cnt
    BY DEF TypeInv, Typed, Alive, Workers, NeedThread
  <2>3. CASE NeedThread /\ threads_cnt' = threads_cnt + 1 /\ UNCHANGED Alive
    BY <1>0, <2>1, <2>3, <2>0 DEF ThreadInv
  <2>4. CASE /\ NeedThread /\ threads_cnt' = threads_cnt + 1
             /\ Alive' = Alive \cup {threads_cnt + 1}
    <3>1. Cardinality(Alive \cup {threads_cnt + 1}) <= Cardinality(Alive) + 1
      <4>1. Cardinality(Alive \cup {threads_cnt + 1})
              = IF threads_cnt + 1 \in Alive THEN Cardinality(Alive) ELSE Cardinality(Alive) + 1
        BY <1>0, FS_AddElement
      <4> QED  BY <4>1, <1>0
    <3>2. Cardinality(Alive') <= threads_cnt'
      <4>1. Cardinality(Alive \cup {threads_cnt + 1}) \in Nat
        BY <1>0, FS_AddElement, FS_CardinalityType
      <4> QED  BY <1>0, <2>4, <2>0, <3>1, <4>1 DEF ThreadInv
    <3>3. \A w \in Alive' : w <= threads_cnt'
      BY <2>1, <2>4, <2>0 DEF ThreadInv
    <3> QED  BY <2>1, <2>4, <2>0, <3>2, <3>3 DEF ThreadInv
  <2> QED  BY <2>1, <2>2, <2>3, <2>4, SpawnThreads DEF TypeInv
<1>2. ASSUME NEW w \in Workers, Exit(w) PROVE ThreadInv'
  <2>1. w \in Alive /\ Alive' = Alive \ {w}
    BY <1>2 DEF Exit, Alive, TypeInv, Typed
  <2>2. Cardinality(Alive') = Cardinality(Alive) - 1
    BY <1>0, <2>1, FS_RemoveElement
  <2> QED  BY <1>0, <1>2, <2>2 DEF Exit, ThreadInv, TypeInv, Typed
<1>3. ASSUME NEW c \in Clients, CloseWake(c) PROVE ThreadInv'
  <2>1. CASE threads_cnt = 0
    <3>1. Alive = {}
      BY <1>0, <2>1, FS_EmptySet DEF ThreadInv
    <3>2. Alive' = Alive /\ threads_cnt' = 0 /\ max_threads_cnt' = 0
      BY <1>3, <2>1 DEF CloseWake, FreePool, Alive
    <3> QED  BY <1>0, <2>1, <3>1, <3>2 DEF ThreadInv
  <2>2. CASE threads_cnt # 0
    BY <1>3, <2>2 DEF CloseWake, ThreadInv, Alive
  <2> QED  BY <2>1, <2>2
<1>4. ASSUME NEW c \in Clients, DeletePool(c) PROVE ThreadInv'
  <2>1. Alive' = Alive
    BY <1>4 DEF DeletePool, WakeWorkers, Alive
  <2>2. CASE UNCHANGED poolVars
    BY <2>1, <2>2 DEF ThreadInv
  <2>3. CASE threads_cnt = 0 /\ FreePool
    <3>1. Alive = {}
      BY <1>0, <2>3, FS_EmptySet DEF ThreadInv
    <3> QED  BY <1>0, <2>1, <2>3, <3>1 DEF FreePool, ThreadInv
  <2>4. CASE pool' = "closing" /\ UNCHANGED <<max_threads_cnt, threads_cnt>>
    BY <2>1, <2>4 DEF ThreadInv
  <2> QED  BY <1>4, <2>2, <2>3, <2>4 DEF DeletePool
<1>5. ASSUME NEW c \in Clients, NEW n \in 0 .. TPOOL_MAX_THREADS + 1, NewPool(c, n)
      PROVE ThreadInv'
  BY <1>5 DEF NewPool, ValidCount, ThreadInv, Alive, TypeInv, Typed
<1>6. ASSUME UNCHANGED <<pool, max_threads_cnt, threads_cnt>>, UNCHANGED Alive
      PROVE ThreadInv'
  BY <1>6 DEF ThreadInv
<1>7. ASSUME NEW c \in Clients, NEW t \in Tasks,
             \/ NewTask(c, t) \/ PushRejected(c, t) \/ DeleteUnpushed(c, t)
             \/ DeleteTask(c, t) \/ Detach(c, t)
             \/ \E how \in {"join", "tjoin", "tzero", "thuge"} : JoinEnter(c, t, how)
      PROVE ThreadInv'
  BY <1>6, <1>7 DEF NewTask, PushRejected, DeleteUnpushed, DeleteTask, Detach, JoinEnter,
                    vars, Alive
<1>8. ASSUME NEW c \in Clients,
             \/ JoinLock(c) \/ JoinNoTime(c) \/ JoinWake(c) \/ ExpiredReturn(c)
             \/ Expire(c) \/ SpuriousClient(c)
      PROVE ThreadInv'
  BY <1>6, <1>8 DEF JoinLock, JoinNoTime, JoinWake, ExpiredReturn, Expire, SpuriousClient,
                    Alive
<1>9. ASSUME NEW w \in Workers,
             \/ Pick(w) \/ Sleep(w) \/ Complete(w) \/ CompleteDetached(w) \/ CompleteFreed(w)
             \/ SpuriousWorker(w)
      PROVE ThreadInv'
  <2>1. UNCHANGED <<pool, max_threads_cnt, threads_cnt>>
    BY <1>9 DEF Pick, Sleep, Complete, CompleteDetached, CompleteFreed, Finished,
                SpuriousWorker
  <2>2. \E s \in WorkerPc \ {"off"} : worker[w] # "off" /\ worker' = [worker EXCEPT ![w] = s]
    BY <1>9 DEF Pick, Sleep, Complete, CompleteDetached, CompleteFreed, Finished,
                SpuriousWorker, WorkerPc
  <2>3. UNCHANGED Alive
    BY <2>2 DEF Alive, TypeInv, Typed
  <2> QED  BY <1>6, <2>1, <2>3
<1>10. CASE UNCHANGED vars
  BY <1>6, <1>10 DEF vars, Alive
<1> QED  BY <1>1, <1>2, <1>3, <1>4, <1>5, <1>7, <1>8, <1>9, <1>10
         DEF Next, Call, Continue, Work

\* Initially there is no thread.
LEMMA ThreadInit == Init => ThreadInv
<1>1. Init => Alive = {}
  BY DEF Init, Alive
<1> QED  BY <1>1, FS_EmptySet DEF Init, ThreadInv

\* The pool never has more threads than threads_cnt says, nor any without a pool.
THEOREM ThreadsBounded == Spec => []ThreadInv
BY ThreadInit, ThreadStep, TypeCorrect, PTL DEF Spec

-----------------------------------------------------------------------------
(* The list relates allocated jobs only                                    *)

OrderInv == order \subseteq Live \X Live

\* Unlinking the jobs that are freed leaves pairs of the others (404-431).
LEMMA DropOrder ==
    ASSUME Typed, OrderInv, NEW S, NEW run, NEW fin, Drop(S, run, fin) PROVE OrderInv'
BY DEF Typed, OrderInv, Drop, Unlink, Live

\* The inductive step.
LEMMA OrderStep ==
    ASSUME TypeInv, OrderInv, [Next]_vars PROVE OrderInv'
<1> USE DEF poolVars, jobVars
<1>1. ASSUME UNCHANGED <<order, thread_task>> PROVE OrderInv'
  BY <1>1 DEF OrderInv, Live
<1>2. ASSUME NEW c \in Clients, NEW n \in 0 .. TPOOL_MAX_THREADS + 1, NewPool(c, n)
      PROVE OrderInv'
  BY <1>2 DEF NewPool, OrderInv, Live
<1>3. ASSUME NEW c \in Clients, NEW t \in Tasks, Push(c, t) PROVE OrderInv'
  <2>1. PICK j \in Jobs \ Live : /\ thread_task' = [thread_task EXCEPT ![j] = t]
                                 /\ order' = Prepend(j)
    BY <1>3 DEF Push
  <2>2. Live' = Live \cup {j}
    BY <2>1 DEF Live, TypeInv, Typed
  <2>3. Chain \subseteq Live
    BY DEF Chain, OrderInv
  <2> QED  BY <2>1, <2>2, <2>3 DEF Prepend, OrderInv
<1>4. ASSUME NEW c \in Clients, NEW t \in Tasks, DeleteTask(c, t) \/ Detach(c, t)
      PROVE OrderInv'
  BY <1>1, <1>4, DropOrder DEF DeleteTask, Detach, TypeInv
<1>5. ASSUME NEW w \in Workers, Pick(w) PROVE OrderInv'
  <2>1. PICK j \in Chain : order' = MoveToEnd(j)
    BY <1>5 DEF Pick, get_task, Unpicked
  <2>2. Chain \subseteq Live
    BY DEF Chain, OrderInv
  <2>3. MoveToEnd(j) \subseteq order \cup (Chain \X {j})
    BY DEF MoveToEnd, Unlink
  <2>4. Live' = Live
    BY <1>5 DEF Pick, Live
  <2> QED  BY <2>1, <2>2, <2>3, <2>4 DEF OrderInv
<1>6. ASSUME NEW w \in Workers, CompleteDetached(w) PROVE OrderInv'
  BY <1>6, DropOrder DEF CompleteDetached, TypeInv
<1>7. ASSUME NEW c \in Clients, NEW t \in Tasks,
             \/ NewTask(c, t) \/ PushRejected(c, t) \/ DeleteUnpushed(c, t)
             \/ \E how \in {"join", "tjoin", "tzero", "thuge"} : JoinEnter(c, t, how)
      PROVE OrderInv'
  BY <1>1, <1>7 DEF NewTask, PushRejected, DeleteUnpushed, JoinEnter, vars
<1>8. ASSUME NEW c \in Clients,
             DeletePool(c) \/ Continue(c) \/ Expire(c) \/ SpuriousClient(c)
      PROVE OrderInv'
  BY <1>1, <1>8 DEF DeletePool, Continue, JoinLock, JoinNoTime, JoinWake, ExpiredReturn,
                    CloseWake, Expire, SpuriousClient
<1>9. ASSUME NEW w \in Workers,
             Sleep(w) \/ Exit(w) \/ Complete(w) \/ CompleteFreed(w) \/ SpuriousWorker(w)
      PROVE OrderInv'
  BY <1>1, <1>9 DEF Sleep, Exit, Complete, CompleteFreed, SpuriousWorker
<1>10. CASE UNCHANGED vars
  BY <1>1, <1>10 DEF vars
<1> QED  BY <1>2, <1>3, <1>4, <1>5, <1>6, <1>7, <1>8, <1>9, <1>10 DEF Next, Call, Work

-----------------------------------------------------------------------------
(* Flags, lists of tasks and joins are about allocated jobs, whatever callers *)
(* and platform do                                                            *)

\* A task's list begins with a job of the task, and only that job is detached.
TaskInv ==
    /\ \A t \in Tasks : list[t] # NULL => thread_task[list[t]] = t
    /\ \A j \in is_detached : list[thread_task[j]] = j

\* A join is about an allocated job of a task that was not detached.
JoinInv == \A c \in Clients : cjob[c] # NULL =>
              /\ cjob[c] \in Live
              /\ list[thread_task[cjob[c]]] \notin is_detached

LiveInv == FlagInv /\ TaskInv /\ JoinInv

\* A task no client is inside a call on has none of its jobs joined right now.
LEMMA NotInCall ==
    ASSUME TypeInv, NEW t \in Tasks, ~InCall(t)
    PROVE  \A c \in Clients : cjob[c] \notin JobsOf(t)
BY DEF InCall, JobsOf, TypeInv, Typed, PcOK, JoinPc

\* Freeing every job of one task leaves the other tasks and joins as they were.
LEMMA DropLive ==
    ASSUME TypeInv, LiveInv, NEW t \in Tasks, NEW run \in SUBSET Live, NEW fin \in SUBSET Live,
           Drop(JobsOf(t), run, fin),
           \A c \in Clients : cjob[c] \notin JobsOf(t), cjob' = cjob
    PROVE  LiveInv'
<1>1. /\ Live' = Live \ JobsOf(t)
      /\ \A j \in Live' : j \in Live /\ thread_task'[j] = thread_task[j] /\ thread_task[j] # t
  BY DEF Drop, Live, JobsOf, TypeInv, Typed
<1>2. \A u \in Tasks : u # t => list'[u] = list[u]
  BY DEF Drop, JobsOf, LiveInv, TaskInv, TypeInv, Typed
<1>3. list'[t] = NULL
  BY DEF Drop, JobsOf, LiveInv, TaskInv, TypeInv, Typed
<1>4. FlagInv'
  BY <1>1 DEF Drop, LiveInv, FlagInv
<1>5. \A j \in Live : thread_task[j] \in Tasks
  BY DEF Live, TypeInv, Typed
<1>6. TaskInv'
  <2>1. \A u \in Tasks : list'[u] # NULL => thread_task'[list'[u]] = u
    BY <1>1, <1>2, <1>3 DEF LiveInv, TaskInv, TypeInv, Typed, Live, JobsOf
  <2>2. \A j \in is_detached' : list'[thread_task'[j]] = j
    BY <1>1, <1>2, <1>4, <1>5 DEF Drop, LiveInv, TaskInv, FlagInv
  <2> QED  BY <2>1, <2>2 DEF TaskInv
<1>7. JoinInv'
  BY <1>1, <1>2, <1>5 DEF Drop, LiveInv, JoinInv
<1> QED  BY <1>4, <1>6, <1>7 DEF LiveInv

\* Every call keeps LiveInv.
LEMMA CallLive ==
    ASSUME TypeInv, LiveInv, NEW c \in Clients, Call(c) PROVE LiveInv'
<1> USE DEF poolVars, jobVars, flags
<1>0. ASSUME UNCHANGED <<thread_task, list, flags, cjob>> PROVE LiveInv'
  BY <1>0 DEF LiveInv, FlagInv, TaskInv, JoinInv, Live
<1>1. ASSUME NEW n \in 0 .. TPOOL_MAX_THREADS + 1, NewPool(c, n) PROVE LiveInv'
  BY <1>0, <1>1 DEF NewPool
<1>2. ASSUME NEW t \in Tasks, NewTask(c, t) \/ PushRejected(c, t) \/ DeleteUnpushed(c, t)
      PROVE LiveInv'
  BY <1>0, <1>2 DEF NewTask, PushRejected, DeleteUnpushed, vars
<1>3. ASSUME NEW t \in Tasks, Push(c, t) PROVE LiveInv'
  <2>1. PICK j \in Jobs \ Live : /\ thread_task' = [thread_task EXCEPT ![j] = t]
                                 /\ list' = [list EXCEPT ![t] = j]
    BY <1>3 DEF Push
  <2>2. UNCHANGED <<flags, cjob>> /\ list[t] \notin is_detached /\ ~InCall(t)
    BY <1>3 DEF Push, Owned
  <2>3. /\ Live' = Live \cup {j}
        /\ \A k \in Live : thread_task'[k] = thread_task[k] /\ k # j
    BY <2>1 DEF Live, TypeInv, Typed
  <2>4. FlagInv'
    BY <2>2, <2>3 DEF LiveInv, FlagInv
  <2>5. TaskInv'
    BY <2>1, <2>2, <2>3 DEF LiveInv, TaskInv, FlagInv, TypeInv, Typed, Live
  <2>6. JoinInv'
    BY <2>1, <2>2, <2>3, NotInCall DEF LiveInv, JoinInv, TypeInv, Typed, JobsOf, Live
  <2> QED  BY <2>4, <2>5, <2>6 DEF LiveInv
<1>4. ASSUME NEW t \in Tasks, NEW how \in {"join", "tjoin", "tzero", "thuge"},
             JoinEnter(c, t, how)
      PROVE LiveInv'
  <2>1. list[t] # NULL => thread_task[list[t]] = t /\ list[t] \in Live
    BY DEF LiveInv, TaskInv, Live, TypeInv, Typed
  <2>2. JoinInv'
    BY <1>4, <2>1 DEF JoinEnter, Owned, LiveInv, JoinInv, Live, TypeInv, Typed
  <2> QED  BY <1>4, <2>2 DEF JoinEnter, LiveInv, FlagInv, TaskInv, Live
<1>5. ASSUME NEW t \in Tasks, ~InCall(t), Drop(JobsOf(t), is_running, is_finished), cjob' = cjob
      PROVE LiveInv'
  <2>1. is_running \in SUBSET Live /\ is_finished \in SUBSET Live
    BY DEF LiveInv, FlagInv
  <2> QED  BY <1>5, <2>1, NotInCall, DropLive
<1>6. ASSUME NEW t \in Tasks, DeleteTask(c, t) PROVE LiveInv'
  BY <1>0, <1>5, <1>6 DEF DeleteTask
<1>7. ASSUME NEW t \in Tasks, Detach(c, t) PROVE LiveInv'
  <2>1. /\ list[t] \in Live /\ thread_task[list[t]] = t
        /\ ~InCall(t) /\ cjob' = cjob
    BY <1>7 DEF Detach, LiveInv, TaskInv, Live, TypeInv, Typed
  <2>2. CASE /\ is_detached' = is_detached \cup {list[t]}
             /\ UNCHANGED <<tasks_cnt, order, thread_task, list, tasks,
                            is_running, is_finished, is_joined>>
    <3>1. FlagInv' /\ TaskInv'
      BY <2>1, <2>2 DEF LiveInv, FlagInv, TaskInv, Live
    <3>2. \A d \in Clients : cjob[d] # NULL => thread_task[cjob[d]] # t
      BY <2>1, NotInCall DEF JobsOf, LiveInv, JoinInv, Live
    <3>3. \A u \in Tasks : u # t /\ list[u] = list[t] => list[u] = NULL
      BY DEF LiveInv, TaskInv
    <3>4. JoinInv'
      BY <2>1, <2>2, <3>2, <3>3 DEF LiveInv, JoinInv, Live, TypeInv, Typed
    <3> QED  BY <3>1, <3>4 DEF LiveInv
  <2> QED  BY <1>5, <1>7, <2>1, <2>2 DEF Detach
<1>8. ASSUME DeletePool(c) PROVE LiveInv'
  BY <1>0, <1>8 DEF DeletePool
<1> QED  BY <1>1, <1>2, <1>3, <1>4, <1>6, <1>7, <1>8 DEF Call

\* So does every step of a call that waited; a join marks the job it is about.
LEMMA ContinueLive ==
    ASSUME TypeInv, LiveInv, NEW c \in Clients, Continue(c) \/ Expire(c) \/ SpuriousClient(c)
    PROVE  LiveInv'
<1> USE DEF poolVars, jobVars
<1>1. \A d \in Clients : cjob'[d] \in {cjob[d], NULL}
  BY DEF Continue, JoinLock, JoinNoTime, JoinWake, ExpiredReturn, CloseWake, Expire,
         SpuriousClient, Return, TypeInv, Typed
<1>2. CASE JoinLock(c)
  <2>1. /\ cjob[c] \in Live /\ is_joined' = is_joined \cup {cjob[c]}
        /\ UNCHANGED <<thread_task, list, is_running, is_finished, is_detached>>
    BY <1>2 DEF JoinLock, LiveInv, JoinInv, TypeInv, PcOK, JoinPc, ClientPc
  <2> QED  BY <1>1, <2>1 DEF LiveInv, FlagInv, TaskInv, JoinInv, Live
<1>3. CASE ~JoinLock(c)
  <2>1. UNCHANGED jobVars
    BY <1>3 DEF Continue, JoinNoTime, JoinWake, ExpiredReturn, CloseWake, Expire,
                SpuriousClient
  <2> QED  BY <1>1, <2>1 DEF LiveInv, FlagInv, TaskInv, JoinInv, Live
<1> QED  BY <1>2, <1>3

\* And every step of a worker: it picks a job of the list, and marks the job it
\* ran only if that is still allocated.
LEMMA WorkLive ==
    ASSUME TypeInv, OrderInv, LiveInv, NEW w \in Workers, Work(w) \/ SpuriousWorker(w)
    PROVE  LiveInv'
<1> USE DEF poolVars, jobVars
<1>1. CASE Pick(w)
  <2>1. PICK j \in Live : is_running' = is_running \cup {j}
    BY <1>1 DEF Pick, get_task, Unpicked, Chain, OrderInv
  <2>2. UNCHANGED <<thread_task, list, is_finished, is_joined, is_detached, cjob>>
    BY <1>1 DEF Pick
  <2> QED  BY <2>1, <2>2 DEF LiveInv, FlagInv, TaskInv, JoinInv, Live
<1>2. CASE Complete(w)
  <2>1. /\ wjob[w] \in Live
        /\ is_finished' = is_finished \cup {wjob[w]}
        /\ is_running' = is_running \ {wjob[w]}
        /\ UNCHANGED <<thread_task, list, is_joined, is_detached, cjob>>
    BY <1>2 DEF Complete, Finished
  <2> QED  BY <2>1 DEF LiveInv, FlagInv, TaskInv, JoinInv, Live
<1>3. CASE CompleteDetached(w)
  <2> DEFINE t == thread_task[wjob[w]]
  <2>1. /\ wjob[w] \in Live /\ wjob[w] \in is_detached
        /\ Drop(JobsOf(t), is_running \ {wjob[w]}, is_finished \cup {wjob[w]})
        /\ UNCHANGED cjob
    BY <1>3 DEF CompleteDetached, Finished
  <2>2. t \in Tasks /\ list[t] = wjob[w]
    BY <2>1 DEF Live, LiveInv, TaskInv, TypeInv, Typed
  <2>3. /\ is_running \ {wjob[w]} \in SUBSET Live
        /\ is_finished \cup {wjob[w]} \in SUBSET Live
    BY <2>1 DEF LiveInv, FlagInv
  <2>4. \A c \in Clients : cjob[c] \notin JobsOf(t)
    BY <2>1, <2>2 DEF LiveInv, JoinInv, JobsOf, TypeInv, Typed
  <2> QED  BY <2>1, <2>2, <2>3, <2>4, DropLive
<1>4. CASE Sleep(w) \/ Exit(w) \/ CompleteFreed(w) \/ SpuriousWorker(w)
  <2>1. UNCHANGED <<jobVars, cjob>>
    BY <1>4 DEF Sleep, Exit, CompleteFreed, Finished, SpuriousWorker
  <2> QED  BY <2>1 DEF LiveInv, FlagInv, TaskInv, JoinInv, Live
<1> QED  BY <1>1, <1>2, <1>3, <1>4 DEF Work

\* The inductive step of LiveInv.
LEMMA LiveStep ==
    ASSUME TypeInv, OrderInv, LiveInv, [Next]_vars PROVE LiveInv'
<1>1. CASE Next
  BY <1>1, CallLive, ContinueLive, WorkLive DEF Next
<1>2. CASE UNCHANGED vars
  BY <1>2 DEF vars, jobVars, LiveInv, FlagInv, TaskInv, JoinInv, Live
<1> QED  BY <1>1, <1>2

\* Initially nothing is allocated, and no flag is set.
LEMMA LiveInit == Init => OrderInv /\ LiveInv
BY DEF Init, OrderInv, LiveInv, FlagInv, TaskInv, JoinInv, Live

\* Types, and that a flag is only ever set in an allocated job: no worker finds a
\* freed job in the list, no join is about one, and delete_task leaves neither,
\* whatever the callers and the platform do.
THEOREM TypeOKAlways == Spec => []TypeOK
<1>1. TypeInv /\ OrderInv /\ LiveInv /\ [Next]_vars => OrderInv' /\ LiveInv'
  BY OrderStep, LiveStep
<1>2. TypeInv /\ LiveInv => TypeOK
  BY DEF TypeInv, LiveInv, TypeOK
<1> QED  BY <1>1, <1>2, LiveInit, TypeCorrect, PTL DEF Spec

-----------------------------------------------------------------------------
(* The client in thread_pool_delete                                        *)

Closing(c) == pc[c] \in {"closing", "closewake"}

\* One client at a time waits in thread_pool_delete, for a pool that is closing.
CloserInv == \A c, d \in Clients : Closing(c) =>
                pool = "closing" /\ (Closing(d) => c = d)

\* The inductive step: thread_pool_delete begins with an open pool.
LEMMA CloserStep ==
    ASSUME TypeInv, CloserInv, [Next]_vars PROVE CloserInv'
<1> USE DEF poolVars
<1>1. ASSUME \A c \in Clients : Closing(c)' => Closing(c), pool' = pool PROVE CloserInv'
  BY <1>1 DEF CloserInv
<1>2. ASSUME NEW c \in Clients, NEW n \in 0 .. TPOOL_MAX_THREADS + 1, NewPool(c, n)
      PROVE CloserInv'
  BY <1>2 DEF NewPool, CloserInv, Closing
<1>3. ASSUME NEW c \in Clients, DeletePool(c) PROVE CloserInv'
  <2>1. \A d \in Clients : ~Closing(d)
    BY <1>3 DEF DeletePool, CloserInv
  <2>2. \/ pc' = pc
        \/ pool' = "closing" /\ pc' = [pc EXCEPT ![c] = "closing"]
    BY <1>3 DEF DeletePool
  <2> QED  BY <2>1, <2>2 DEF CloserInv, Closing, TypeInv, Typed
<1>4. ASSUME NEW c \in Clients, CloseWake(c) PROVE CloserInv'
  <2>1. \A d \in Clients : Closing(d) => d = c
    BY <1>4 DEF CloseWake, CloserInv, Closing
  <2>2. \/ pc' = [pc EXCEPT ![c] = "idle"]
        \/ pool' = pool /\ pc' = [pc EXCEPT ![c] = "closing"]
    BY <1>4 DEF CloseWake
  <2>3. pool = "closing"
    BY <1>4 DEF CloseWake, CloserInv, Closing
  <2> QED  BY <2>1, <2>2, <2>3 DEF CloserInv, Closing, TypeInv, Typed
<1>5. ASSUME NEW c \in Clients, NEW t \in Tasks,
             \/ NewTask(c, t) \/ Push(c, t) \/ PushRejected(c, t) \/ DeleteUnpushed(c, t)
             \/ DeleteTask(c, t) \/ Detach(c, t)
             \/ \E how \in {"join", "tjoin", "tzero", "thuge"} : JoinEnter(c, t, how)
      PROVE CloserInv'
  BY <1>1, <1>5 DEF NewTask, Push, PushRejected, DeleteUnpushed, DeleteTask, Detach,
                    JoinEnter, vars, Closing, TypeInv, Typed
<1>6. ASSUME NEW c \in Clients,
             \/ JoinLock(c) \/ JoinNoTime(c) \/ JoinWake(c) \/ ExpiredReturn(c)
             \/ Expire(c) \/ SpuriousClient(c)
      PROVE CloserInv'
  BY <1>1, <1>6 DEF JoinLock, WaitPc, JoinNoTime, JoinWake, ExpiredReturn, Return, Expire,
                    SpuriousClient, Closing, TypeInv, Typed
<1>7. ASSUME NEW w \in Workers,
             \/ Pick(w) \/ Sleep(w) \/ Exit(w) \/ Complete(w) \/ CompleteDetached(w)
             \/ CompleteFreed(w) \/ SpuriousWorker(w)
      PROVE CloserInv'
  BY <1>1, <1>7 DEF Pick, Sleep, Exit, Complete, CompleteDetached, CompleteFreed, Finished,
                    SignalEnd, Waiters, SpuriousWorker, Closing, TypeInv, Typed
<1>8. CASE UNCHANGED vars
  BY <1>1, <1>8 DEF vars, Closing
<1> QED  BY <1>2, <1>3, <1>4, <1>5, <1>6, <1>7, <1>8 DEF Next, Call, Continue, Work

-----------------------------------------------------------------------------
(* The jobs there are                                                      *)

\* tasks_cnt is exact, within the limit, and zero when there is no open pool.
CountInv == TasksCntExact /\ (pool # "open" => tasks_cnt = 0)

\* There are finitely many jobs.
LEMMA LiveFinite == IsFiniteSet(Live) /\ Cardinality(Live) \in Nat
<1>1. Live \in SUBSET Jobs
  BY DEF Live
<1> QED  BY <1>1, FS_Subset, FS_CardinalityType

\* delete_task takes from the count what it frees (402-446).
LEMMA DropCount ==
    ASSUME Typed, CountInv, NEW t \in Tasks, NEW run, NEW fin, Drop(JobsOf(t), run, fin)
    PROVE  TasksCntExact' /\ tasks_cnt' <= tasks_cnt /\ tasks_cnt' \in Nat
<1> DEFINE S == JobsOf(t)
<1>1. S \in SUBSET Live /\ Live' = Live \ S
  BY DEF Drop, JobsOf, Live, Typed
<1>2. Cardinality(Live \ S) = Cardinality(Live) - Cardinality(S)
  <2>1. Live \cap S = S
    BY <1>1
  <2> QED  BY <2>1, LiveFinite, FS_Difference
<1>3. Cardinality(S) \in Nat
  BY <1>1, LiveFinite, FS_Subset, FS_CardinalityType
<1>4. tasks_cnt' = tasks_cnt - Cardinality(S)
  BY DEF Drop, deleted_tasks_cnt
<1>5. Cardinality(Live \ S) \in Nat
  BY LiveFinite, FS_Difference, FS_CardinalityType
<1> HIDE DEF S
<1> QED  BY <1>1, <1>2, <1>3, <1>4, <1>5 DEF CountInv, TasksCntExact, Typed

\* The inductive step.
LEMMA CountStep ==
    ASSUME TypeInv, CloserInv, CountInv, [Next]_vars PROVE CountInv'
<1> USE DEF poolVars, jobVars, flags
<1>1. ASSUME UNCHANGED <<thread_task, tasks_cnt, pool>> PROVE CountInv'
  BY <1>1 DEF CountInv, TasksCntExact, Live
<1>2. ASSUME NEW c \in Clients, NEW n \in 0 .. TPOOL_MAX_THREADS + 1, NewPool(c, n)
      PROVE CountInv'
  <2>1. Live' = Live /\ tasks_cnt = 0 /\ tasks_cnt' = 0
    BY <1>2 DEF NewPool, Live, CountInv
  <2> QED  BY <2>1 DEF CountInv, TasksCntExact
<1>3. ASSUME NEW c \in Clients, NEW t \in Tasks, Push(c, t) PROVE CountInv'
  <2>1. PICK j \in Jobs \ Live : thread_task' = [thread_task EXCEPT ![j] = t]
    BY <1>3 DEF Push
  <2>2. Live' = Live \cup {j} /\ j \notin Live
    BY <2>1 DEF Live, TypeInv, Typed
  <2>3. Cardinality(Live \cup {j}) = Cardinality(Live) + 1
    BY <2>2, LiveFinite, FS_AddElement
  <2>4. /\ tasks_cnt' = tasks_cnt + 1 /\ tasks_cnt # TPOOL_MAX_TASKS
        /\ pool' = "open"
    BY <1>3 DEF Push
  <2> QED  BY <2>2, <2>3, <2>4 DEF CountInv, TasksCntExact, TypeInv, Typed
<1>4. ASSUME NEW t \in Tasks, NEW run, NEW fin, Drop(JobsOf(t), run, fin), pool' = pool
      PROVE CountInv'
  <2>1. TasksCntExact' /\ tasks_cnt' <= tasks_cnt /\ tasks_cnt' \in Nat
    BY <1>4, DropCount DEF TypeInv
  <2> QED  BY <1>4, <2>1 DEF CountInv
<1>5. ASSUME NEW c \in Clients, NEW t \in Tasks, DeleteTask(c, t) \/ Detach(c, t)
      PROVE CountInv'
  BY <1>1, <1>4, <1>5 DEF DeleteTask, Detach
<1>6. ASSUME NEW w \in Workers, CompleteDetached(w) PROVE CountInv'
  <2>1. thread_task[wjob[w]] \in Tasks
    BY <1>6 DEF CompleteDetached, Live, TypeInv, Typed
  <2> QED  BY <1>4, <1>6, <2>1 DEF CompleteDetached, Finished
<1>7. ASSUME NEW c \in Clients, DeletePool(c) \/ CloseWake(c) PROVE CountInv'
  <2>1. Live' = Live /\ tasks_cnt' = tasks_cnt
    BY <1>7 DEF DeletePool, CloseWake, Live
  <2>2. tasks_cnt > 0 \/ tasks_cnt = 0
    BY LiveFinite DEF CountInv, TasksCntExact
  <2>3. pool' # "open" => pool' = pool \/ tasks_cnt = 0
    <3>1. CASE DeletePool(c)
      BY <2>2, <3>1 DEF DeletePool, CountInv
    <3>2. CASE CloseWake(c)
      <4>1. pool = "closing"
        BY <3>2 DEF CloseWake, CloserInv, Closing
      <4> QED  BY <4>1 DEF CountInv
    <3> QED  BY <1>7, <3>1, <3>2
  <2> QED  BY <2>1, <2>3 DEF CountInv, TasksCntExact
<1>8. ASSUME NEW c \in Clients, NEW t \in Tasks,
             \/ NewTask(c, t) \/ PushRejected(c, t) \/ DeleteUnpushed(c, t)
             \/ \E how \in {"join", "tjoin", "tzero", "thuge"} : JoinEnter(c, t, how)
      PROVE CountInv'
  BY <1>1, <1>8 DEF NewTask, PushRejected, DeleteUnpushed, JoinEnter, vars
<1>9. ASSUME NEW c \in Clients,
             \/ JoinLock(c) \/ JoinNoTime(c) \/ JoinWake(c) \/ ExpiredReturn(c)
             \/ Expire(c) \/ SpuriousClient(c)
      PROVE CountInv'
  BY <1>1, <1>9 DEF JoinLock, JoinNoTime, JoinWake, ExpiredReturn, Expire, SpuriousClient
<1>10. ASSUME NEW w \in Workers,
             \/ Pick(w) \/ Sleep(w) \/ Exit(w) \/ Complete(w) \/ CompleteFreed(w)
             \/ SpuriousWorker(w)
      PROVE CountInv'
  BY <1>1, <1>10 DEF Pick, Sleep, Exit, Complete, CompleteFreed, Finished, SpuriousWorker
<1>11. CASE UNCHANGED vars
  BY <1>1, <1>11 DEF vars
<1> QED  BY <1>2, <1>3, <1>5, <1>6, <1>7, <1>8, <1>9, <1>10, <1>11
         DEF Next, Call, Continue, Work

\* Initially there is no job.
LEMMA CountInit == Init => CountInv
<1>1. Init => Live = {}
  BY DEF Init, Live
<1> QED  BY <1>1, FS_EmptySet DEF Init, CountInv, TasksCntExact

\* CountInv holds together with what its step needs.
LEMMA CountAlways == Spec => [](CountInv /\ CloserInv)
<1>1. Init => CloserInv
  BY DEF Init, CloserInv, Closing
<1> QED  BY <1>1, CountInit, CountStep, CloserStep, TypeCorrect, PTL DEF Spec

\* tasks_cnt is the number of jobs, whatever the callers and the platform do.
THEOREM TasksCntExactAlways == Spec => []TasksCntExact
<1>1. CountInv => TasksCntExact
  BY DEF CountInv
<1> QED  BY <1>1, CountAlways, PTL

\* When the pool is freed its threads are gone, and no job of it is left.
THEOREM PoolFreedQuiescentAlways == Spec => []PoolFreedQuiescent
<1>1. ThreadInv /\ CountInv => PoolFreedQuiescent
  <2> SUFFICES ASSUME ThreadInv, CountInv, pool = "none" PROVE Alive = {} /\ Live = {}
    BY DEF PoolFreedQuiescent, Alive
  <2>1. Cardinality(Live) = 0
    BY DEF CountInv, TasksCntExact
  <2>2. Cardinality(Alive) = 0
    BY AliveFinite DEF ThreadInv
  <2> QED  BY <2>1, <2>2, LiveFinite, AliveFinite, FS_EmptySet
<1> QED  BY <1>1, CountAlways, ThreadsBounded, PTL

-----------------------------------------------------------------------------
(* Jobs, their runners and their tasks, when no task is deleted or detached *)
(* while a join of it is left unfinished                                    *)

RunInv == /\ \A w \in Workers : worker[w] = "run" <=> wjob[w] # NULL
          /\ OneRunner

\* What delete_task will find when the detached job is finished.
DetachInv == \A j \in is_detached, k \in is_joined :
                thread_task[k] = thread_task[j] /\ k # j => k \in is_finished

CareInv == RunInv /\ LiveInv /\ DetachInv

\* The two halves of "marked running exactly while a worker runs it" (289, 316).
LEMMA RunningIffHeld ==
    OneRunner <=> /\ \A v, w \in Workers : wjob[v] = wjob[w] /\ wjob[v] # NULL => v = w
                  /\ \A w \in Workers : wjob[w] # NULL => wjob[w] \in is_running
                  /\ \A j \in is_running : j # NULL /\ \E w \in Workers : wjob[w] = j
                  /\ \A j \in is_running : j \notin is_finished
BY DEF OneRunner

\* Freeing every job of one task leaves what delete_task will find of the others.
LEMMA DropCare ==
    ASSUME TypeInv, CareInv, NEW t \in Tasks, NEW run \in SUBSET Live, NEW fin \in SUBSET Live,
           Drop(JobsOf(t), run, fin), is_finished \subseteq fin,
           \A c \in Clients : cjob[c] \notin JobsOf(t), cjob' = cjob
    PROVE  LiveInv' /\ DetachInv'
<1>1. LiveInv'
  BY DropLive DEF CareInv
<1>2. \A j \in Live' : j \in Live /\ thread_task'[j] = thread_task[j] /\ thread_task[j] # t
  BY DEF Drop, Live, JobsOf, TypeInv, Typed
<1>3. DetachInv'
  BY <1>1, <1>2 DEF Drop, CareInv, DetachInv, LiveInv, FlagInv
<1> QED  BY <1>1, <1>3

\* What delete_task frees was finished, if the joined jobs were (391-399).
LEMMA FreedFinished ==
    ASSUME NEW t, NEW det, NEW S, S \subseteq JobsOf(t), Settled(S),
           Deletable(t, det, is_finished)
    PROVE  S \subseteq is_finished
BY DEF Deletable, Settled, JobsOf

\* Freeing finished jobs disturbs no runner.
LEMMA DropFinishedCare ==
    ASSUME TypeInv, CareInv, NEW t \in Tasks, ~InCall(t), JobsOf(t) \subseteq is_finished,
           Drop(JobsOf(t), is_running, is_finished), UNCHANGED <<worker, wjob, cjob>>
    PROVE  CareInv'
<1>1. is_running \subseteq Live /\ is_finished \subseteq Live
  BY DEF CareInv, LiveInv, FlagInv
<1>2. LiveInv' /\ DetachInv'
  BY <1>1, NotInCall, DropCare
<1>3. is_running' = is_running /\ is_finished' \subseteq is_finished
  BY DEF Drop, CareInv, RunInv, OneRunner
<1>4. RunInv'
  BY <1>3 DEF CareInv, RunInv, OneRunner
<1> QED  BY <1>2, <1>4 DEF CareInv

\* A new thread does not take the place of one that runs a job.
LEMMA SpawnRunners ==
    ASSUME Typed, ThreadInv, pool = "open", Spawn
    PROVE  \A w \in Workers : worker'[w] = "run" <=> worker[w] = "run"
<1>1. \A w \in Workers : WakeWorkers[w] = "run" <=> worker[w] = "run"
  BY DEF WakeWorkers
<1>2. threads_cnt + 1 \in Workers => worker[threads_cnt + 1] = "off"
  BY DEF ThreadInv, Alive, Typed
<1>3. \A w \in Workers : w # threads_cnt + 1 =>
         [WakeWorkers EXCEPT ![threads_cnt + 1] = "lock"][w] = WakeWorkers[w]
  BY DEF WakeWorkers
<1>4. threads_cnt + 1 \in Workers =>
         [WakeWorkers EXCEPT ![threads_cnt + 1] = "lock"][threads_cnt + 1] = "lock"
  BY DEF WakeWorkers
<1> QED  BY <1>1, <1>2, <1>3, <1>4 DEF Spawn

\* Every call keeps CareInv.
LEMMA CallCare ==
    ASSUME "early_delete" \notin Env, TypeInv, ThreadInv, CareInv, NEW c \in Clients, Call(c)
    PROVE  CareInv'
<1> USE DEF poolVars, jobVars, flags
<1>0. LiveInv'
  BY CallLive DEF CareInv
<1>1. ASSUME NEW n \in 0 .. TPOOL_MAX_THREADS + 1, NewPool(c, n) PROVE CareInv'
  BY <1>0, <1>1 DEF NewPool, CareInv, RunInv, OneRunner, DetachInv
<1>2. ASSUME NEW t \in Tasks, NewTask(c, t) \/ DeleteUnpushed(c, t) PROVE CareInv'
  BY <1>0, <1>2 DEF NewTask, DeleteUnpushed, CareInv, RunInv, OneRunner, DetachInv
<1>3. ASSUME NEW t \in Tasks, Push(c, t) PROVE CareInv'
  <2>1. PICK j \in Jobs \ Live : thread_task' = [thread_task EXCEPT ![j] = t]
    BY <1>3 DEF Push
  <2>2. UNCHANGED <<flags, wjob>>
    BY <1>3 DEF Push
  <2>3. \A k \in Live : thread_task'[k] = thread_task[k]
    BY <2>1 DEF Live, TypeInv, Typed
  <2>4. \A w \in Workers : worker'[w] = "run" <=> worker[w] = "run"
    BY <1>3, SpawnRunners DEF Push, TypeInv
  <2>5. RunInv'
    BY <2>2, <2>4 DEF CareInv, RunInv, OneRunner
  <2>6. DetachInv'
    BY <2>2, <2>3 DEF CareInv, DetachInv, LiveInv, FlagInv
  <2> QED  BY <1>0, <2>5, <2>6 DEF CareInv
<1>4. ASSUME NEW t \in Tasks, PushRejected(c, t) PROVE CareInv'
  BY <1>0, <1>4 DEF PushRejected, vars, CareInv, RunInv, OneRunner, DetachInv
<1>5. ASSUME NEW t \in Tasks, NEW how \in {"join", "tjoin", "tzero", "thuge"},
             JoinEnter(c, t, how)
      PROVE CareInv'
  BY <1>0, <1>5 DEF JoinEnter, CareInv, RunInv, OneRunner, DetachInv
<1>6. ASSUME NEW t \in Tasks, DeleteTask(c, t) PROVE CareInv'
  <2>1. CASE /\ Deletable(t, is_detached, is_finished)
             /\ Drop(JobsOf(t), is_running, is_finished)
    <3>1. JobsOf(t) \subseteq is_finished
      BY <1>6, <2>1, FreedFinished DEF DeleteTask, Careful
    <3> QED  BY <1>6, <2>1, <3>1, DropFinishedCare DEF DeleteTask
  <2>2. CASE UNCHANGED jobVars
    BY <1>0, <1>6, <2>2 DEF DeleteTask, CareInv, RunInv, OneRunner, DetachInv
  <2> QED  BY <1>6, <2>1, <2>2 DEF DeleteTask
<1>7. ASSUME NEW t \in Tasks, Detach(c, t) PROVE CareInv'
  <2> DEFINE det == is_detached \cup {list[t]}
  <2>1. /\ list[t] \in Live /\ thread_task[list[t]] = t
        /\ Settled(JobsOf(t) \ {list[t]}) /\ ~InCall(t)
    BY <1>7 DEF Detach, Careful, CareInv, LiveInv, TaskInv, Live, TypeInv, Typed
  <2>2. CASE /\ list[t] \in is_finished /\ Deletable(t, det, is_finished)
             /\ Drop(JobsOf(t), is_running, is_finished)
    <3>1. JobsOf(t) \subseteq is_finished
      BY <2>1, <2>2, FreedFinished DEF Settled
    <3> QED  BY <1>7, <2>1, <2>2, <3>1, DropFinishedCare DEF Detach
  <2>3. CASE /\ is_detached' = det
             /\ UNCHANGED <<tasks_cnt, order, thread_task, list, tasks,
                            is_running, is_finished, is_joined>>
    <3>1. RunInv'
      BY <1>7, <2>3 DEF Detach, CareInv, RunInv, OneRunner
    <3>2. DetachInv'
      BY <2>1, <2>3 DEF CareInv, DetachInv, LiveInv, FlagInv, Settled, JobsOf, Live
    <3> QED  BY <1>0, <3>1, <3>2 DEF CareInv
  <2> QED  BY <1>7, <2>2, <2>3 DEF Detach
<1>8. ASSUME DeletePool(c) PROVE CareInv'
  <2>1. \A w \in Workers : worker'[w] = "run" <=> worker[w] = "run"
    BY <1>8 DEF DeletePool, WakeWorkers
  <2> QED  BY <1>0, <1>8, <2>1 DEF DeletePool, CareInv, RunInv, OneRunner, DetachInv
<1> QED  BY <1>1, <1>2, <1>3, <1>4, <1>5, <1>6, <1>7, <1>8 DEF Call

\* The continuation of a call, a timeout and a wake-up touch no job but the
\* joined flag of an allocated one that is not detached.
LEMMA ContinueCare ==
    ASSUME TypeInv, CareInv, NEW c \in Clients, Continue(c) \/ Expire(c) \/ SpuriousClient(c)
    PROVE  CareInv'
<1> USE DEF poolVars, jobVars
<1>1. LiveInv'
  BY ContinueLive DEF CareInv
<1>2. RunInv'
  BY DEF Continue, JoinLock, JoinNoTime, JoinWake, ExpiredReturn, CloseWake, Expire,
         SpuriousClient, CareInv, RunInv, OneRunner
<1>3. DetachInv'
  <2>1. CASE JoinLock(c)
    <3>1. /\ cjob[c] \in Live /\ is_joined' = is_joined \cup {cjob[c]}
          /\ list[thread_task[cjob[c]]] \notin is_detached
          /\ UNCHANGED <<thread_task, is_finished, is_detached>>
      BY <2>1 DEF JoinLock, CareInv, LiveInv, JoinInv, TypeInv, PcOK, JoinPc, ClientPc
    <3> QED  BY <3>1 DEF CareInv, DetachInv, LiveInv, TaskInv
  <2>2. CASE ~JoinLock(c)
    BY <2>2 DEF Continue, JoinNoTime, JoinWake, ExpiredReturn, CloseWake, Expire,
                SpuriousClient, CareInv, DetachInv
  <2> QED  BY <2>1, <2>2
<1> QED  BY <1>1, <1>2, <1>3 DEF CareInv

\* A worker that leaves its job leaves the other workers theirs.
LEMMA FinishRunners ==
    ASSUME TypeInv, RunInv, NEW w \in Workers, Finished(w),
           is_running' = is_running \ {wjob[w]}, is_finished' \subseteq is_finished \cup {wjob[w]}
    PROVE  RunInv'
<1>1. /\ \A v \in Workers : wjob'[v] = IF v = w THEN NULL ELSE wjob[v]
      /\ \A v \in Workers : worker'[v] = IF v = w THEN "lock" ELSE worker[v]
  BY DEF Finished, TypeInv, Typed
<1>2. /\ \A v \in Workers : v # w /\ wjob[v] # NULL => wjob[v] # wjob[w]
      /\ \A v \in Workers : wjob[v] # NULL => wjob[v] \in is_running
      /\ \A j \in is_running : j # NULL /\ \E v \in Workers : wjob[v] = j
      /\ \A j \in is_running : j \notin is_finished
      /\ \A u, v \in Workers : wjob[u] = wjob[v] /\ wjob[u] # NULL => u = v
  BY RunningIffHeld DEF RunInv
<1>3. \A v \in Workers : wjob'[v] # NULL => wjob'[v] \in is_running'
  BY <1>1, <1>2
<1>4. \A j \in is_running' : j # NULL /\ \E v \in Workers : wjob'[v] = j
  BY <1>1, <1>2
<1>5. \A u, v \in Workers : wjob'[u] = wjob'[v] /\ wjob'[u] # NULL => u = v
  BY <1>1, <1>2
<1>6. OneRunner'
  BY <1>2, <1>3, <1>4, <1>5 DEF OneRunner
<1>7. \A v \in Workers : worker'[v] = "run" <=> wjob'[v] # NULL
  BY <1>1 DEF RunInv
<1> QED  BY <1>6, <1>7 DEF RunInv

\* When the function of a detached job returns, delete_task frees that job and
\* jobs that were finished before.
LEMMA DetachedFreesFinished ==
    ASSUME TypeInv, CareInv, NEW w \in Workers, CompleteDetached(w)
    PROVE  /\ JobsOf(thread_task[wjob[w]]) \subseteq is_finished \cup {wjob[w]}
           /\ list[thread_task[wjob[w]]] = wjob[w] /\ wjob[w] \in is_detached
<1>1. /\ wjob[w] \in is_detached
      /\ Deletable(thread_task[wjob[w]], is_detached, is_finished \cup {wjob[w]})
  BY DEF CompleteDetached
<1>2. list[thread_task[wjob[w]]] = wjob[w]
  BY <1>1 DEF CareInv, LiveInv, TaskInv
<1>3. ASSUME NEW k \in JobsOf(thread_task[wjob[w]]) PROVE k \in is_finished \cup {wjob[w]}
  <2>1. k \in is_joined \/ k \in is_finished \cup {wjob[w]}
    BY <1>1, <1>3 DEF Deletable
  <2> QED  BY <1>1, <1>3, <2>1 DEF CareInv, DetachInv, JobsOf
<1> QED  BY <1>1, <1>2, <1>3

\* Every step of a worker keeps CareInv, and none writes a freed job.
LEMMA WorkCare ==
    ASSUME TypeInv, OrderInv, CareInv, NEW w \in Workers, Work(w) \/ SpuriousWorker(w)
    PROVE  CareInv' /\ ~CompleteFreed(w)
<1> USE DEF poolVars, jobVars
<1>0. worker[w] = "run" => wjob[w] \in Live /\ wjob[w] \in is_running
  BY RunningIffHeld DEF CareInv, LiveInv, RunInv, FlagInv
<1>1. ~CompleteFreed(w) /\ LiveInv'
  BY <1>0, WorkLive DEF CompleteFreed, Finished, CareInv
<1>2. CASE Pick(w)
  <2>1. PICK j \in Jobs : /\ j \in Live /\ j \notin is_running /\ j \notin is_finished
                          /\ is_running' = is_running \cup {j}
                          /\ wjob' = [wjob EXCEPT ![w] = j]
    BY <1>2 DEF Pick, get_task, Unpicked, Chain, OrderInv
  <2>2. /\ worker' = [worker EXCEPT ![w] = "run"] /\ worker[w] = "lock"
        /\ UNCHANGED <<thread_task, list, is_finished, is_joined, is_detached, cjob>>
    BY <1>2 DEF Pick
  <2>3. /\ \A v \in Workers : wjob'[v] = IF v = w THEN j ELSE wjob[v]
        /\ \A v \in Workers : worker'[v] = IF v = w THEN "run" ELSE worker[v]
        /\ wjob[w] = NULL /\ j # NULL
    BY <2>1, <2>2 DEF CareInv, RunInv, TypeInv, Typed
  <2>4. OneRunner'
    <3>1. \A u, v \in Workers : wjob'[u] = wjob'[v] /\ wjob'[u] # NULL => u = v
      BY <2>1, <2>3, RunningIffHeld DEF CareInv, RunInv
    <3>2. \A k \in is_running' : k # NULL /\ \E v \in Workers : wjob'[v] = k
      BY <2>1, <2>3, RunningIffHeld DEF CareInv, RunInv
    <3>3. \A v \in Workers : wjob'[v] # NULL => wjob'[v] \in is_running'
      BY <2>1, <2>3, RunningIffHeld DEF CareInv, RunInv
    <3>4. \A k \in is_running' : k \notin is_finished'
      BY <2>1, <2>2 DEF CareInv, RunInv, OneRunner
    <3> QED  BY <3>1, <3>2, <3>3, <3>4 DEF OneRunner
  <2>5. RunInv'
    BY <2>3, <2>4 DEF CareInv, RunInv
  <2>6. DetachInv'
    BY <2>2 DEF CareInv, DetachInv
  <2> QED  BY <2>5, <2>6, <1>1 DEF CareInv
<1>3. CASE Complete(w)
  <2>1. /\ wjob[w] \in Live /\ Finished(w)
        /\ is_finished' = is_finished \cup {wjob[w]}
        /\ is_running' = is_running \ {wjob[w]}
        /\ UNCHANGED <<thread_task, list, is_joined, is_detached, cjob>>
    BY <1>3 DEF Complete, Finished
  <2>2. RunInv'
    BY <2>1, FinishRunners DEF CareInv
  <2>3. DetachInv'
    BY <2>1 DEF CareInv, DetachInv
  <2> QED  BY <2>2, <2>3, <1>1 DEF CareInv
<1>4. CASE CompleteDetached(w)
  <2> DEFINE t == thread_task[wjob[w]]
  <2>1. /\ wjob[w] \in Live /\ Finished(w)
        /\ Drop(JobsOf(t), is_running \ {wjob[w]}, is_finished \cup {wjob[w]})
        /\ UNCHANGED cjob
    BY <1>4 DEF CompleteDetached, Finished
  <2>2. t \in Tasks /\ wjob[w] \in JobsOf(t)
    BY <2>1 DEF Live, JobsOf, TypeInv, Typed
  <2>3. /\ JobsOf(t) \subseteq is_finished \cup {wjob[w]}
        /\ list[t] = wjob[w] /\ wjob[w] \in is_detached
    BY <1>4, DetachedFreesFinished
  <2>4. /\ is_running' = is_running \ {wjob[w]}
        /\ is_finished' \subseteq is_finished \cup {wjob[w]}
    <3>1. is_running \cap is_finished = {}
      BY DEF CareInv, RunInv, OneRunner
    <3> QED  BY <2>1, <2>2, <2>3, <3>1 DEF Drop
  <2>5. RunInv'
    BY <2>1, <2>4, FinishRunners DEF CareInv
  <2>6. /\ is_running \ {wjob[w]} \in SUBSET Live
        /\ is_finished \cup {wjob[w]} \in SUBSET Live
    BY <2>1 DEF CareInv, LiveInv, FlagInv
  <2>7. \A c \in Clients : cjob[c] \notin JobsOf(t)
    BY <2>2, <2>3 DEF CareInv, LiveInv, JoinInv, JobsOf, TypeInv, Typed
  <2>8. DetachInv'
    BY <2>1, <2>2, <2>6, <2>7, DropCare
  <2> QED  BY <2>5, <2>8, <1>1 DEF CareInv
<1>5. CASE Sleep(w) \/ Exit(w) \/ SpuriousWorker(w)
  <2>1. UNCHANGED <<jobVars, wjob, cjob>>
    BY <1>5 DEF Sleep, Exit, SpuriousWorker
  <2>2. \A v \in Workers : worker'[v] = "run" <=> worker[v] = "run"
    BY <1>5 DEF Sleep, Exit, SpuriousWorker, TypeInv, Typed
  <2> QED  BY <1>1, <2>1, <2>2 DEF CareInv, RunInv, OneRunner, DetachInv
<1> QED  BY <1>1, <1>2, <1>3, <1>4, <1>5 DEF Work

\* The inductive step of CareInv.
LEMMA CareStep ==
    ASSUME "early_delete" \notin Env, TypeInv, ThreadInv, OrderInv, CareInv, [Next]_vars
    PROVE  CareInv'
<1>1. CASE Next
  BY <1>1, CallCare, ContinueCare, WorkCare DEF Next
<1>2. CASE UNCHANGED vars
  BY <1>2 DEF vars, jobVars, CareInv, LiveInv, RunInv, OneRunner, FlagInv, TaskInv, DetachInv,
              JoinInv, Live
<1> QED  BY <1>1, <1>2

\* All that is needed of a reachable state, for the callers that are careful.
SafeInv == TypeInv /\ ThreadInv /\ OrderInv /\ CountInv /\ CareInv

\* Initially nothing is allocated and nothing runs.
LEMMA SafeInit == Init => SafeInv
<1>1. Init => OrderInv
  BY DEF Init, OrderInv
<1>2. Init => CareInv
  BY DEF Init, CareInv, LiveInv, RunInv, OneRunner, FlagInv, TaskInv, DetachInv, JoinInv, Live
<1> QED  BY <1>1, <1>2, TypeInit, ThreadInit, CountInit DEF SafeInv

LEMMA SafeAlways ==
    ASSUME "early_delete" \notin Env PROVE Spec => []SafeInv
<1>1. SafeInv /\ CloserInv /\ [Next]_vars => SafeInv'
  BY TypeStep, ThreadStep, OrderStep, CountStep, CareStep DEF SafeInv
<1> QED  BY <1>1, SafeInit, CountAlways, PTL DEF Spec

\* A job runs on one worker at a time and is marked so, unless a client deletes
\* a task while it leaves a join of it unfinished.
THEOREM OneRunnerAlways ==
    ASSUME "early_delete" \notin Env PROVE Spec => []OneRunner
<1>1. SafeInv => OneRunner
  BY DEF SafeInv, CareInv, RunInv
<1> QED  BY <1>1, SafeAlways, PTL

\* Only jobs that were taken from the queue are freed, whoever frees them.
LEMMA FreedWasTaken ==
    ASSUME "early_delete" \notin Env, SafeInv, [Next]_vars,
           NEW j \in Live, thread_task'[j] = NULL
    PROVE  j \in is_running \cup is_finished
<1> USE DEF poolVars, jobVars
<1>1. thread_task' # thread_task
  BY DEF Live
<1>2. ASSUME NEW c \in Clients, NEW t \in Tasks, Push(c, t) PROVE FALSE
  <2>1. PICK k \in Jobs \ Live : thread_task' = [thread_task EXCEPT ![k] = t]
    BY <1>2 DEF Push
  <2>2. thread_task'[j] = thread_task[j]
    BY <2>1 DEF SafeInv, TypeInv, Typed, Live
  <2> QED  BY <2>2 DEF Live
<1>3. ASSUME NEW t, NEW run, NEW fin, Drop(JobsOf(t), run, fin) PROVE j \in JobsOf(t)
  BY <1>3 DEF Drop, Live
<1>4. ASSUME NEW c \in Clients, NEW t \in Tasks, DeleteTask(c, t) PROVE j \in is_finished
  <2>1. Deletable(t, is_detached, is_finished) /\ Settled(JobsOf(t)) /\ j \in JobsOf(t)
    BY <1>1, <1>3, <1>4 DEF DeleteTask, Careful
  <2> QED  BY <2>1, FreedFinished
<1>5. ASSUME NEW c \in Clients, NEW t \in Tasks, Detach(c, t) PROVE j \in is_finished
  <2>1. /\ Deletable(t, is_detached \cup {list[t]}, is_finished) /\ j \in JobsOf(t)
        /\ Settled(JobsOf(t) \ {list[t]}) /\ list[t] \in is_finished
    BY <1>1, <1>3, <1>5 DEF Detach, Careful
  <2> QED  BY <2>1, FreedFinished DEF Settled
<1>6. ASSUME NEW w \in Workers, CompleteDetached(w) PROVE j \in is_running \cup is_finished
  <2>1. j \in JobsOf(thread_task[wjob[w]])
    BY <1>3, <1>6 DEF CompleteDetached
  <2>2. wjob[w] \in is_running
    BY <1>6, RunningIffHeld
       DEF CompleteDetached, Finished, SafeInv, CareInv, RunInv
  <2>3. JobsOf(thread_task[wjob[w]]) \subseteq is_finished \cup {wjob[w]}
    BY <1>6, DetachedFreesFinished DEF SafeInv
  <2> QED  BY <2>1, <2>2, <2>3
<1>7. ASSUME NEW c \in Clients, Call(c) PROVE j \in is_running \cup is_finished
  <2>1. \E t \in Tasks : Push(c, t) \/ DeleteTask(c, t) \/ Detach(c, t)
    BY <1>1, <1>7 DEF Call, NewPool, NewTask, PushRejected, JoinEnter, DeleteUnpushed,
                      DeletePool, vars
  <2> QED  BY <1>2, <1>4, <1>5, <2>1
<1>9. ASSUME NEW c \in Clients, Continue(c) \/ Expire(c) \/ SpuriousClient(c) PROVE FALSE
  BY <1>1, <1>9 DEF Continue, JoinLock, JoinNoTime, JoinWake, ExpiredReturn, CloseWake,
                    Expire, SpuriousClient
<1>10. ASSUME NEW w \in Workers, Work(w) \/ SpuriousWorker(w)
       PROVE  j \in is_running \cup is_finished
  <2>1. CompleteDetached(w)
    BY <1>1, <1>10 DEF Work, Pick, Sleep, Exit, Complete, CompleteFreed, SpuriousWorker
  <2> QED  BY <1>6, <2>1
<1>8. CASE UNCHANGED vars
  BY <1>1, <1>8 DEF vars
<1> QED  BY <1>7, <1>8, <1>9, <1>10 DEF Next

\* A job is freed only after it was run, and never under its worker.
THEOREM FreedAfterRunAlways ==
    ASSUME "early_delete" \notin Env PROVE Spec => FreedAfterRun
<1>1. SafeInv /\ SafeInv' /\ [Next]_vars =>
        [\A j \in Live : thread_task'[j] = NULL =>
            /\ j \in is_running \cup is_finished
            /\ \A w \in Workers : wjob'[w] # j]_vars
  <2> SUFFICES ASSUME SafeInv, SafeInv', [Next]_vars, NEW j \in Live, thread_task'[j] = NULL
               PROVE  /\ j \in is_running \cup is_finished
                      /\ \A w \in Workers : wjob'[w] # j
    OBVIOUS
  <2>1. j \in is_running \cup is_finished
    BY FreedWasTaken
  <2>2. \A w \in Workers : wjob'[w] # NULL => wjob'[w] \in is_running'
    BY DEF SafeInv, CareInv, RunInv, OneRunner
  <2>3. j \notin is_running' /\ j # NULL
    BY DEF SafeInv, CareInv, LiveInv, FlagInv, Live
  <2> QED  BY <2>1, <2>2, <2>3
<1> QED  BY <1>1, SafeAlways, PTL DEF Spec, FreedAfterRun

\* The worker writes its job only while it is allocated: what it may do too late
\* is the signal to a job it freed itself.
THEOREM OnlyLateSignalAlways ==
    ASSUME "early_delete" \notin Env PROVE Spec => []OnlyLateSignal
<1>1. Init => OnlyLateSignal
  BY DEF Init, OnlyLateSignal
<1>2. SafeInv /\ OnlyLateSignal /\ [Next]_vars => OnlyLateSignal'
  <2> SUFFICES ASSUME SafeInv, OnlyLateSignal, [Next]_vars PROVE OnlyLateSignal'
    OBVIOUS
  <2>1. \A w \in Workers : ~CompleteFreed(w)
    BY WorkCare DEF SafeInv, Work
  <2>2. ASSUME NEW c \in Clients, Call(c) PROVE uaf' = uaf
    BY <2>2 DEF Call, NewPool, NewTask, Push, PushRejected, JoinEnter, DeleteUnpushed,
                DeleteTask, Detach, DeletePool, vars
  <2>3. ASSUME NEW c \in Clients, Continue(c) \/ Expire(c) \/ SpuriousClient(c)
        PROVE  uaf' = uaf
    BY <2>3 DEF Continue, JoinLock, JoinNoTime, JoinWake, ExpiredReturn, CloseWake, Expire,
                SpuriousClient
  <2>4. ASSUME NEW w \in Workers, Work(w) \/ SpuriousWorker(w)
        PROVE  uaf' = uaf \/ uaf' = uaf \cup {"signal"}
    BY <2>1, <2>4 DEF Work, Pick, Sleep, Exit, Complete, CompleteDetached, SpuriousWorker
  <2>5. uaf' = uaf \/ uaf' = uaf \cup {"signal"}
    BY <2>2, <2>3, <2>4 DEF Next, vars
  <2> QED  BY <2>5 DEF OnlyLateSignal
<1> QED  BY <1>1, <1>2, SafeAlways, PTL DEF Spec

-----------------------------------------------------------------------------
(* The pool's list                                                         *)

ListInv == ListHoldsAll /\ UnpickedFirst

\* A linear order restricted to the jobs that stay is one of them (404-431).
LEMMA DropList ==
    ASSUME Typed, OrderInv, ListInv, NEW S \in SUBSET Jobs,
           NEW run, NEW fin, Drop(S, run, fin),
           is_running \cup is_finished = run \cup fin
    PROVE  ListInv'
<1>1. Live' = Live \ S
  BY DEF Drop, Live, Typed
<1>2. order' = order \cap ((Jobs \ S) \X (Jobs \ S))
  BY DEF Drop, Unlink
<1>3. Chain' = Chain \ S
  BY <1>2 DEF Chain
<1>4. ListHoldsAll'
  <2>1. \A a, b \in Live' : <<a, b>> \in order' <=> <<a, b>> \in order
    BY <1>1, <1>2 DEF Live
  <2> QED  BY <1>1, <1>3, <2>1 DEF ListInv, ListHoldsAll
<1>5. Unpicked' = Unpicked \ S
  BY <1>3 DEF Unpicked, Drop
<1> QED  BY <1>2, <1>3, <1>4, <1>5 DEF ListInv, UnpickedFirst

\* What the picked job was: the head of the list, so that it is moved by the
\* first two branches (291-298).
LEMMA PickedIsFirst ==
    ASSUME ListInv, NEW j \in get_task PROVE IsFirst(j)
BY DEF ListInv, ListHoldsAll, UnpickedFirst, get_task, Unpicked, IsFirst

\* The job moved to the end stays in the list, behind the jobs nobody picked.
LEMMA PickList ==
    ASSUME TypeInv, OrderInv, ListInv, NEW j \in get_task, order' = MoveToEnd(j),
           is_running' = is_running \cup {j}, UNCHANGED <<thread_task, is_finished>>
    PROVE  ListInv'
<1>1. /\ j \in Chain /\ j \in Unpicked /\ IsFirst(j)
      /\ Live' = Live /\ Chain = Live /\ Live \subseteq Jobs
  BY PickedIsFirst DEF get_task, Unpicked, Live, ListInv, ListHoldsAll
<1>2. CASE IsLast(j)
  <2>1. order' = order /\ Chain' = Chain
    BY <1>2 DEF MoveToEnd, Chain
  <2>2. Chain = {j}
    <3>1. ASSUME NEW k \in Chain PROVE k = j
      <4>1. <<j, k>> \in order /\ <<k, j>> \in order
        BY <1>1, <1>2, <3>1 DEF IsFirst, IsLast
      <4>2. j \in Live /\ k \in Live
        BY <1>1, <3>1
      <4> QED  BY <4>1, <4>2 DEF ListInv, ListHoldsAll
    <3> QED  BY <1>1, <3>1
  <2>3. Unpicked' = {}
    BY <2>1, <2>2 DEF Unpicked
  <2> QED  BY <1>1, <2>1, <2>3 DEF ListInv, ListHoldsAll, UnpickedFirst
<1>3. CASE ~IsLast(j)
  <2>1. order' = (order \cap ((Jobs \ {j}) \X (Jobs \ {j}))) \cup (Chain \X {j})
    BY <1>1, <1>3 DEF MoveToEnd, Unlink
  <2>2. \A a, b \in Live : <<a, b>> \in order' <=>
           b = j \/ (a # j /\ <<a, b>> \in order)
    BY <1>1, <2>1
  <2>3. Chain' = Chain
    BY <1>1, <2>1 DEF Chain
  <2>4. ListHoldsAll'
    <3>1. \A a, b \in Live : <<a, b>> \in order' \/ <<b, a>> \in order'
      BY <2>2 DEF ListInv, ListHoldsAll
    <3>2. \A a, b \in Live : <<a, b>> \in order' /\ <<b, a>> \in order' => a = b
      BY <2>2 DEF ListInv, ListHoldsAll
    <3>3. \A a, b, c \in Live : <<a, b>> \in order' /\ <<b, c>> \in order' => <<a, c>> \in order'
      BY <2>2 DEF ListInv, ListHoldsAll
    <3> QED  BY <1>1, <2>3, <3>1, <3>2, <3>3 DEF ListHoldsAll
  <2>5. Unpicked' = Unpicked \ {j}
    BY <2>3 DEF Unpicked
  <2>6. UnpickedFirst'
    BY <1>1, <2>2, <2>3, <2>5 DEF ListInv, UnpickedFirst, Unpicked
  <2> QED  BY <2>4, <2>6 DEF ListInv
<1> QED  BY <1>2, <1>3

\* A new job goes before all others and is not picked yet (185-193).
LEMMA PushList ==
    ASSUME TypeInv, OrderInv, FlagInv, ListInv, NEW t \in Tasks, NEW j \in Jobs \ Live,
           thread_task' = [thread_task EXCEPT ![j] = t], order' = Prepend(j), UNCHANGED flags
    PROVE  ListInv'
<1>1. Live' = Live \cup {j} /\ j \notin Live /\ Chain = Live
  BY DEF Live, TypeInv, Typed, ListInv, ListHoldsAll
<1>2. order' = order \cup ({j} \X (Chain \cup {j}))
  BY DEF Prepend
<1>3. \A a, b \in Live' : <<a, b>> \in order' <=>
         a = j \/ (a \in Live /\ b \in Live /\ <<a, b>> \in order)
  BY <1>1, <1>2 DEF OrderInv
<1>4. Chain' = Live'
  BY <1>1, <1>3, <1>2 DEF Chain, Live, OrderInv
<1>5. ListHoldsAll'
  <2>1. \A a, b \in Live' : <<a, b>> \in order' \/ <<b, a>> \in order'
    BY <1>1, <1>3 DEF ListInv, ListHoldsAll
  <2>2. \A a, b \in Live' : <<a, b>> \in order' /\ <<b, a>> \in order' => a = b
    BY <1>1, <1>3 DEF ListInv, ListHoldsAll
  <2>3. \A a, b, c \in Live' : <<a, b>> \in order' /\ <<b, c>> \in order' => <<a, c>> \in order'
    BY <1>1, <1>3 DEF ListInv, ListHoldsAll
  <2> QED  BY <1>4, <2>1, <2>2, <2>3 DEF ListHoldsAll
<1>6. Unpicked' = Unpicked \cup {j}
  BY <1>1, <1>4 DEF Unpicked, FlagInv, flags
<1>7. UnpickedFirst'
  BY <1>1, <1>3, <1>4, <1>6 DEF ListInv, UnpickedFirst, Unpicked
<1> QED  BY <1>5, <1>7 DEF ListInv

\* The inductive step.
LEMMA ListStep ==
    ASSUME "early_delete" \notin Env, SafeInv, ListInv, [Next]_vars PROVE ListInv'
<1> USE DEF poolVars, jobVars, SafeInv
<1>1. ASSUME UNCHANGED <<order, thread_task>>,
             is_running' \cup is_finished' = is_running \cup is_finished
      PROVE ListInv'
  BY <1>1 DEF ListInv, ListHoldsAll, UnpickedFirst, Unpicked, Chain, Live
<1>2. ASSUME NEW c \in Clients, NEW n \in 0 .. TPOOL_MAX_THREADS + 1, NewPool(c, n)
      PROVE ListInv'
  <2>1. Live = {} /\ Live' = {}
    <3>1. Live = {}
      BY <1>2, LiveFinite, FS_EmptySet DEF NewPool, CountInv, TasksCntExact
    <3> QED  BY <1>2, <3>1 DEF NewPool, Live
  <2>2. order' = {} \/ UNCHANGED order
    BY <1>2 DEF NewPool
  <2>3. order = {}
    BY <2>1 DEF OrderInv
  <2>4. Chain' = {}
    BY <2>2, <2>3 DEF Chain
  <2> QED  BY <2>1, <2>4 DEF ListInv, ListHoldsAll, UnpickedFirst, Unpicked
<1>3. ASSUME NEW c \in Clients, NEW t \in Tasks, Push(c, t) PROVE ListInv'
  BY <1>3, PushList DEF Push, CareInv, LiveInv
<1>4. ASSUME NEW c \in Clients, NEW t \in Tasks, DeleteTask(c, t) \/ Detach(c, t)
      PROVE ListInv'
  <2>1. CASE Drop(JobsOf(t), is_running, is_finished)
    BY <2>1, DropList DEF JobsOf, TypeInv
  <2> QED  BY <1>1, <1>4, <2>1 DEF DeleteTask, Detach
<1>5. ASSUME NEW w \in Workers, Pick(w) PROVE ListInv'
  BY <1>5, PickList DEF Pick
<1>6. ASSUME NEW w \in Workers, Complete(w) \/ CompleteDetached(w) PROVE ListInv'
  <2>1. wjob[w] \in is_running
    BY <1>6, RunningIffHeld DEF Complete, CompleteDetached, Finished, CareInv, RunInv
  <2>2. (is_running \ {wjob[w]}) \cup (is_finished \cup {wjob[w]}) = is_running \cup is_finished
    BY <2>1
  <2>3. CASE Complete(w)
    BY <1>1, <2>2, <2>3 DEF Complete
  <2>4. CASE CompleteDetached(w)
    BY <2>2, <2>4, DropList DEF CompleteDetached, JobsOf, TypeInv
  <2> QED  BY <1>6, <2>3, <2>4
<1>7. ASSUME NEW c \in Clients, NEW t \in Tasks,
             \/ NewTask(c, t) \/ PushRejected(c, t) \/ DeleteUnpushed(c, t)
             \/ \E how \in {"join", "tjoin", "tzero", "thuge"} : JoinEnter(c, t, how)
      PROVE ListInv'
  BY <1>1, <1>7 DEF NewTask, PushRejected, DeleteUnpushed, JoinEnter, vars, flags
<1>8. ASSUME NEW c \in Clients,
             DeletePool(c) \/ Continue(c) \/ Expire(c) \/ SpuriousClient(c)
      PROVE ListInv'
  BY <1>1, <1>8 DEF DeletePool, Continue, JoinLock, JoinNoTime, JoinWake, ExpiredReturn,
                    CloseWake, Expire, SpuriousClient
<1>9. ASSUME NEW w \in Workers,
             Sleep(w) \/ Exit(w) \/ CompleteFreed(w) \/ SpuriousWorker(w)
      PROVE ListInv'
  BY <1>1, <1>9 DEF Sleep, Exit, CompleteFreed, SpuriousWorker
<1>10. CASE UNCHANGED vars
  BY <1>1, <1>10 DEF vars
<1> QED  BY <1>2, <1>3, <1>4, <1>5, <1>6, <1>7, <1>8, <1>9, <1>10 DEF Next, Call, Work

\* The list reaches every job and its unpicked jobs come first, so that a job is
\* never moved by the branch for one in the middle (299-309).
THEOREM ListAlways ==
    ASSUME "early_delete" \notin Env PROVE Spec => [](ListHoldsAll /\ UnpickedFirst)
<1>1. Init => ListInv
  BY DEF Init, ListInv, ListHoldsAll, UnpickedFirst, Unpicked, Chain, Live
<1>2. SafeInv /\ ListInv /\ [Next]_vars => ListInv'
  BY ListStep
<1> QED  BY <1>1, <1>2, SafeAlways, PTL DEF Spec, ListInv

-----------------------------------------------------------------------------
(* The threads inside a function                                           *)

Running == {w \in Workers : worker[w] = "run"}

ActiveInv == active_threads_cnt = Cardinality(Running)

\* A thread that runs a job is a thread.
LEMMA RunningFinite ==
    /\ IsFiniteSet(Running) /\ Cardinality(Running) \in Nat
    /\ Running \subseteq Alive
<1>1. Running \in SUBSET Alive
  BY DEF Running, Alive
<1> QED  BY <1>1, AliveFinite, FS_Subset, FS_CardinalityType

\* With no thread counted there is none.
LEMMA NoThreads ==
    ASSUME ThreadInv, threads_cnt = 0 PROVE Alive = {} /\ Running = {}
<1>1. Cardinality(Alive) = 0
  BY AliveFinite DEF ThreadInv
<1>2. Alive = {}
  BY <1>1, AliveFinite, FS_EmptySet
<1> QED  BY <1>2, RunningFinite

\* The worker counts itself out whichever way its job ended (317).
LEMMA FinishedActive ==
    ASSUME TypeInv, ActiveInv, NEW w \in Workers, Finished(w) PROVE ActiveInv'
<1>1. w \in Running /\ Running' = Running \ {w}
  BY DEF Finished, Running, TypeInv, Typed
<1>2. Cardinality(Running') = Cardinality(Running) - 1
  BY <1>1, RunningFinite, FS_RemoveElement
<1> QED  BY <1>2 DEF Finished, ActiveInv

\* The inductive step: only a worker that takes a job or leaves one changes the
\* count, and a new pool begins with no thread.
LEMMA ActiveStep ==
    ASSUME TypeInv, ThreadInv, ActiveInv, [Next]_vars PROVE ActiveInv'
<1> USE DEF poolVars
<1>1. ASSUME UNCHANGED active_threads_cnt, UNCHANGED Running PROVE ActiveInv'
  BY <1>1 DEF ActiveInv
<1>2. ASSUME NEW c \in Clients, NEW n \in 0 .. TPOOL_MAX_THREADS + 1, NewPool(c, n)
      PROVE ActiveInv'
  <2>1. Running = {} /\ Running' = {}
    BY <1>2, NoThreads DEF NewPool, ThreadInv, Running
  <2>2. active_threads_cnt = 0
    BY <2>1, FS_EmptySet DEF ActiveInv
  <2>3. active_threads_cnt' = 0
    BY <1>2, <2>2 DEF NewPool
  <2> QED  BY <2>1, <2>3, FS_EmptySet DEF ActiveInv
<1>3. ASSUME NEW c \in Clients, NEW t \in Tasks, Push(c, t) PROVE ActiveInv'
  <2>1. \A w \in Workers : worker'[w] = "run" <=> worker[w] = "run"
    BY <1>3, SpawnRunners DEF Push, TypeInv
  <2>2. Running' = Running
    BY <2>1 DEF Running
  <2> QED  BY <1>1, <1>3, <2>2 DEF Push
<1>4. ASSUME NEW c \in Clients, DeletePool(c) PROVE ActiveInv'
  <2>1. Running' = Running
    BY <1>4 DEF DeletePool, WakeWorkers, Running
  <2> QED  BY <1>1, <1>4, <2>1 DEF DeletePool, FreePool
<1>5. ASSUME NEW c \in Clients, NEW t \in Tasks,
             \/ NewTask(c, t) \/ PushRejected(c, t) \/ DeleteUnpushed(c, t)
             \/ DeleteTask(c, t) \/ Detach(c, t)
             \/ \E how \in {"join", "tjoin", "tzero", "thuge"} : JoinEnter(c, t, how)
      PROVE ActiveInv'
  BY <1>1, <1>5 DEF NewTask, PushRejected, DeleteUnpushed, DeleteTask, Detach, JoinEnter,
                    vars, Running
<1>6. ASSUME NEW c \in Clients, Continue(c) \/ Expire(c) \/ SpuriousClient(c) PROVE ActiveInv'
  BY <1>1, <1>6 DEF Continue, JoinLock, JoinNoTime, JoinWake, ExpiredReturn, CloseWake,
                    FreePool, Expire, SpuriousClient, Running
<1>7. ASSUME NEW w \in Workers, Pick(w) PROVE ActiveInv'
  <2>1. w \notin Running /\ Running' = Running \cup {w}
    BY <1>7 DEF Pick, Running, TypeInv, Typed
  <2>2. Cardinality(Running') = Cardinality(Running) + 1
    BY <2>1, RunningFinite, FS_AddElement
  <2> QED  BY <1>7, <2>2 DEF Pick, ActiveInv
<1>8. ASSUME NEW w \in Workers, Complete(w) \/ CompleteDetached(w) \/ CompleteFreed(w)
      PROVE ActiveInv'
  BY <1>8, FinishedActive DEF Complete, CompleteDetached, CompleteFreed
<1>9. ASSUME NEW w \in Workers, Sleep(w) \/ Exit(w) \/ SpuriousWorker(w) PROVE ActiveInv'
  <2>1. \E s \in {"wait", "off", "lock"} :
           worker[w] \in {"wait", "lock"} /\ worker' = [worker EXCEPT ![w] = s]
    BY <1>9 DEF Sleep, Exit, SpuriousWorker
  <2>2. Running' = Running
    BY <2>1 DEF Running, TypeInv, Typed
  <2> QED  BY <1>1, <1>9, <2>2 DEF Sleep, Exit, SpuriousWorker
<1>10. CASE UNCHANGED vars
  BY <1>1, <1>10 DEF vars, Running
<1> QED  BY <1>2, <1>3, <1>4, <1>5, <1>6, <1>7, <1>8, <1>9, <1>10 DEF Next, Call, Work

\* Initially no job runs.
LEMMA ActiveInit == Init => ActiveInv
<1>1. Init => Running = {}
  BY DEF Init, Running
<1> QED  BY <1>1, FS_EmptySet DEF Init, ActiveInv

LEMMA ActiveAlways == Spec => []ActiveInv
BY ActiveInit, ActiveStep, TypeCorrect, ThreadsBounded, PTL DEF Spec

\* active_threads_cnt is the number of threads inside a function, whatever the
\* callers and the platform do (285, 317, 327).
THEOREM ActiveCntExactAlways == Spec => []ActiveCntExact
<1>1. ActiveInv => ActiveCntExact
  BY DEF ActiveInv, ActiveCntExact, Running
<1> QED  BY <1>1, ActiveAlways, PTL

-----------------------------------------------------------------------------
(* The threads there are, when pthread_create does not fail                *)

\* A pool that is open allows a thread, and each thread counted is there.
SlotInv == /\ pool = "open" => max_threads_cnt > 0
           /\ threads_cnt = Cardinality(Alive)

\* The inductive step.
LEMMA SlotStep ==
    ASSUME "create_fails" \notin Env, TypeInv, ThreadInv, SlotInv, [Next]_vars PROVE SlotInv'
<1> USE DEF poolVars
<1>1. ASSUME pool' \in {pool, "closing", "none"}, UNCHANGED threads_cnt, UNCHANGED Alive,
             pool' = "open" => UNCHANGED max_threads_cnt
      PROVE SlotInv'
  BY <1>1 DEF SlotInv
<1>2. ASSUME NEW c \in Clients, NEW n \in 0 .. TPOOL_MAX_THREADS + 1, NewPool(c, n)
      PROVE SlotInv'
  BY <1>2 DEF NewPool, ValidCount, SlotInv, ThreadInv, Alive
<1>3. ASSUME NEW c \in Clients, NEW t \in Tasks, Push(c, t) PROVE SlotInv'
  <2>1. pool = "open" /\ Spawn /\ UNCHANGED <<pool, max_threads_cnt>>
    BY <1>3 DEF Push
  <2>2. CASE threads_cnt' = threads_cnt /\ Alive' = Alive
    BY <1>1, <2>1, <2>2
  <2>3. CASE /\ threads_cnt' = threads_cnt + 1
             /\ Alive' = Alive \cup {threads_cnt + 1}
             /\ threads_cnt + 1 \in Workers \ Alive
    <3>1. Cardinality(Alive') = Cardinality(Alive) + 1
      BY <2>3, AliveFinite, FS_AddElement
    <3> QED  BY <2>1, <2>3, <3>1 DEF SlotInv
  <2> QED  BY <2>1, <2>2, <2>3, SpawnThreads DEF TypeInv
<1>4. ASSUME NEW c \in Clients, DeletePool(c) PROVE SlotInv'
  <2>1. Alive' = Alive
    BY <1>4 DEF DeletePool, WakeWorkers, Alive
  <2> QED  BY <1>1, <1>4, <2>1 DEF DeletePool, FreePool
<1>5. ASSUME NEW c \in Clients, CloseWake(c) PROVE SlotInv'
  BY <1>1, <1>5 DEF CloseWake, FreePool, Alive
<1>6. ASSUME NEW w \in Workers, Exit(w) PROVE SlotInv'
  <2>1. w \in Alive /\ Alive' = Alive \ {w}
    BY <1>6 DEF Exit, Alive, TypeInv, Typed
  <2>2. Cardinality(Alive') = Cardinality(Alive) - 1
    BY <2>1, AliveFinite, FS_RemoveElement
  <2> QED  BY <1>6, <2>2 DEF Exit, SlotInv
<1>7. ASSUME NEW c \in Clients, NEW t \in Tasks,
             \/ NewTask(c, t) \/ PushRejected(c, t) \/ DeleteUnpushed(c, t)
             \/ DeleteTask(c, t) \/ Detach(c, t)
             \/ \E how \in {"join", "tjoin", "tzero", "thuge"} : JoinEnter(c, t, how)
      PROVE SlotInv'
  BY <1>1, <1>7 DEF NewTask, PushRejected, DeleteUnpushed, DeleteTask, Detach, JoinEnter,
                    vars, Alive
<1>8. ASSUME NEW c \in Clients,
             \/ JoinLock(c) \/ JoinNoTime(c) \/ JoinWake(c) \/ ExpiredReturn(c)
             \/ Expire(c) \/ SpuriousClient(c)
      PROVE SlotInv'
  BY <1>1, <1>8 DEF JoinLock, JoinNoTime, JoinWake, ExpiredReturn, Expire, SpuriousClient,
                    Alive
<1>9. ASSUME NEW w \in Workers,
             \/ Pick(w) \/ Sleep(w) \/ Complete(w) \/ CompleteDetached(w) \/ CompleteFreed(w)
             \/ SpuriousWorker(w)
      PROVE SlotInv'
  <2>1. UNCHANGED <<pool, max_threads_cnt, threads_cnt>>
    BY <1>9 DEF Pick, Sleep, Complete, CompleteDetached, CompleteFreed, Finished,
                SpuriousWorker
  <2>2. \E s \in WorkerPc \ {"off"} : worker[w] # "off" /\ worker' = [worker EXCEPT ![w] = s]
    BY <1>9 DEF Pick, Sleep, Complete, CompleteDetached, CompleteFreed, Finished,
                SpuriousWorker, WorkerPc
  <2>3. UNCHANGED Alive
    BY <2>2 DEF Alive, TypeInv, Typed
  <2> QED  BY <1>1, <2>1, <2>3
<1>10. CASE UNCHANGED vars
  BY <1>1, <1>10 DEF vars, Alive
<1> QED  BY <1>2, <1>3, <1>4, <1>5, <1>6, <1>7, <1>8, <1>9, <1>10
         DEF Next, Call, Continue, Work

LEMMA SlotAlways ==
    ASSUME "create_fails" \notin Env PROVE Spec => []SlotInv
<1>1. Init => SlotInv
  <2>1. Init => Alive = {}
    BY DEF Init, Alive
  <2> QED  BY <2>1, FS_EmptySet DEF Init, SlotInv
<1>2. TypeInv /\ ThreadInv /\ SlotInv /\ [Next]_vars => SlotInv'
  BY SlotStep
<1> QED  BY <1>1, <1>2, TypeCorrect, ThreadsBounded, PTL DEF Spec

\* threads_cnt is the number of threads (172-176, 326).
THEOREM ThreadsCntExactAlways ==
    ASSUME "create_fails" \notin Env PROVE Spec => []ThreadsCntExact
<1>1. ThreadInv /\ SlotInv => ThreadsCntExact
  BY DEF ThreadInv, SlotInv, ThreadsCntExact, Alive
<1> QED  BY <1>1, SlotAlways, ThreadsBounded, PTL

-----------------------------------------------------------------------------
(* A thread for every job                                                  *)

\* What a push finds: either there is a thread, or the counters say that one is
\* needed and allowed (172).
LEMMA PushFindsThread ==
    ASSUME "create_fails" \notin Env, TypeInv, ThreadInv, SlotInv, ActiveInv,
           pool = "open", Spawn
    PROVE  Alive' # {}
<1>1. CASE Alive = {}
  <2>1. Running = {}
    BY <1>1, RunningFinite
  <2>2. threads_cnt = 0 /\ active_threads_cnt = 0
    BY <1>1, <2>1, FS_EmptySet DEF SlotInv, ActiveInv
  <2>3. NeedThread
    BY <2>2 DEF NeedThread, SlotInv
  <2>4. threads_cnt' = threads_cnt + 1
    BY <2>3 DEF Spawn
  <2> QED  BY <2>2, <2>4, SpawnThreads DEF TypeInv
<1>2. CASE Alive # {}
  BY <1>2, SpawnThreads DEF TypeInv
<1> QED  BY <1>1, <1>2

\* The inductive step: a thread leaves only when no job is left.
LEMMA SomeWorkerStep ==
    ASSUME "create_fails" \notin Env, TypeInv, ThreadInv, SlotInv, ActiveInv, CountInv,
           SomeWorker, [Next]_vars
    PROVE  SomeWorker'
<1> USE DEF poolVars, jobVars
<1>1. ASSUME Live' \subseteq Live, \A w \in Workers : worker[w] # "off" => worker'[w] # "off"
      PROVE SomeWorker'
  BY <1>1 DEF SomeWorker
<1>2. ASSUME NEW S, NEW run, NEW fin, Drop(S, run, fin) PROVE Live' \subseteq Live
  BY <1>2 DEF Drop, Live
<1>3. ASSUME NEW c \in Clients, NEW t \in Tasks, Push(c, t) PROVE SomeWorker'
  <2>1. Alive' # {}
    BY <1>3, PushFindsThread DEF Push
  <2> QED  BY <2>1 DEF SomeWorker, Alive
<1>4. ASSUME NEW w \in Workers, Exit(w) PROVE SomeWorker'
  <2>1. Cardinality(Live) = 0
    BY <1>4 DEF Exit, CountInv, TasksCntExact
  <2>2. Live = {}
    BY <2>1, LiveFinite, FS_EmptySet
  <2>3. Live' = {}
    BY <1>4, <2>2 DEF Exit, Live
  <2> QED  BY <2>3 DEF SomeWorker
<1>5. ASSUME NEW c \in Clients, DeletePool(c) PROVE SomeWorker'
  BY <1>1, <1>5 DEF DeletePool, WakeWorkers, Live
<1>6. ASSUME NEW c \in Clients, NEW t \in Tasks, DeleteTask(c, t) \/ Detach(c, t)
      PROVE SomeWorker'
  <2>1. Live' \subseteq Live
    <3>1. CASE \E S, run, fin : Drop(S, run, fin)
      BY <1>2, <3>1
    <3>2. CASE UNCHANGED thread_task
      BY <3>2 DEF Live
    <3> QED  BY <1>6, <3>1, <3>2 DEF DeleteTask, Detach
  <2> QED  BY <1>1, <1>6, <2>1 DEF DeleteTask, Detach
<1>7. ASSUME NEW c \in Clients,
             \/ \E n \in 0 .. TPOOL_MAX_THREADS + 1 : NewPool(c, n)
             \/ Continue(c) \/ Expire(c) \/ SpuriousClient(c)
             \/ \E t \in Tasks :
                   \/ NewTask(c, t) \/ PushRejected(c, t) \/ DeleteUnpushed(c, t)
                   \/ \E how \in {"join", "tjoin", "tzero", "thuge"} : JoinEnter(c, t, how)
      PROVE SomeWorker'
  <2>1. UNCHANGED <<thread_task, worker>>
    BY <1>7 DEF NewPool, NewTask, PushRejected, DeleteUnpushed, JoinEnter, vars, Continue,
                JoinLock, JoinNoTime, JoinWake, ExpiredReturn, CloseWake, Expire,
                SpuriousClient
  <2> QED  BY <1>1, <2>1 DEF Live
<1>8. ASSUME NEW w \in Workers,
             \/ Pick(w) \/ Sleep(w) \/ Complete(w) \/ CompleteDetached(w) \/ CompleteFreed(w)
             \/ SpuriousWorker(w)
      PROVE SomeWorker'
  <2>1. Live' \subseteq Live
    <3>1. CASE CompleteDetached(w)
      BY <1>2, <3>1 DEF CompleteDetached
    <3>2. CASE UNCHANGED thread_task
      BY <3>2 DEF Live
    <3> QED  BY <1>8, <3>1, <3>2 DEF Pick, Sleep, Complete, CompleteFreed, SpuriousWorker
  <2>2. \E s \in WorkerPc \ {"off"} : worker' = [worker EXCEPT ![w] = s]
    BY <1>8 DEF Pick, Sleep, Complete, CompleteDetached, CompleteFreed, Finished,
                SpuriousWorker, WorkerPc
  <2> QED  BY <1>1, <2>1, <2>2 DEF TypeInv, Typed
<1>9. CASE UNCHANGED vars
  BY <1>1, <1>9 DEF vars, Live
<1> QED  BY <1>3, <1>4, <1>5, <1>6, <1>7, <1>8, <1>9 DEF Next, Call, Work

\* No job is left without a thread that could take it, as long as pthread_create
\* makes the threads it is asked for.
THEOREM SomeWorkerAlways ==
    ASSUME "create_fails" \notin Env PROVE Spec => []SomeWorker
<1>1. Init => SomeWorker
  BY DEF Init, SomeWorker, Live
<1>2. TypeInv /\ ThreadInv /\ SlotInv /\ ActiveInv /\ CountInv /\ SomeWorker /\ [Next]_vars
        => SomeWorker'
  BY SomeWorkerStep
<1> QED  BY <1>1, <1>2, TypeCorrect, ThreadsBounded, SlotAlways, ActiveAlways, CountAlways,
            PTL DEF Spec

-----------------------------------------------------------------------------
(* Joins                                                                   *)

\* A client whose wait on end_cond was signalled was signalled for its own job;
\* no client has passed a timeout that the timespec cannot hold.
WokenInv == \A c \in Clients : /\ pc[c] = "woken" => cjob[c] \in is_finished
                               /\ pc[c] # "thuge"

\* Jobs that are freed are not those of a join.
LEMMA DropWoken ==
    ASSUME WokenInv, NEW S, NEW run, NEW fin, Drop(S, run, fin), is_finished \subseteq fin,
           \A c \in Clients : cjob[c] \notin S, UNCHANGED <<pc, cjob>>
    PROVE  WokenInv'
BY DEF WokenInv, Drop

\* The inductive step: only the signal of the worker that has finished the job
\* takes a client out of its wait (322).
LEMMA WokenStep ==
    ASSUME Env \cap {"early_delete", "spurious", "huge"} = {}, SafeInv, WokenInv, [Next]_vars
    PROVE  WokenInv'
<1> USE DEF poolVars, jobVars, flags, SafeInv
<1>1. ASSUME is_finished \subseteq is_finished',
             \A c \in Clients : /\ pc'[c] = "woken" => pc[c] = "woken" /\ cjob'[c] = cjob[c]
                                /\ pc'[c] # "thuge"
      PROVE WokenInv'
  BY <1>1 DEF WokenInv
<1>2. ASSUME NEW c \in Clients, NEW t \in Tasks, DeleteTask(c, t) \/ Detach(c, t)
      PROVE WokenInv'
  <2>1. CASE Drop(JobsOf(t), is_running, is_finished)
    <3>1. \A d \in Clients : cjob[d] \notin JobsOf(t)
      BY <1>2, NotInCall DEF DeleteTask, Detach
    <3> QED  BY <1>2, <2>1, <3>1, DropWoken DEF DeleteTask, Detach
  <2>2. CASE UNCHANGED is_finished
    BY <1>2, <2>2 DEF DeleteTask, Detach, WokenInv
  <2> QED  BY <1>2, <2>1, <2>2 DEF DeleteTask, Detach
<1>3. ASSUME NEW c \in Clients, NEW t \in Tasks,
             NEW how \in {"join", "tjoin", "tzero", "thuge"}, JoinEnter(c, t, how)
      PROVE WokenInv'
  BY <1>3 DEF JoinEnter, WokenInv, TypeInv, Typed
<1>4. ASSUME NEW c \in Clients,
             \/ \E n \in 0 .. TPOOL_MAX_THREADS + 1 : NewPool(c, n)
             \/ \E t \in Tasks : NewTask(c, t) \/ Push(c, t) \/ PushRejected(c, t)
                                 \/ DeleteUnpushed(c, t)
      PROVE WokenInv'
  BY <1>4 DEF NewPool, NewTask, Push, PushRejected, DeleteUnpushed, vars, WokenInv
<1>5. ASSUME NEW c \in Clients, DeletePool(c) PROVE WokenInv'
  BY <1>5 DEF DeletePool, WokenInv, TypeInv, Typed
<1>6. ASSUME NEW c \in Clients, JoinLock(c) PROVE WokenInv'
  <2>1. pc[c] \in {"join", "tjoin"}
    BY <1>6 DEF JoinLock, WokenInv
  <2>2. WaitPc(pc[c]) \subseteq {"wait", "twait"}
    BY <2>1 DEF WaitPc
  <2> QED  BY <1>6, <2>2 DEF JoinLock, Return, WokenInv, TypeInv, Typed
<1>7. ASSUME NEW c \in Clients,
             \/ JoinNoTime(c) \/ JoinWake(c) \/ ExpiredReturn(c) \/ CloseWake(c) \/ Expire(c)
      PROVE WokenInv'
  BY <1>7 DEF JoinNoTime, JoinWake, ExpiredReturn, CloseWake, Expire, Return, WokenInv,
              TypeInv, Typed
<1>8. ASSUME NEW w \in Workers, Complete(w) PROVE WokenInv'
  <2>1. /\ is_finished' = is_finished \cup {wjob[w]}
        /\ SignalEnd(wjob[w]) /\ UNCHANGED cjob
    BY <1>8 DEF Complete, Finished
  <2>2. CASE pc' = pc
    BY <2>1, <2>2 DEF WokenInv
  <2>3. ASSUME NEW c \in Waiters(wjob[w]), pc' = [pc EXCEPT ![c] = "woken"] PROVE WokenInv'
    BY <2>1, <2>3 DEF Waiters, WokenInv, TypeInv, Typed
  <2> QED  BY <2>1, <2>2, <2>3 DEF SignalEnd
<1>9. ASSUME NEW w \in Workers, CompleteDetached(w) PROVE WokenInv'
  <2>1. /\ list[thread_task[wjob[w]]] = wjob[w] /\ wjob[w] \in is_detached
        /\ thread_task[wjob[w]] \in Tasks
    BY <1>9, DetachedFreesFinished DEF CompleteDetached, Live, TypeInv, Typed
  <2>2. ASSUME NEW c \in Clients, cjob[c] \in JobsOf(thread_task[wjob[w]]) PROVE FALSE
    <3>1. cjob[c] # NULL /\ thread_task[cjob[c]] = thread_task[wjob[w]]
      BY <2>2, ThreadPoolAssumption DEF JobsOf
    <3>2. list[thread_task[cjob[c]]] \notin is_detached
      BY <3>1 DEF CareInv, LiveInv, JoinInv
    <3> QED  BY <2>1, <3>1, <3>2
  <2> QED  BY <1>9, <2>2, DropWoken DEF CompleteDetached, Finished
<1>10. ASSUME NEW w \in Workers,
              Pick(w) \/ Sleep(w) \/ Exit(w) \/ CompleteFreed(w) \/ SpuriousWorker(w)
       PROVE WokenInv'
  BY <1>10 DEF Pick, Sleep, Exit, CompleteFreed, Finished, SpuriousWorker, WokenInv, TypeInv,
               Typed
<1>11. \A c \in Clients : ~SpuriousClient(c)
  BY DEF SpuriousClient
<1>12. CASE UNCHANGED vars
  BY <1>12 DEF vars, WokenInv
<1> QED  BY <1>2, <1>3, <1>4, <1>5, <1>6, <1>7, <1>8, <1>9, <1>10, <1>11, <1>12
         DEF Next, Call, Continue, Work

\* A join that returns 0 returns a finished job (thread_task_join,
\* thread_task_timed_join): the wait without a loop is right as long as waits return
\* for signals only.
THEOREM JoinReturnsFinishedAlways ==
    ASSUME Env \cap {"early_delete", "spurious", "huge"} = {}
    PROVE  Spec => JoinReturnsFinished
<1>1. Init => WokenInv
  BY DEF Init, WokenInv
<1>2. SafeInv /\ WokenInv /\ [Next]_vars => WokenInv'
  BY WokenStep
<1>3. ASSUME SafeInv, WokenInv, [Next]_vars, NEW c \in Clients, JoinReturns(c)
      PROVE  cjob[c] \in is_finished
  <2> USE DEF poolVars, jobVars
  <2>1. pc[c] \in {"join", "tjoin", "woken"} /\ pc'[c] = "idle" /\ pc'[c] # pc[c]
    BY <1>3 DEF JoinReturns, WokenInv
  <2>2. CASE pc[c] = "woken"
    BY <1>3, <2>2 DEF WokenInv
  <2>3. CASE pc[c] \in {"join", "tjoin"}
    <3>0. pc \in [Clients -> ClientPc]
      BY <1>3 DEF SafeInv, TypeInv, Typed
    <3>1. ASSUME NEW d \in Clients, Call(d) PROVE pc'[c] = pc[c]
      <4>1. pc[d] = "idle" /\ (UNCHANGED pc \/ \E s : pc' = [pc EXCEPT ![d] = s])
        BY <3>1 DEF Call, Idle, NewPool, NewTask, Push, PushRejected, JoinEnter,
                    DeleteUnpushed, DeleteTask, Detach, DeletePool, vars
      <4> QED  BY <2>3, <3>0, <4>1
    <3>2. ASSUME NEW d \in Clients, d # c, Continue(d) \/ Expire(d) \/ SpuriousClient(d)
          PROVE pc'[c] = pc[c]
      <4>1. UNCHANGED pc \/ \E s : pc' = [pc EXCEPT ![d] = s]
        BY <3>2 DEF Continue, JoinLock, JoinNoTime, JoinWake, ExpiredReturn, CloseWake, Expire,
                    SpuriousClient, Return
      <4> QED  BY <3>0, <3>2, <4>1
    <3>3. ASSUME JoinLock(c) PROVE cjob[c] \in is_finished
      <4>1. WaitPc(pc[c]) \subseteq {"wait", "twait"}
        BY <2>3 DEF WaitPc
      <4>2. cjob[c] \in is_finished \/ \E next \in {"wait", "twait"} : pc' = [pc EXCEPT ![c] = next]
        BY <3>3, <4>1 DEF JoinLock
      <4> QED  BY <2>1, <3>0, <4>2
    <3>4. ~(JoinNoTime(c) \/ JoinWake(c) \/ ExpiredReturn(c) \/ CloseWake(c) \/ Expire(c)
            \/ SpuriousClient(c))
      BY <2>3 DEF JoinNoTime, JoinWake, ExpiredReturn, CloseWake, Expire, SpuriousClient
    <3>5. ASSUME NEW w \in Workers, Work(w) \/ SpuriousWorker(w) PROVE pc'[c] # "idle"
      <4>1. ASSUME NEW j \in Jobs, SignalEnd(j) PROVE pc'[c] # "idle"
        BY <2>3, <3>0, <4>1 DEF SignalEnd, Waiters
      <4>2. Complete(w) => wjob[w] \in Jobs /\ SignalEnd(wjob[w])
        BY DEF Complete, Live
      <4> QED  BY <2>3, <3>5, <4>1, <4>2
               DEF Work, Pick, Sleep, Exit, CompleteDetached, CompleteFreed, Finished,
                   SpuriousWorker
    <3> QED  BY <1>3, <2>1, <3>1, <3>2, <3>3, <3>4, <3>5 DEF Next, Continue, vars
  <2> QED  BY <2>1, <2>2, <2>3
<1>4. SafeInv /\ WokenInv /\ [Next]_vars =>
        [\A c \in Clients : JoinReturns(c) => cjob[c] \in is_finished]_vars
  BY <1>3
<1>5. Spec => []SafeInv
  BY SafeAlways
<1> QED  BY <1>1, <1>2, <1>4, <1>5, PTL DEF Spec, JoinReturnsFinished

-----------------------------------------------------------------------------
(* Tasks that were joined                                                  *)

\* Every job of a task but its newest was joined and is finished.
OldJobsInv == \A t \in Tasks : JobsOf(t) \ {list[t]} \subseteq is_joined \cap is_finished

\* delete_task frees all jobs of its task and leaves the others as they were.
LEMMA DropOldJobs ==
    ASSUME SafeInv, OldJobsInv, NEW t \in Tasks, NEW run, NEW fin, Drop(JobsOf(t), run, fin),
           is_finished \subseteq fin
    PROVE  OldJobsInv'
<1> USE DEF SafeInv, TypeInv, Typed
<1>1. ASSUME NEW u \in Tasks, NEW j \in JobsOf(u)', j # list'[u]
      PROVE  j \in is_joined' /\ j \in is_finished'
  <2>1. j \in Jobs /\ j \notin JobsOf(t) /\ j \in JobsOf(u) /\ u # t
    BY <1>1, ThreadPoolAssumption DEF Drop, JobsOf
  <2>2. list'[u] = list[u]
    BY <2>1 DEF Drop, JobsOf, CareInv, LiveInv, TaskInv
  <2>3. j \in is_joined /\ j \in is_finished
    BY <1>1, <2>1, <2>2 DEF OldJobsInv
  <2> QED  BY <2>1, <2>3 DEF Drop
<1> QED  BY <1>1 DEF OldJobsInv

\* The inductive step: a task is pushed again only after its last join.
LEMMA OldJobsStep ==
    ASSUME Env \cap {"early_delete", "repush"} = {}, SafeInv, OldJobsInv, [Next]_vars
    PROVE  OldJobsInv'
<1> USE DEF poolVars, jobVars, flags
<1>1. ASSUME UNCHANGED <<thread_task, list>>,
             is_joined \subseteq is_joined', is_finished \subseteq is_finished'
      PROVE OldJobsInv'
  BY <1>1 DEF OldJobsInv, JobsOf
<1>2. ASSUME NEW c \in Clients, NEW t \in Tasks, Push(c, t) PROVE OldJobsInv'
  <2>1. PICK j \in Jobs \ Live : /\ thread_task' = [thread_task EXCEPT ![j] = t]
                                 /\ list' = [list EXCEPT ![t] = j]
    BY <1>2 DEF Push
  <2>2. JobsOf(t) \subseteq is_joined \cap is_finished
    BY <1>2 DEF Push, Reusable
  <2>3. ASSUME NEW u \in Tasks, NEW k \in JobsOf(u)', k # list'[u]
        PROVE  k \in is_joined /\ k \in is_finished
    <3>1. CASE u = t
      BY <2>1, <2>2, <2>3, <3>1 DEF JobsOf, SafeInv, TypeInv, Typed
    <3>2. CASE u # t
      BY <2>1, <2>3, <3>2 DEF JobsOf, OldJobsInv, SafeInv, TypeInv, Typed
    <3> QED  BY <3>1, <3>2
  <2> QED  BY <1>2, <2>3 DEF Push, OldJobsInv
<1>3. ASSUME NEW c \in Clients, NEW t \in Tasks, DeleteTask(c, t) \/ Detach(c, t)
      PROVE OldJobsInv'
  BY <1>1, <1>3, DropOldJobs DEF DeleteTask, Detach
<1>4. ASSUME NEW w \in Workers, CompleteDetached(w) PROVE OldJobsInv'
  <2>1. thread_task[wjob[w]] \in Tasks
    BY <1>4 DEF CompleteDetached, Live, SafeInv, TypeInv, Typed
  <2> QED  BY <1>4, <2>1, DropOldJobs DEF CompleteDetached
<1>5. ASSUME NEW c \in Clients,
             \/ \E n \in 0 .. TPOOL_MAX_THREADS + 1 : NewPool(c, n)
             \/ \E t \in Tasks :
                   \/ NewTask(c, t) \/ PushRejected(c, t) \/ DeleteUnpushed(c, t)
                   \/ \E how \in {"join", "tjoin", "tzero", "thuge"} : JoinEnter(c, t, how)
             \/ DeletePool(c) \/ Continue(c) \/ Expire(c) \/ SpuriousClient(c)
      PROVE OldJobsInv'
  BY <1>1, <1>5 DEF NewPool, NewTask, PushRejected, DeleteUnpushed, JoinEnter, DeletePool,
                    Continue, JoinLock, JoinNoTime, JoinWake, ExpiredReturn, CloseWake, Expire,
                    SpuriousClient, vars
<1>6. ASSUME NEW w \in Workers,
             \/ Pick(w) \/ Sleep(w) \/ Exit(w) \/ Complete(w) \/ CompleteFreed(w)
             \/ SpuriousWorker(w)
      PROVE OldJobsInv'
  BY <1>1, <1>6 DEF Pick, Sleep, Exit, Complete, CompleteFreed, SpuriousWorker
<1>7. CASE UNCHANGED vars
  BY <1>1, <1>7 DEF vars
<1> QED  BY <1>2, <1>3, <1>4, <1>5, <1>6, <1>7 DEF Next, Call, Work

\* What the header says of a joined task (thread_pool.h 119-120) holds of tasks
\* that are pushed again only after they were joined.
THEOREM JoinedIsDeletableAlways ==
    ASSUME Env \cap {"early_delete", "repush"} = {} PROVE Spec => []JoinedIsDeletable
<1>1. Init => OldJobsInv
  BY ThreadPoolAssumption DEF Init, OldJobsInv, JobsOf
<1>2. SafeInv /\ OldJobsInv /\ [Next]_vars => OldJobsInv'
  BY OldJobsStep
<1>3. SafeInv /\ OldJobsInv => JoinedIsDeletable
  BY DEF SafeInv, TypeInv, Typed, OldJobsInv, JoinedIsDeletable, Deletable
<1>4. Spec => []SafeInv
  BY SafeAlways
<1> QED  BY <1>1, <1>2, <1>3, <1>4, PTL DEF Spec

-----------------------------------------------------------------------------
(* The pool as a service                                                   *)

\* A pool that was made has a limit, and only such a pool.
LimitInv == pool = "none" <=> max_threads_cnt = 0

LEMMA LimitStep == LimitInv /\ [Next]_vars => LimitInv'
<1> SUFFICES ASSUME LimitInv, [Next]_vars PROVE LimitInv'
  OBVIOUS
<1> USE DEF poolVars, LimitInv
<1>1. ASSUME NEW c \in Clients, NEW n \in 0 .. TPOOL_MAX_THREADS + 1, NewPool(c, n)
      PROVE LimitInv'
  BY <1>1 DEF NewPool, ValidCount
<1>2. ASSUME NEW c \in Clients, DeletePool(c) \/ CloseWake(c) PROVE LimitInv'
  BY <1>2 DEF DeletePool, CloseWake, FreePool
<1>3. ASSUME UNCHANGED <<pool, max_threads_cnt>> PROVE LimitInv'
  BY <1>3
<1>4. ASSUME NEW c \in Clients, NEW t \in Tasks,
             \/ NewTask(c, t) \/ Push(c, t) \/ PushRejected(c, t) \/ DeleteUnpushed(c, t)
             \/ DeleteTask(c, t) \/ Detach(c, t)
             \/ \E how \in {"join", "tjoin", "tzero", "thuge"} : JoinEnter(c, t, how)
      PROVE LimitInv'
  BY <1>3, <1>4 DEF NewTask, Push, PushRejected, DeleteUnpushed, DeleteTask, Detach, JoinEnter,
                    vars
<1>5. ASSUME NEW c \in Clients,
             \/ JoinLock(c) \/ JoinNoTime(c) \/ JoinWake(c) \/ ExpiredReturn(c)
             \/ Expire(c) \/ SpuriousClient(c)
      PROVE LimitInv'
  BY <1>3, <1>5 DEF JoinLock, JoinNoTime, JoinWake, ExpiredReturn, Expire, SpuriousClient
<1>6. ASSUME NEW w \in Workers, Work(w) \/ SpuriousWorker(w) PROVE LimitInv'
  BY <1>3, <1>6 DEF Work, Pick, Sleep, Exit, Complete, CompleteDetached, CompleteFreed,
                    Finished, SpuriousWorker
<1>7. CASE UNCHANGED vars
  BY <1>3, <1>7 DEF vars
<1> QED  BY <1>1, <1>2, <1>4, <1>5, <1>6, <1>7 DEF Next, Call, Continue

\* All that the refinement needs of a state.
ServiceInv == SafeInv /\ ListInv /\ ActiveInv /\ LimitInv /\ CloserInv

LEMMA ServiceInvAlways ==
    ASSUME "early_delete" \notin Env PROVE Spec => []ServiceInv
<1>1. Init => ListInv /\ LimitInv
  BY DEF Init, ListInv, ListHoldsAll, UnpickedFirst, Unpicked, Chain, Live, LimitInv
<1>2. SafeInv /\ ListInv /\ [Next]_vars => ListInv'
  BY ListStep
<1>3. Spec => []SafeInv
  BY SafeAlways
<1> QED  BY <1>1, <1>2, <1>3, LimitStep, ActiveAlways, CountAlways, PTL DEF Spec, ServiceInv

\* What the service sees of the jobs: all that are allocated, and waiting those
\* with no flag.
LEMMA KnownIsLive ==
    ASSUME ServiceInv
    PROVE  /\ Unpicked = Live \ (is_running \cup is_finished)
           /\ Unpicked \cup is_running \cup is_finished = Live
           /\ is_running \cap is_finished = {}
           /\ Live \subseteq Jobs
<1>1. Chain = Live
  BY DEF ServiceInv, ListInv, ListHoldsAll
<1>2. is_running \cup is_finished \subseteq Live /\ is_running \cap is_finished = {}
  BY DEF ServiceInv, SafeInv, CareInv, LiveInv, FlagInv, RunInv, OneRunner
<1> QED  BY <1>1, <1>2 DEF Unpicked, Live

\* The same of the state that a step leads to.
LEMMA NextKnown ==
    ASSUME ServiceInv' PROVE Unpicked' = Live' \ (is_running' \cup is_finished')
<1>1. Chain' = Live'
  BY DEF ServiceInv, ListInv, ListHoldsAll
<1> QED  BY <1>1 DEF Unpicked

\* The service counts sets as the pool does.
LEMMA SameCardinality == \A S : Service!Cardinality(S) = Cardinality(S)
BY DEF Service!Cardinality, Cardinality

\* No more jobs run than threads run one.
LEMMA RunningJobs ==
    ASSUME ServiceInv PROVE Cardinality(is_running) <= Cardinality(Running)
<1> DEFINE f == [w \in Running |-> wjob[w]]
<1>1. /\ \A w \in Workers : wjob[w] # NULL => wjob[w] \in is_running
      /\ \A j \in is_running : j # NULL /\ \E w \in Workers : wjob[w] = j
  BY RunningIffHeld DEF ServiceInv, SafeInv, CareInv, RunInv
<1>2. \A w \in Workers : w \in Running <=> wjob[w] # NULL
  BY DEF ServiceInv, SafeInv, CareInv, RunInv, Running
<1>3. f \in [Running -> is_running]
  BY <1>1, <1>2 DEF Running
<1>4. \A j \in is_running : \E w \in Running : f[w] = j
  BY <1>1, <1>2
<1>5. f \in Surjection(Running, is_running)
  BY <1>3, <1>4 DEF Surjection
<1> QED  BY <1>5, RunningFinite, FS_Surjection

\* A worker that takes a job is the one that was still allowed to.
LEMMA PickHasRoom ==
    ASSUME ServiceInv, NEW w \in Workers, worker[w] = "lock"
    PROVE  Cardinality(is_running) < max_threads_cnt
<1>1. w \in Alive /\ w \notin Running
  BY DEF Alive, Running
<1>2. Cardinality(Running \cup {w}) = Cardinality(Running) + 1
  BY <1>1, RunningFinite, FS_AddElement
<1>3. Cardinality(Running \cup {w}) <= Cardinality(Alive)
  BY <1>1, RunningFinite, AliveFinite, FS_Subset
<1>4. Cardinality(Alive) <= max_threads_cnt
  BY AliveFinite DEF ServiceInv, SafeInv, ThreadInv, TypeInv, Typed
<1>5. Cardinality(is_running) \in Nat
  <2>1. is_running \in SUBSET Live
    BY DEF ServiceInv, SafeInv, CareInv, LiveInv, FlagInv
  <2> QED  BY <2>1, LiveFinite, FS_Subset, FS_CardinalityType
<1> QED  BY <1>2, <1>3, <1>4, <1>5, RunningJobs, RunningFinite, AliveFinite
         DEF ServiceInv, SafeInv, TypeInv, Typed

\* Freeing finished jobs forgets them, and takes none that waits or runs.
LEMMA DropForgets ==
    ASSUME ServiceInv, ServiceInv', NEW S, S \subseteq is_finished,
           Drop(S, is_running, is_finished), UNCHANGED max_threads_cnt
    PROVE  Service!Next
<1>1. S \subseteq Jobs /\ is_running' = is_running /\ is_finished' = is_finished \ S
  BY KnownIsLive DEF Drop
<1>2. Live' = Live \ S
  BY DEF Drop, Live, ServiceInv, SafeInv, TypeInv, Typed
<1>3. Unpicked' = Unpicked
  <2>1. Unpicked' = Live' \ (is_running' \cup is_finished')
    BY NextKnown
  <2> QED  BY <1>1, <1>2, <2>1, KnownIsLive
<1> QED  BY <1>1, <1>3 DEF Service!Next, Service!Forget

\* A call is a step of the service, or one that it does not see.
LEMMA CallServes ==
    ASSUME "early_delete" \notin Env, ServiceInv, ServiceInv', NEW c \in Clients, Call(c)
    PROVE  [Service!Next]_(Service!vars)
<1> USE DEF poolVars, jobVars, flags
<1>0. Unpicked' = Live' \ (is_running' \cup is_finished')
  BY NextKnown
<1>1. ASSUME UNCHANGED <<max_threads_cnt, thread_task, is_running, is_finished>>
      PROVE [Service!Next]_(Service!vars)
  <2>1. Unpicked' = Unpicked
    BY <1>0, <1>1, KnownIsLive DEF Live
  <2> QED  BY <1>1, <2>1 DEF Service!vars
<1>2. ASSUME NEW n \in 0 .. TPOOL_MAX_THREADS + 1, NewPool(c, n)
      PROVE [Service!Next]_(Service!vars)
  <2>1. CASE ValidCount(n)
    <3>1. n \in 1 .. TPOOL_MAX_THREADS
      BY <2>1, ThreadPoolAssumption DEF ValidCount
    <3>2. UNCHANGED <<Unpicked, is_running, is_finished>>
      BY <1>0, <1>2, KnownIsLive DEF NewPool, Live
    <3>3. max_threads_cnt = 0 /\ max_threads_cnt' = n
      BY <1>2, <2>1 DEF NewPool, ServiceInv, LimitInv
    <3>4. Service!Open(n)
      BY <3>2, <3>3 DEF Service!Open
    <3> QED  BY <3>1, <3>4 DEF Service!Next
  <2>2. CASE ~ValidCount(n)
    BY <1>1, <1>2, <2>2 DEF NewPool
  <2> QED  BY <2>1, <2>2
<1>3. ASSUME NEW t \in Tasks, Push(c, t) PROVE [Service!Next]_(Service!vars)
  <2>1. PICK j \in Jobs \ Live : thread_task' = [thread_task EXCEPT ![j] = t]
    BY <1>3 DEF Push
  <2>2. Live' = Live \cup {j}
    BY <2>1, ThreadPoolAssumption DEF Live, ServiceInv, SafeInv, TypeInv, Typed
  <2>3. Unpicked' = Unpicked \cup {j}
    BY <1>0, <1>3, <2>2, KnownIsLive DEF Push
  <2>4. Cardinality(Live) < TPOOL_MAX_TASKS
    BY <1>3, ThreadPoolAssumption, LiveFinite
       DEF Push, ServiceInv, SafeInv, CountInv, TasksCntExact
  <2>5. max_threads_cnt > 0
    BY <1>3 DEF Push, ServiceInv, LimitInv, SafeInv, TypeInv, Typed
  <2>6. Service!Submit(j)
    BY <1>3, <2>3, <2>4, <2>5, KnownIsLive, SameCardinality
       DEF Push, Service!Submit, Service!Known
  <2> QED  BY <2>6 DEF Service!Next
<1>4. ASSUME NEW t \in Tasks, DeleteTask(c, t) PROVE [Service!Next]_(Service!vars)
  <2>1. CASE Drop(JobsOf(t), is_running, is_finished) /\ Deletable(t, is_detached, is_finished)
    <3>1. JobsOf(t) \subseteq is_finished
      BY <1>4, <2>1, FreedFinished DEF DeleteTask, Careful
    <3> QED  BY <1>4, <2>1, <3>1, DropForgets DEF DeleteTask
  <2> QED  BY <1>1, <1>4, <2>1 DEF DeleteTask
<1>5. ASSUME NEW t \in Tasks, Detach(c, t) PROVE [Service!Next]_(Service!vars)
  <2>1. CASE /\ Drop(JobsOf(t), is_running, is_finished) /\ list[t] \in is_finished
             /\ Deletable(t, is_detached \cup {list[t]}, is_finished)
    <3>1. JobsOf(t) \ {list[t]} \subseteq is_finished
      BY <1>5, <2>1 DEF Detach, Careful, Settled, Deletable
    <3> QED  BY <1>5, <2>1, <3>1, DropForgets DEF Detach
  <2> QED  BY <1>1, <1>5, <2>1 DEF Detach
<1>6. ASSUME DeletePool(c) PROVE [Service!Next]_(Service!vars)
  <2>1. CASE ~(tasks_cnt > 0) /\ FreePool
    <3>1. Cardinality(Live) = 0
      BY <2>1, LiveFinite DEF ServiceInv, SafeInv, CountInv, TasksCntExact
    <3>2. Live = {}
      BY <3>1, LiveFinite, FS_EmptySet
    <3>3. UNCHANGED <<Unpicked, is_running, is_finished>>
      BY <1>0, <1>6, KnownIsLive DEF DeletePool, Live
    <3>4. Service!Close
      BY <2>1, <3>2, <3>3, KnownIsLive DEF FreePool, Service!Close, Service!Known
    <3> QED  BY <3>4 DEF Service!Next
  <2> QED  BY <1>1, <1>6, <2>1 DEF DeletePool
<1>7. ASSUME NEW t \in Tasks,
             \/ NewTask(c, t) \/ PushRejected(c, t) \/ DeleteUnpushed(c, t)
             \/ \E how \in {"join", "tjoin", "tzero", "thuge"} : JoinEnter(c, t, how)
      PROVE [Service!Next]_(Service!vars)
  BY <1>1, <1>7 DEF NewTask, PushRejected, DeleteUnpushed, JoinEnter, vars
<1> QED  BY <1>2, <1>3, <1>4, <1>5, <1>6, <1>7 DEF Call

\* So is every step of a waiting call.
LEMMA ContinueServes ==
    ASSUME ServiceInv, ServiceInv', NEW c \in Clients,
           Continue(c) \/ Expire(c) \/ SpuriousClient(c)
    PROVE  [Service!Next]_(Service!vars)
<1> USE DEF poolVars, jobVars
<1>0. UNCHANGED <<Unpicked, is_running, is_finished>>
  <2>1. UNCHANGED <<order, is_running, is_finished>>
    BY DEF Continue, JoinLock, JoinNoTime, JoinWake, ExpiredReturn, CloseWake, Expire,
           SpuriousClient
  <2> QED  BY <2>1 DEF Unpicked, Chain
<1>1. CASE UNCHANGED max_threads_cnt
  BY <1>0, <1>1 DEF Service!vars
<1>2. CASE CloseWake(c) /\ FreePool
  <2>1. pool = "closing"
    BY <1>2 DEF CloseWake, ServiceInv, CloserInv, Closing
  <2>2. Cardinality(Live) = 0
    BY <2>1 DEF ServiceInv, SafeInv, CountInv, TasksCntExact
  <2>3. Live = {}
    BY <2>2, LiveFinite, FS_EmptySet
  <2>4. Service!Close
    BY <1>0, <1>2, <2>3, KnownIsLive DEF FreePool, Service!Close, Service!Known
  <2> QED  BY <2>4 DEF Service!Next
<1>3. UNCHANGED max_threads_cnt \/ (CloseWake(c) /\ FreePool)
  BY DEF Continue, JoinLock, JoinNoTime, JoinWake, ExpiredReturn, CloseWake, Expire,
         SpuriousClient
<1> QED  BY <1>1, <1>2, <1>3

\* And every step of a worker: it starts a job, or ends one and may free with it
\* jobs that were done.
LEMMA WorkServes ==
    ASSUME ServiceInv, ServiceInv', NEW w \in Workers, Work(w) \/ SpuriousWorker(w)
    PROVE  [Service!Next]_(Service!vars)
<1> USE DEF poolVars, jobVars
<1>0. /\ Unpicked' = Live' \ (is_running' \cup is_finished')
      /\ ~CompleteFreed(w)
  BY NextKnown, WorkCare DEF ServiceInv, SafeInv
<1>1. CASE Pick(w)
  <2>1. PICK j \in Unpicked : is_running' = is_running \cup {j}
    BY <1>1 DEF Pick, get_task
  <2>2. Unpicked' = Unpicked \ {j} /\ UNCHANGED <<max_threads_cnt, is_finished>>
    BY <1>0, <1>1, <2>1, KnownIsLive DEF Pick, Live
  <2>3. Cardinality(is_running) < max_threads_cnt
    BY <1>1, PickHasRoom DEF Pick
  <2>4. Service!Start(j)
    BY <2>1, <2>2, <2>3, SameCardinality DEF Service!Start
  <2>5. j \in Jobs
    BY <2>1, KnownIsLive
  <2> QED  BY <2>4, <2>5 DEF Service!Next
<1>2. CASE Complete(w) \/ CompleteDetached(w)
  <2> DEFINE j == wjob[w]
  <2>1. j \in is_running /\ j \in Jobs /\ UNCHANGED max_threads_cnt
    BY <1>2, RunningIffHeld, KnownIsLive
       DEF Complete, CompleteDetached, Finished, ServiceInv, SafeInv, CareInv, LiveInv, RunInv,
            FlagInv
  <2>2. CASE Complete(w)
    <3>1. /\ is_running' = is_running \ {j} /\ is_finished' = is_finished \cup {j}
          /\ Live' = Live
      BY <2>2 DEF Complete, Live
    <3>2. Unpicked' = Unpicked
      BY <1>0, <2>1, <3>1, KnownIsLive
    <3>3. Service!Finish(j, {})
      BY <2>1, <3>1, <3>2 DEF Service!Finish
    <3>4. {} \in SUBSET Jobs
      OBVIOUS
    <3> QED  BY <2>1, <3>3, <3>4 DEF Service!Next
  <2>3. CASE CompleteDetached(w)
    <3> DEFINE S == JobsOf(thread_task[j])
    <3>1. S \subseteq is_finished \cup {j} /\ j \in S /\ S \in SUBSET Jobs
      BY <2>1, <2>3, DetachedFreesFinished DEF JobsOf, ServiceInv, SafeInv
    <3>2. Drop(S, is_running \ {j}, is_finished \cup {j})
      BY <2>3 DEF CompleteDetached
    <3>3. Live' = Live \ S
      BY <3>2 DEF Drop, Live, ServiceInv, SafeInv, TypeInv, Typed
    <3> HIDE DEF S
    <3>4. /\ is_running' = is_running \ {j}
          /\ is_finished' = (is_finished \cup {j}) \ S
      BY <3>1, <3>2, KnownIsLive DEF Drop
    <3>5. Unpicked' = Unpicked
      BY <1>0, <2>1, <3>1, <3>3, <3>4, KnownIsLive
    <3>6. Service!Finish(j, S)
      BY <2>1, <3>1, <3>4, <3>5 DEF Service!Finish
    <3> QED  BY <2>1, <3>1, <3>6 DEF Service!Next
  <2> QED  BY <1>2, <2>2, <2>3
<1>3. CASE Sleep(w) \/ Exit(w) \/ SpuriousWorker(w)
  <2>1. UNCHANGED <<max_threads_cnt, order, is_running, is_finished>>
    BY <1>3 DEF Sleep, Exit, SpuriousWorker
  <2>2. Unpicked' = Unpicked
    BY <2>1 DEF Unpicked, Chain
  <2> QED  BY <2>1, <2>2 DEF Service!vars
<1> QED  BY <1>0, <1>1, <1>2, <1>3 DEF Work

\* The pool implements TaskService: jobs wait, run on at most max_threads_cnt
\* threads, are done and only then forgotten (thread_pool.h), unless a
\* client deletes a task while it leaves a join of it unfinished.
THEOREM PoolIsService ==
    ASSUME "early_delete" \notin Env PROVE Spec => IsService
<1>1. Init => Service!Init
  BY DEF Init, Unpicked, Chain, Service!Init
<1>2. ASSUME ServiceInv, ServiceInv', [Next]_vars PROVE [Service!Next]_(Service!vars)
  <2>1. CASE Next
    BY <1>2, <2>1, CallServes, ContinueServes, WorkServes DEF Next
  <2>2. CASE UNCHANGED vars
    BY <2>2 DEF vars, poolVars, jobVars, Unpicked, Chain, Service!vars
  <2> QED  BY <1>2, <2>1, <2>2
<1>3. Spec => []ServiceInv
  BY ServiceInvAlways
<1> QED  BY <1>1, <1>2, <1>3, PTL DEF Spec, IsService, Service!Spec
=============================================================================
