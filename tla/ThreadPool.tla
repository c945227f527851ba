------------------------------ MODULE ThreadPool ------------------------------
(***************************************************************************)
(* The thread pool of homework04/thread_pool.c.                            *)
(*                                                                         *)
(* Every field of the pool and of its jobs is read and written under       *)
(* pool->mutex, so a critical section (from pthread_mutex_lock to the next *)
(* pthread_cond_wait or pthread_mutex_unlock) is one action.  The two      *)
(* things that happen outside the mutex are steps of their own: the        *)
(* unlocked get_tp_task with which a join begins, and the user's function. *)
(*                                                                         *)
(* A job is the address of a struct thread_pool_task: every push mallocs   *)
(* one, delete_task frees it, and malloc may hand the address out again.   *)
(* A task is the address of a struct thread_task.                          *)
(***************************************************************************)
EXTENDS Integers, FiniteSets

CONSTANTS
    Clients,            \* threads of the program that use the pool
    Tasks,              \* addresses malloc can return for a struct thread_task
    Jobs,               \* addresses malloc can return for a struct thread_pool_task
    NULL,
    TPOOL_MAX_THREADS,  \* thread_pool.h: 20 there
    TPOOL_MAX_TASKS,    \* thread_pool.h: 100000 there
    Env                 \* what the callers and the platform may do, see Options

(***************************************************************************)
(* What a run lets the surroundings of the pool do:                        *)
(*   timed         call thread_task_timed_join                             *)
(*   detach        call thread_task_detach                                 *)
(*   repush        push a task again before its last job was joined        *)
(*   shared_join   let two clients join one task at the same time          *)
(*   early_delete  delete or detach a task one of whose jobs a join was    *)
(*                 started for but has not finished                        *)
(*   spurious      pthread_cond_wait may return without a signal           *)
(*   create_fails  pthread_create may fail                                 *)
(*   huge          call thread_task_timed_join with infinity or DBL_MAX    *)
(***************************************************************************)
Options == {"timed", "detach", "repush", "shared_join", "early_delete",
            "spurious", "create_fails", "huge"}

ASSUME ThreadPoolAssumption ==
    /\ TPOOL_MAX_THREADS \in Nat \ {0}
    /\ TPOOL_MAX_TASKS \in Nat \ {0}
    /\ IsFiniteSet(Jobs)
    /\ NULL \notin Jobs \cup Tasks
    /\ Env \subseteq Options

Workers == 1 .. TPOOL_MAX_THREADS    \* worker i is the one of threads[i - 1]

VARIABLES
    pool,                \* "none", "open" (is_active) or "closing" (not is_active)
    max_threads_cnt,
    threads_cnt,
    active_threads_cnt,
    tasks_cnt,
    order,               \* the pool's list: <<a, b>> when b is a or comes after a
    thread_task,         \* job -> its task, NULL when the job is not allocated
    list,                \* task -> job at the head of the task's list, or NULL
    tasks,               \* the allocated tasks
    is_running, is_finished, is_joined, is_detached,   \* jobs with the flag set
    worker,              \* worker -> where its thread is
    wjob,                \* worker -> the job it runs, or NULL
    pc,                  \* client -> where its call is
    cjob,                \* client -> the job its join is about, or NULL
    uaf                  \* sites that have used memory already freed

poolVars == <<pool, max_threads_cnt, threads_cnt, active_threads_cnt>>
jobVars  == <<tasks_cnt, order, thread_task, list, tasks,
              is_running, is_finished, is_joined, is_detached>>
flags    == <<is_running, is_finished, is_joined, is_detached>>
vars     == <<poolVars, jobVars, worker, wjob, pc, cjob, uaf>>

WorkerPc == {"off",     \* no thread
             "lock",    \* about to take the mutex at 278, or to retake it in 282
             "wait",    \* in pthread_cond_wait on work_cond
             "run"}     \* in the user's function

ClientPc == {"idle",
             "join",                    \* thread_task_join has read the job, not yet locked
             "tjoin", "tzero", "thuge", \* so has thread_task_timed_join: timeout an ordinary
                                        \* one, <= 0, or too big for a long long
             "wait", "twait",           \* in the (timed) wait on end_cond
             "woken", "expired",        \* out of that wait, mutex not yet retaken
             "closing",                 \* in thread_pool_delete, on thread_finish_cond
             "closewake"}               \* out of that wait, mutex not yet retaken

-----------------------------------------------------------------------------
(* Definitions named Bad... are not the code: each is a slip that could have *)
(* been made in the definition that follows it, and that some property of    *)
(* this module rejects.                                                      *)

Live      == {j \in Jobs : thread_task[j] # NULL}
JobsOf(t) == {j \in Jobs : thread_task[j] = t}

\* The jobs reached from pool->task along next, and the ends of that chain.
Chain      == {j \in Jobs : <<j, j>> \in order}
IsFirst(j) == \A k \in Chain : <<j, k>> \in order
IsLast(j)  == \A k \in Chain : <<k, j>> \in order

\* get_task returns the first job of the chain no worker has picked; this is the
\* set of that job, {} when there is none.
Unpicked == Chain \ (is_running \cup is_finished)
BadNextUnfinished ==
    LET S == Chain \ is_finished IN {j \in S : \A k \in S : <<j, k>> \in order}
get_task == {j \in Unpicked : \A k \in Unpicked : <<j, k>> \in order}

\* The list once a new job j is put before pool->task.
Prepend(j) == order \cup ({j} \X (Chain \cup {j}))

\* The list once the jobs S are unlinked.
BadUnlinkNone(S) == order
Unlink(S) == order \cap ((Jobs \ S) \X (Jobs \ S))

\* The list once the worker has moved j: the branch for a job in the middle
\* links j to the old last job but not the old last job to j, so that j is no
\* longer reached from pool->task.
BadMoveNowhere(j)    == order
BadMoveLosesHead(j)  == IF IsLast(j) THEN order ELSE Unlink({j})
MoveToEnd(j) == CASE IsLast(j) -> order
                  [] ~IsLast(j) /\ IsFirst(j) -> Unlink({j}) \cup (Chain \X {j})
                  [] OTHER -> Unlink({j})

\* The test at the head of delete_task, det and fin being the detached and the
\* finished jobs.
BadDeletableAlways(t, det, fin)   == TRUE
BadDeletableHead(t, det, fin)     == list[t] \in is_joined \cup (det \cap fin)
BadDeletableJoined(t, det, fin)   == JobsOf(t) \subseteq is_joined
BadDeletableDetached(t, det, fin) == JobsOf(t) \subseteq det \cap fin
Deletable(t, det, fin) == \A j \in JobsOf(t) : j \in is_joined \cup (det \cap fin)

BadDeletedOne(S)     == IF S = {} THEN 0 ELSE 1
deleted_tasks_cnt(S) == Cardinality(S)

\* The effect of delete_task on a list of jobs S, when run and fin are the
\* running and the finished jobs: the jobs and their task are freed.
Drop(S, run, fin) ==
    /\ thread_task' = [j \in Jobs |-> IF j \in S THEN NULL ELSE thread_task[j]]
    /\ list'  = [t \in Tasks |-> IF list[t] \in S THEN NULL ELSE list[t]]
    /\ tasks' = {t \in tasks : list[t] \notin S}
    /\ order' = Unlink(S)
    /\ tasks_cnt'   = tasks_cnt - deleted_tasks_cnt(S)
    /\ is_running'  = run \ S
    /\ is_finished' = fin \ S
    /\ is_joined'   = is_joined \ S
    /\ is_detached' = is_detached \ S

\* pthread_cond_broadcast on work_cond.
BadWakeNone == worker
WakeWorkers == [w \in Workers |-> IF worker[w] = "wait" THEN "lock" ELSE worker[w]]

\* pthread_cond_signal on the end_cond of j: one of its waiters wakes, if any.
BadWaitersOfAnyJob(j) == {c \in Clients : pc[c] \in {"wait", "twait"}}
Waiters(j) == {c \in Clients : pc[c] \in {"wait", "twait"} /\ cjob[c] = j}
BadSignalNone(j) == pc' = pc
SignalEnd(j) == IF Waiters(j) = {} THEN pc' = pc
                ELSE \E c \in Waiters(j) : pc' = [pc EXCEPT ![c] = "woken"]

-----------------------------------------------------------------------------
(* What the callers promise.                                               *)

Idle(c) == pc[c] = "idle"

\* Some client is inside a call on t.
InCall(t) == \E c \in Clients : pc[c] # "idle" /\ cjob[c] # NULL /\ thread_task[cjob[c]] = t

\* The caller still holds t: it has not handed it over with detach.
Owned(t) == t \in tasks /\ list[t] \notin is_detached

Settled(S) == \A j \in S : j \in is_joined => j \in is_finished
Careful(S) == "early_delete" \in Env \/ Settled(S)

Reusable(t) == "repush" \in Env \/ JobsOf(t) \subseteq is_joined \cap is_finished

-----------------------------------------------------------------------------
Init ==
    /\ pool = "none"
    /\ max_threads_cnt = 0 /\ threads_cnt = 0 /\ active_threads_cnt = 0
    /\ tasks_cnt = 0
    /\ order = {}
    /\ thread_task = [j \in Jobs |-> NULL]
    /\ list = [t \in Tasks |-> NULL]
    /\ tasks = {}
    /\ is_running = {} /\ is_finished = {} /\ is_joined = {} /\ is_detached = {}
    /\ worker = [w \in Workers |-> "off"]
    /\ wjob = [w \in Workers |-> NULL]
    /\ pc = [c \in Clients |-> "idle"]
    /\ cjob = [c \in Clients |-> NULL]
    /\ uaf = {}

ValidCount(n) == 0 < n /\ n <= TPOOL_MAX_THREADS

\* thread_pool_new: TPOOL_ERR_INVALID_ARGUMENT, or an empty pool with no thread
NewPool(c, max_thread_count) ==
    /\ Idle(c)
    /\ pool = "none"
    /\ IF ValidCount(max_thread_count)
       THEN /\ pool' = "open"
            /\ max_threads_cnt' = max_thread_count
            /\ threads_cnt' = 0 /\ active_threads_cnt' = 0 /\ tasks_cnt' = 0
            /\ order' = {}
       ELSE UNCHANGED <<poolVars, tasks_cnt, order>>
    /\ UNCHANGED <<thread_task, list, tasks, flags, worker, wjob, pc, cjob, uaf>>

\* thread_task_new
NewTask(c, t) ==
    /\ Idle(c)
    /\ t \notin tasks
    /\ tasks' = tasks \cup {t}
    /\ UNCHANGED <<poolVars, tasks_cnt, order, thread_task, list, flags,
                   worker, wjob, pc, cjob, uaf>>

\* The pool is short of a thread (172).
BadNeedNotFirst == /\ threads_cnt > 0
                   /\ active_threads_cnt = threads_cnt /\ threads_cnt < max_threads_cnt
BadNeedNoLimit  == active_threads_cnt = threads_cnt
NeedThread      == active_threads_cnt = threads_cnt /\ threads_cnt < max_threads_cnt

\* The threads after a push; the result of pthread_create is not looked at.
Spawn ==
    IF NeedThread
    THEN /\ threads_cnt' = threads_cnt + 1
         /\ \/ worker' = [WakeWorkers EXCEPT ![threads_cnt + 1] = "lock"]
            \/ "create_fails" \in Env /\ worker' = WakeWorkers
    ELSE /\ UNCHANGED threads_cnt
         /\ worker' = WakeWorkers

\* thread_pool_push_task and make_thread_pool_task
Push(c, t) ==
    /\ Idle(c)
    /\ pool = "open"
    /\ Owned(t) /\ ~InCall(t) /\ Reusable(t)
    /\ tasks_cnt # TPOOL_MAX_TASKS
    /\ Spawn
    /\ \E j \in Jobs \ Live :
          /\ thread_task' = [thread_task EXCEPT ![j] = t]
          /\ list' = [list EXCEPT ![t] = j]
          /\ order' = Prepend(j)
    /\ tasks_cnt' = tasks_cnt + 1
    /\ UNCHANGED <<pool, max_threads_cnt, active_threads_cnt, tasks, flags,
                   wjob, pc, cjob, uaf>>

\* thread_pool_push_task when the pool is full: TPOOL_ERR_TOO_MANY_TASKS
PushRejected(c, t) ==
    /\ Idle(c)
    /\ pool = "open"
    /\ Owned(t)
    /\ tasks_cnt = TPOOL_MAX_TASKS
    /\ UNCHANGED vars

\* thread_task_join and thread_task_timed_join up to the mutex: get_tp_task is
\* read without it.  how is the client's next pc.
JoinEnter(c, t, how) ==
    /\ Idle(c)
    /\ how \in {"tjoin", "tzero"} => "timed" \in Env
    /\ how = "thuge" => "huge" \in Env
    /\ Owned(t)
    /\ InCall(t) => "shared_join" \in Env
    /\ IF list[t] = NULL                       \* TPOOL_ERR_TASK_NOT_PUSHED
       THEN UNCHANGED <<pc, cjob>>
       ELSE /\ cjob' = [cjob EXCEPT ![c] = list[t]]
            /\ pc' = [pc EXCEPT ![c] = how]
    /\ UNCHANGED <<poolVars, jobVars, worker, wjob, uaf>>

Return(c) == /\ pc' = [pc EXCEPT ![c] = "idle"]
             /\ cjob' = [cjob EXCEPT ![c] = NULL]

\* Where a join of an unfinished job goes.  Converting a huge timeout to the
\* long long of a timespec (358-359) is undefined: the wait may be as long as
\* asked for, time out at once, or fail with EINVAL, which 362 takes for success.
WaitPc(how) == CASE how = "join"  -> {"wait"}
                 [] how = "tjoin" -> {"twait"}
                 [] how = "thuge" -> {"wait", "expired", "woken"}

\* The critical section of a join up to its wait or its return.
JoinLock(c) ==
    /\ pc[c] \in {"join", "tjoin", "thuge"}
    /\ is_joined' = is_joined \cup {cjob[c]}
    /\ IF cjob[c] \in is_finished
       THEN Return(c)
       ELSE /\ \E next \in WaitPc(pc[c]) : pc' = [pc EXCEPT ![c] = next]
            /\ UNCHANGED cjob
    /\ UNCHANGED <<poolVars, tasks_cnt, order, thread_task, list, tasks, is_running,
                   is_finished, is_detached, worker, wjob, uaf>>

\* thread_task_timed_join with timeout <= 0: TPOOL_ERR_TIMEOUT at once
JoinNoTime(c) ==
    /\ pc[c] = "tzero"
    /\ Return(c)
    /\ UNCHANGED <<poolVars, jobVars, worker, wjob, uaf>>

\* The wait of a join returned without a timeout: the result is handed out
\* with no second look at is_finished.
JoinWake(c) ==
    /\ pc[c] = "woken"
    /\ Return(c)
    /\ UNCHANGED <<poolVars, jobVars, worker, wjob, uaf>>

\* The time of a timed join is up; the mutex is still to be retaken.
Expire(c) ==
    /\ pc[c] = "twait"
    /\ pc' = [pc EXCEPT ![c] = "expired"]
    /\ UNCHANGED <<poolVars, jobVars, worker, wjob, cjob, uaf>>

\* TPOOL_ERR_TIMEOUT: is_joined stays set.
ExpiredReturn(c) ==
    /\ pc[c] = "expired"
    /\ Return(c)
    /\ UNCHANGED <<poolVars, jobVars, worker, wjob, uaf>>

\* thread_task_delete of a task never pushed
DeleteUnpushed(c, t) ==
    /\ Idle(c)
    /\ Owned(t) /\ list[t] = NULL
    /\ tasks' = tasks \ {t}
    /\ UNCHANGED <<poolVars, tasks_cnt, order, thread_task, list, flags,
                   worker, wjob, pc, cjob, uaf>>

\* thread_task_delete of a pushed task; when it is not Deletable nothing is
\* freed and the call returns TPOOL_ERR_TASK_IN_POOL.
DeleteTask(c, t) ==
    /\ Idle(c)
    /\ Owned(t) /\ list[t] # NULL /\ ~InCall(t)
    /\ Careful(JobsOf(t))
    /\ IF Deletable(t, is_detached, is_finished)
       THEN Drop(JobsOf(t), is_running, is_finished)
       ELSE UNCHANGED jobVars
    /\ UNCHANGED <<poolVars, worker, wjob, pc, cjob, uaf>>

\* thread_task_detach: a finished job goes to delete_task at once, and what that
\* returns is not looked at.
Detach(c, t) ==
    LET det == is_detached \cup {list[t]}
    IN  /\ "detach" \in Env
        /\ Idle(c)
        /\ Owned(t) /\ list[t] # NULL /\ ~InCall(t)
        /\ Careful(JobsOf(t) \ {list[t]})
        /\ IF list[t] \in is_finished /\ Deletable(t, det, is_finished)
           THEN Drop(JobsOf(t), is_running, is_finished)
           ELSE /\ is_detached' = det
                /\ UNCHANGED <<tasks_cnt, order, thread_task, list, tasks,
                               is_running, is_finished, is_joined>>
        /\ UNCHANGED <<poolVars, worker, wjob, pc, cjob, uaf>>

FreePool == /\ pool' = "none"
            /\ max_threads_cnt' = 0
            /\ UNCHANGED <<threads_cnt, active_threads_cnt>>

\* thread_pool_delete up to its wait, or to its end when there is no thread
DeletePool(c) ==
    /\ Idle(c)
    /\ pool = "open"
    /\ IF tasks_cnt > 0                         \* TPOOL_ERR_HAS_TASKS
       THEN UNCHANGED <<poolVars, worker, pc>>
       ELSE /\ worker' = WakeWorkers
            /\ IF threads_cnt = 0
               THEN FreePool /\ UNCHANGED pc
               ELSE /\ pool' = "closing"
                    /\ pc' = [pc EXCEPT ![c] = "closing"]
                    /\ UNCHANGED <<max_threads_cnt, threads_cnt, active_threads_cnt>>
    /\ UNCHANGED <<jobVars, wjob, cjob, uaf>>

\* The wait of thread_pool_delete returned: it is in a loop, look at threads_cnt again.
BadCloseNoLoop(c) ==
    /\ pc[c] = "closewake"
    /\ FreePool /\ pc' = [pc EXCEPT ![c] = "idle"]
    /\ UNCHANGED <<jobVars, worker, wjob, cjob, uaf>>

CloseWake(c) ==
    /\ pc[c] = "closewake"
    /\ IF threads_cnt = 0
       THEN FreePool /\ pc' = [pc EXCEPT ![c] = "idle"]
       ELSE UNCHANGED poolVars /\ pc' = [pc EXCEPT ![c] = "closing"]
    /\ UNCHANGED <<jobVars, worker, wjob, cjob, uaf>>

-----------------------------------------------------------------------------
(* thread_pool_worker                                                      *)

Pick(w) ==
    /\ worker[w] = "lock"
    /\ pool = "open"
    /\ \E j \in get_task :
          /\ is_running' = is_running \cup {j}
          /\ order' = MoveToEnd(j)
          /\ wjob' = [wjob EXCEPT ![w] = j]
    /\ active_threads_cnt' = active_threads_cnt + 1
    /\ worker' = [worker EXCEPT ![w] = "run"]
    /\ UNCHANGED <<pool, max_threads_cnt, threads_cnt, tasks_cnt, thread_task, list, tasks,
                   is_finished, is_joined, is_detached, pc, cjob, uaf>>

\* get_task has gone through the whole chain and returns NULL.
Sleep(w) ==
    /\ worker[w] = "lock"
    /\ pool = "open" /\ Unpicked = {}
    /\ worker' = [worker EXCEPT ![w] = "wait"]
    /\ UNCHANGED <<poolVars, jobVars, wjob, pc, cjob, uaf>>

BadExitNoSignal(w) ==
    /\ worker[w] = "lock"
    /\ pool = "closing"
    /\ worker' = [worker EXCEPT ![w] = "off"]
    /\ threads_cnt' = threads_cnt - 1
    /\ UNCHANGED <<pool, max_threads_cnt, active_threads_cnt, jobVars, wjob, pc, cjob, uaf>>

\* The pool is closing: active_threads_cnt goes up and down again.
Exit(w) ==
    /\ worker[w] = "lock"
    /\ pool = "closing"
    /\ worker' = [worker EXCEPT ![w] = "off"]
    /\ threads_cnt' = threads_cnt - 1
    /\ pc' = [c \in Clients |-> IF pc[c] = "closing" THEN "closewake" ELSE pc[c]]
    /\ UNCHANGED <<pool, max_threads_cnt, active_threads_cnt, jobVars, wjob, cjob, uaf>>

\* The part of the worker after the function that every case shares.
BadFinishedStaysActive(w) ==
    /\ worker[w] = "run"
    /\ worker' = [worker EXCEPT ![w] = "lock"]
    /\ wjob' = [wjob EXCEPT ![w] = NULL]
    /\ UNCHANGED <<pool, max_threads_cnt, threads_cnt, active_threads_cnt, cjob>>

Finished(w) ==
    /\ worker[w] = "run"
    /\ worker' = [worker EXCEPT ![w] = "lock"]
    /\ wjob' = [wjob EXCEPT ![w] = NULL]
    /\ active_threads_cnt' = active_threads_cnt - 1
    /\ UNCHANGED <<pool, max_threads_cnt, threads_cnt, cjob>>

\* The function has returned; the job stays in memory.
Complete(w) ==
    LET j   == wjob[w]
        fin == is_finished \cup {j}
    IN  /\ Finished(w)
        /\ j \in Live
        /\ ~(j \in is_detached /\ Deletable(thread_task[j], is_detached, fin))
        /\ is_finished' = fin
        /\ is_running' = is_running \ {j}
        /\ SignalEnd(j)
        /\ UNCHANGED <<tasks_cnt, order, thread_task, list, tasks, is_joined,
                       is_detached, uaf>>

\* The function has returned and delete_task frees the detached task, the job
\* with it; end_cond is signalled after that, in memory already freed.
CompleteDetached(w) ==
    LET j   == wjob[w]
        fin == is_finished \cup {j}
    IN  /\ Finished(w)
        /\ j \in Live
        /\ j \in is_detached /\ Deletable(thread_task[j], is_detached, fin)
        /\ Drop(JobsOf(thread_task[j]), is_running \ {j}, fin)
        /\ uaf' = uaf \cup {"signal"}
        /\ UNCHANGED pc

\* The job was freed while its function ran: the worker writes freed memory.
CompleteFreed(w) ==
    /\ Finished(w)
    /\ wjob[w] \notin Live
    /\ uaf' = uaf \cup {"finish"}
    /\ UNCHANGED <<jobVars, pc>>

-----------------------------------------------------------------------------
(* Waits that return without a signal.                                     *)

SpuriousWorker(w) ==
    /\ "spurious" \in Env
    /\ worker[w] = "wait"
    /\ worker' = [worker EXCEPT ![w] = "lock"]
    /\ UNCHANGED <<poolVars, jobVars, wjob, pc, cjob, uaf>>

SpuriousClient(c) ==
    /\ "spurious" \in Env
    /\ pc[c] \in {"wait", "twait", "closing"}
    /\ pc' = [pc EXCEPT ![c] = IF @ = "closing" THEN "closewake" ELSE "woken"]
    /\ UNCHANGED <<poolVars, jobVars, worker, wjob, cjob, uaf>>

-----------------------------------------------------------------------------
Call(c) ==
    \/ \E n \in 0 .. TPOOL_MAX_THREADS + 1 : NewPool(c, n)
    \/ \E t \in Tasks :
          \/ NewTask(c, t)
          \/ Push(c, t)
          \/ PushRejected(c, t)
          \/ \E how \in {"join", "tjoin", "tzero", "thuge"} : JoinEnter(c, t, how)
          \/ DeleteUnpushed(c, t)
          \/ DeleteTask(c, t)
          \/ Detach(c, t)
    \/ DeletePool(c)

Continue(c) == \/ JoinLock(c)
               \/ JoinNoTime(c)
               \/ JoinWake(c)
               \/ ExpiredReturn(c)
               \/ CloseWake(c)

Work(w) == \/ Pick(w)
           \/ Sleep(w)
           \/ Exit(w)
           \/ Complete(w)
           \/ CompleteDetached(w)
           \/ CompleteFreed(w)

Next == \/ \E c \in Clients : Call(c) \/ Continue(c) \/ Expire(c) \/ SpuriousClient(c)
        \/ \E w \in Workers : Work(w) \/ SpuriousWorker(w)

Spec == Init /\ [][Next]_vars

\* The mutex is granted to whoever keeps asking for it, functions return and
\* time passes; nobody has to call anything.
Fairness == /\ \A w \in Workers : WF_vars(Work(w))
            /\ \A c \in Clients : WF_vars(Continue(c)) /\ WF_vars(Expire(c))

FairSpec == Spec /\ Fairness

-----------------------------------------------------------------------------
(* Properties                                                              *)

\* Every variable holds a value of its C type's role.
Typed ==
    /\ pool \in {"none", "open", "closing"}
    /\ max_threads_cnt \in 0 .. TPOOL_MAX_THREADS
    /\ threads_cnt \in Int
    /\ active_threads_cnt \in Int
    /\ tasks_cnt \in Int
    /\ order \subseteq Jobs \X Jobs
    /\ thread_task \in [Jobs -> Tasks \cup {NULL}]
    /\ list \in [Tasks -> Jobs \cup {NULL}]
    /\ tasks \subseteq Tasks
    /\ is_running \subseteq Jobs
    /\ is_finished \subseteq Jobs
    /\ is_joined \subseteq Jobs
    /\ is_detached \subseteq Jobs
    /\ worker \in [Workers -> WorkerPc]
    /\ wjob \in [Workers -> Jobs \cup {NULL}]
    /\ pc \in [Clients -> ClientPc]
    /\ cjob \in [Clients -> Jobs \cup {NULL}]
    /\ uaf \subseteq {"signal", "finish"}

\* A flag is only ever set in a job that is allocated: get_task finds no freed
\* job in the list, no join and no worker marks one, and a job starts with none
\* set (81-85, 256, 288, 315-316, 354, 492).
FlagInv == is_running \cup is_finished \cup is_joined \cup is_detached \subseteq Live

\* Every variable holds a value of its C type's role, and the flags belong to
\* allocated jobs only.
TypeOK == Typed /\ FlagInv

\* Lost wake-up: no worker sleeps on work_cond while a job is there for
\* get_task to return.  push broadcasts, and a worker looks at the list again
\* before it sleeps (thread_pool_push_task, thread_pool_worker).
NoLostWakeup == Unpicked # {} => \A w \in Workers : worker[w] # "wait"

\* A job is never left without a thread that could take it: a push creates the
\* first thread whatever the counters are (the condition at 172).
SomeWorker == Live # {} => \E w \in Workers : worker[w] # "off"

\* The list reaches every allocated job, exactly the allocated ones, in a
\* linear order, across pushes at the head, moves to the end and deletions in
\* any place (push 185-193, worker 290-310, delete_task 404-431).
ListHoldsAll ==
    /\ Chain = Live
    /\ \A a, b \in Live : <<a, b>> \in order \/ <<b, a>> \in order
    /\ \A a, b \in Live : <<a, b>> \in order /\ <<b, a>> \in order => a = b
    /\ \A a, b, c \in Live : <<a, b>> \in order /\ <<b, c>> \in order => <<a, c>> \in order

\* Jobs no worker has taken come before the taken ones, so that get_task
\* always returns the head and the branch of the worker that would lose the
\* end of the list (299-309) is never entered.
UnpickedFirst == \A a \in Unpicked, b \in Chain \ Unpicked : <<b, a>> \notin order

\* tasks_cnt is the number of allocated jobs, which never exceeds the limit:
\* each of push, delete, detach and the worker's own delete_task keeps it.
TasksCntExact == tasks_cnt = Cardinality(Live) /\ tasks_cnt <= TPOOL_MAX_TASKS

\* threads_cnt is the number of threads there are, within the pool's maximum
\* (push 172-176, worker 326).
ThreadsCntExact == /\ threads_cnt = Cardinality({w \in Workers : worker[w] # "off"})
                   /\ threads_cnt <= max_threads_cnt

\* active_threads_cnt is the number of threads inside a function, whichever
\* way each of them left its last job (285, 317, 327).
ActiveCntExact == active_threads_cnt = Cardinality({w \in Workers : worker[w] = "run"})

\* A job runs on one worker at a time, it is marked running exactly while it
\* does, and it is not marked finished before it is done.
OneRunner == /\ \A v, w \in Workers : wjob[v] = wjob[w] /\ wjob[v] # NULL => v = w
             /\ is_running = {wjob[w] : w \in Workers} \ {NULL}
             /\ is_running \cap is_finished = {}

\* No step writes a job that was freed before (the worker, 315 to 322).
NoUseAfterFree == uaf = {}

\* The only late use of a freed job is the signal after delete_task (322).
OnlyLateSignal == uaf \subseteq {"signal"}

\* When thread_pool_delete has freed the pool no thread is left to touch its
\* mutex, its list or its counters, and no job is left that points to it.
PoolFreedQuiescent ==
    pool = "none" => /\ \A w \in Workers : worker[w] = "off"
                     /\ Live = {}

\* thread_pool.h:119-120: once its last job is joined a task can be deleted.
JoinedIsDeletable ==
    \A t \in tasks : list[t] \in is_joined \cap is_finished => Deletable(t, is_detached, is_finished)

\* thread_pool.h:118: a join that returns 0 has waited until the job was
\* finished.  A join returns 0 from its lock and from a wait that was not timed out.
JoinReturns(c) == pc[c] \in {"join", "tjoin", "thuge", "woken"} /\ pc'[c] = "idle"
JoinReturnsFinished ==
    [][\A c \in Clients : JoinReturns(c) => cjob[c] \in is_finished]_vars

\* A pushed job is freed only after it was run: never out of the queue, and
\* never under the worker that runs it (delete_task 391-399).
FreedAfterRun ==
    [][\A j \in Live : thread_task'[j] = NULL =>
          /\ j \in is_running \cup is_finished
          /\ \A w \in Workers : wjob'[w] # j]_vars

\* From some point on nothing is pushed.
PushStep == \E c \in Clients, t \in Tasks : Push(c, t)
NoMorePushes == <>[][~PushStep]_vars

\* Once the pushes stop every pushed job is picked by some worker and run to
\* its end.  (While they go on, an older job may wait for ever: the newest is
\* taken first.)
EveryJobRuns ==
    NoMorePushes => \A j \in Jobs : j \in Unpicked ~> j \notin Unpicked \cup is_running

\* Once the pushes stop every join returns: the signal of the worker finds the
\* joiner waiting, or the joiner finds the job finished.
JoinTerminates ==
    NoMorePushes => \A c \in Clients : cjob[c] # NULL ~> cjob[c] = NULL

\* thread_pool.h:165: a detached task is freed when its job is finished.
DetachedIsFreed ==
    NoMorePushes => \A t \in Tasks : list[t] \in is_detached ~> t \notin tasks

\* thread_pool_delete returns: it misses none of the threads' signals, and
\* every sleeping thread is woken to leave.
PoolDeleteReturns == pool = "closing" ~> pool = "none"

-----------------------------------------------------------------------------
(* The pool implements TaskService.                                        *)

Service == INSTANCE TaskService
           WITH MaxWorkers <- TPOOL_MAX_THREADS, MaxJobs <- TPOOL_MAX_TASKS,
                limit <- max_threads_cnt, waiting <- Unpicked,
                running <- is_running, done <- is_finished

\* Seen from outside the pool is a service: jobs wait, run on at most
\* max_threads_cnt threads, are done, and only then forgotten.
IsService == Service!Spec

\* ... and it never stalls: while a job waits and fewer than max_threads_cnt
\* run, some job is started sooner or later, and a running job ends.
IsFairService == Service!FairSpec
=============================================================================
