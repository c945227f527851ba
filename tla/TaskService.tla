----------------------------- MODULE TaskService -----------------------------
(***************************************************************************)
(* What homework04/thread_pool.h promises, with no thread, list, lock or   *)
(* condition variable: submitted jobs wait, run and are done, at most      *)
(* limit of them run at a time, only what is done is ever forgotten, and   *)
(* while something waits and there is room some job is started.            *)
(***************************************************************************)
EXTENDS Integers, FiniteSets

CONSTANTS Jobs, MaxWorkers, MaxJobs

VARIABLES limit,                    \* how many jobs may run; 0 when there is no service
          waiting, running, done    \* the jobs submitted and not forgotten

vars == <<limit, waiting, running, done>>

Known == waiting \cup running \cup done

Init == limit = 0 /\ waiting = {} /\ running = {} /\ done = {}

Open(n) ==
    /\ limit = 0
    /\ limit' = n
    /\ UNCHANGED <<waiting, running, done>>

Submit(j) ==
    /\ limit > 0
    /\ j \notin Known
    /\ Cardinality(Known) < MaxJobs
    /\ waiting' = waiting \cup {j}
    /\ UNCHANGED <<limit, running, done>>

Start(j) ==
    /\ j \in waiting
    /\ Cardinality(running) < limit
    /\ waiting' = waiting \ {j}
    /\ running' = running \cup {j}
    /\ UNCHANGED <<limit, done>>

\* A job ends; with it any jobs S that are done may be forgotten.
Finish(j, S) ==
    /\ j \in running
    /\ S \subseteq done \cup {j}
    /\ running' = running \ {j}
    /\ done' = (done \cup {j}) \ S
    /\ UNCHANGED <<limit, waiting>>

Forget(S) ==
    /\ S \subseteq done
    /\ done' = done \ S
    /\ UNCHANGED <<limit, waiting, running>>

Close ==
    /\ Known = {}
    /\ limit' = 0
    /\ UNCHANGED <<waiting, running, done>>

Next == \/ \E n \in 1 .. MaxWorkers : Open(n)
        \/ \E j \in Jobs : Submit(j) \/ Start(j) \/ \E S \in SUBSET Jobs : Finish(j, S)
        \/ \E S \in SUBSET Jobs : Forget(S)
        \/ Close

StartSome == \E j \in Jobs : Start(j)
End(j)    == \E S \in SUBSET Jobs : Finish(j, S)

Spec     == Init /\ [][Next]_vars
FairSpec == Spec /\ WF_vars(StartSome) /\ \A j \in Jobs : WF_vars(End(j))
=============================================================================
