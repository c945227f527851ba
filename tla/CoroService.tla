---------------------------- MODULE CoroService ----------------------------
(* What homework01/libcoro.h promises: control is with main or with one       *)
(* coroutine that exists and has not finished, whichever; a coroutine that    *)
(* finishes is handed out once.  The list and its order are not part of it.   *)
CONSTANTS Coros, SCHED

VARIABLES life, running

serviceVars == <<life, running>>

Init == /\ life = [c \in Coros |-> "free"]
        /\ running = SCHED

Move(c, from, to) == /\ life[c] = from
                     /\ life' = [life EXCEPT ![c] = to]

Create(c) == Move(c, "free", "ready") /\ UNCHANGED running

\* To main, or to any coroutine that can go on; not past one that was not
\* handed out yet.
Switch(to) ==
    /\ to \in Coros => life[to] = "ready"
    /\ \A c \in Coros : life[c] # "finished"
    /\ running' = to
    /\ UNCHANGED life

End == /\ running \in Coros
       /\ Move(running, "ready", "finished")
       /\ running' = SCHED

HandOut(c) == Move(c, "finished", "returned") /\ running = SCHED /\ UNCHANGED running

Forget(c) == Move(c, "returned", "free") /\ UNCHANGED running

Next == \/ End
        \/ \E to \in Coros \cup {SCHED} : Switch(to)
        \/ \E c \in Coros : Create(c) \/ HandOut(c) \/ Forget(c)

Spec == Init /\ [][Next]_serviceVars
=============================================================================
