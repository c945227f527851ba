-------------------------------- MODULE Coro --------------------------------
(***************************************************************************)
(* The coroutine library homework01/libcoro.c.  One thread runs; it is in  *)
(* the coroutine coro_this, or in main, whose context is coro_sched        *)
(* (SCHED).  What a coroutine or main does between two calls of the        *)
(* library is one step, and so is each call: control can change hands only *)
(* where the code jumps to another context.                                *)
(*                                                                         *)
(* A coroutine is the address of its struct coro; life says whether that   *)
(* is free, in the list and not finished, finished, or returned by         *)
(* coro_sched_wait and thus no longer in the list.  in_wait says that main *)
(* is inside coro_sched_wait.                                              *)
(***************************************************************************)
EXTENDS Naturals, FiniteSets

CONSTANTS
    Coros,      \* addresses malloc can return for a struct coro
    SCHED,      \* the address of coro_sched
    NULL

ASSUME CoroAssumption ==
    /\ IsFiniteSet(Coros)
    /\ NULL \notin Coros /\ SCHED \notin Coros /\ SCHED # NULL

VARIABLES
    coro_list, next, prev,      \* the list of coroutines
    life,                       \* coroutine -> "free", "ready", "finished" or "returned"
    switch_count,               \* coroutine or SCHED -> its field
    coro_this,                  \* coro_this_ptr
    is_sched_waiting,
    in_wait

coroVars == <<coro_list, next, prev, life, switch_count, coro_this, is_sched_waiting, in_wait>>

Contexts == Coros \cup {SCHED}
Listed   == {c \in Coros : life[c] \in {"ready", "finished"}}
Finished == {c \in Coros : life[c] = "finished"}

\* coro_sched_init.
Init ==
    /\ coro_list = NULL
    /\ next = [c \in Coros |-> NULL]
    /\ prev = [c \in Coros |-> NULL]
    /\ life = [c \in Coros |-> "free"]
    /\ switch_count = [c \in Contexts |-> 0]
    /\ coro_this = SCHED
    /\ is_sched_waiting = FALSE
    /\ in_wait = FALSE

\* coro_new: the switch to the new stack and back is over when it returns.
\* It may be called by main and by a coroutine.
New(c) ==
    /\ coro_this = SCHED => ~in_wait
    /\ life[c] = "free"
    /\ life' = [life EXCEPT ![c] = "ready"]
    /\ switch_count' = [switch_count EXCEPT ![c] = 0]
    /\ next' = [next EXCEPT ![c] = coro_list]
    /\ prev' = [d \in Coros |-> IF d = c THEN NULL ELSE IF d = coro_list THEN c ELSE prev[d]]
    /\ coro_list' = c
    /\ UNCHANGED <<coro_this, is_sched_waiting, in_wait>>

\* coro_yield_to.
SwitchTo(to) ==
    /\ switch_count' = [switch_count EXCEPT ![coro_this] = @ + 1]
    /\ coro_this' = to

\* The coroutine behind the one that yields, or the scheduler.
BadSuccessor == coro_list
Successor ==
    IF coro_this = SCHED \/ next[coro_this] = NULL THEN SCHED ELSE next[coro_this]

BadStillWaiting == FALSE
\* Only in the scheduler is the flag reset after a switch.
StillWaiting == is_sched_waiting /\ Successor # SCHED

\* coro_yield, and when it leads to the scheduler its way back into the loop of
\* coro_sched_wait.  Outside of that, main yields to itself.
Yield ==
    /\ coro_this = SCHED => ~in_wait
    /\ SwitchTo(Successor)
    /\ is_sched_waiting' = StillWaiting
    /\ UNCHANGED <<coro_list, next, prev, life, in_wait>>

\* The function of a coroutine has returned; coro_body jumps to the scheduler.
Finish ==
    /\ coro_this \in Coros
    /\ is_sched_waiting             \* else "no place to return" and exit
    /\ life' = [life EXCEPT ![coro_this] = "finished"]
    /\ coro_this' = SCHED
    /\ is_sched_waiting' = FALSE
    /\ UNCHANGED <<coro_list, next, prev, switch_count, in_wait>>

-----------------------------------------------------------------------------
(* coro_sched_wait: what one round of its loop comes to                    *)

\* Nobody has finished: the head of the list goes on.
WaitResume ==
    /\ coro_this = SCHED
    /\ coro_list # NULL
    /\ Finished = {}
    /\ is_sched_waiting' = TRUE
    /\ in_wait' = TRUE
    /\ SwitchTo(coro_list)
    /\ UNCHANGED <<coro_list, next, prev, life>>

BadUnlink(c) ==
    /\ next' = [d \in Coros |-> IF d = prev[c] THEN next[c] ELSE next[d]]
    /\ coro_list' = IF prev[c] = NULL THEN next[c] ELSE coro_list
    /\ UNCHANGED prev

\* coro_list_delete.
Unlink(c) ==
    /\ next' = [d \in Coros |-> IF d = prev[c] THEN next[c] ELSE next[d]]
    /\ prev' = [d \in Coros |-> IF d = next[c] THEN prev[c] ELSE prev[d]]
    /\ coro_list' = IF prev[c] = NULL THEN next[c] ELSE coro_list

\* The loop takes the first one that has finished; there is never a second.
WaitReturn(c) ==
    /\ coro_this = SCHED
    /\ c \in Finished
    /\ Unlink(c)
    /\ life' = [life EXCEPT ![c] = "returned"]
    /\ in_wait' = FALSE
    /\ UNCHANGED <<switch_count, coro_this, is_sched_waiting>>

WaitNone ==
    /\ coro_this = SCHED
    /\ coro_list = NULL
    /\ in_wait' = FALSE
    /\ UNCHANGED <<coro_list, next, prev, life, switch_count, coro_this, is_sched_waiting>>

\* coro_delete; cleared fields stand for memory that is gone.
Delete(c) ==
    /\ coro_this = SCHED => ~in_wait
    /\ life[c] = "returned"
    /\ life' = [life EXCEPT ![c] = "free"]
    /\ next' = [next EXCEPT ![c] = NULL]
    /\ prev' = [prev EXCEPT ![c] = NULL]
    /\ UNCHANGED <<coro_list, switch_count, coro_this, is_sched_waiting, in_wait>>

Next == \/ Yield \/ Finish
        \/ WaitResume \/ WaitNone
        \/ \E c \in Coros : New(c) \/ WaitReturn(c) \/ Delete(c)

Spec == Init /\ [][Next]_coroVars

-----------------------------------------------------------------------------
(* Properties                                                              *)

\* Every variable has its type.
TypeOK ==
    /\ coro_list \in Coros \cup {NULL}
    /\ next \in [Coros -> Coros \cup {NULL}]
    /\ prev \in [Coros -> Coros \cup {NULL}]
    /\ life \in [Coros -> {"free", "ready", "finished", "returned"}]
    /\ switch_count \in [Contexts -> Nat]
    /\ coro_this \in Contexts
    /\ is_sched_waiting \in BOOLEAN
    /\ in_wait \in BOOLEAN

\* The sequence s, of n coroutines, is the list: what next leads to from
\* coro_list, one after the other up to NULL, and prev back again.
IsList(n, s) ==
    /\ s \in [1 .. n -> Coros]
    /\ \A i, j \in 1 .. n : s[i] = s[j] => i = j
    /\ Listed = {s[i] : i \in 1 .. n}
    /\ coro_list = IF n = 0 THEN NULL ELSE s[1]
    /\ \A i \in 1 .. n : /\ next[s[i]] = IF i = n THEN NULL ELSE s[i + 1]
                         /\ prev[s[i]] = IF i = 1 THEN NULL ELSE s[i - 1]

\* From the head of the list exactly the coroutines that were created and not
\* returned yet are reached, each once, through every order of coro_new and
\* coro_sched_wait (coro_list_add 53-61, coro_list_delete 63-74).
ListExact == \E s \in [1 .. Cardinality(Listed) -> Coros] : IsList(Cardinality(Listed), s)

\* Control is only ever with a coroutine that exists and has not finished, and
\* then the scheduler waits, so that its end finds "place to return" (177-183).
\* At most one coroutine is finished and not returned: coro_sched_wait takes it
\* out before anyone goes on, although coro_yield does not look at is_finished.
OnlyLiveRuns ==
    /\ coro_this \in Coros => life[coro_this] = "ready" /\ is_sched_waiting /\ in_wait
    /\ \A c, d \in Finished : c = d
    /\ Finished # {} => coro_this = SCHED /\ in_wait

\* To its user the library is CoroService.
Service == INSTANCE CoroService WITH running <- coro_this

\* libcoro.h: a yield switches to a coroutine that is not finished, and a wait
\* returns one that is.
IsService == Service!Spec
=============================================================================
