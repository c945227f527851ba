------------------------------ MODULE HeapHelp ------------------------------
(***************************************************************************)
(* The heap tracker utils/heap_help/heap_help.c: the wrappers of malloc,   *)
(* realloc and free that threads call, the list of their allocations, and  *)
(* the report at exit.  The allocator behind them (default_malloc, ...) is *)
(* external: heap says which addresses it has given away, with which size. *)
(*                                                                         *)
(* What happens under allocs_lock is one step, and so is each call of the  *)
(* allocator together with the look at is_exit_done next to it.  A record  *)
(* is a struct allocation.  Threads own the blocks in held together: any   *)
(* of them may free any block.                                             *)
(*                                                                         *)
(* Assertions can end the process: that of alloc_free, of which bad_memory *)
(* keeps the pointer, and those of strdup and getline about their calls,   *)
(* which bad_string names.                                                 *)
(***************************************************************************)
EXTENDS Integers, SequencesExt

CONSTANTS
    Threads, Main,
    Addrs,          \* addresses the allocator can return
    Static,         \* addresses in static_buf
    Sizes,
    NULL,
    MaxRecords,     \* bound: records taken from batches
    Env             \* what the allocator may do: "in_place", "no_memory"

ASSUME HeapHelpAssumption ==
    /\ IsFiniteSet(Threads) /\ Main \in Threads
    /\ Addrs \cap Static = {}
    /\ NULL \notin Addrs \cup Static \cup Sizes
    /\ MaxRecords \in Nat
    /\ Env \subseteq {"in_place", "no_memory"}

Records == 1 .. MaxRecords

VARIABLES
    heap,                   \* address -> size of the block there, NULL when there is none
    held,                   \* the blocks that calls have returned
    allocs, alloc_pool,     \* the lists of records, from their heads on
    batched,                \* records taken from batches so far
    mem, size, internal,    \* record -> its fields; internal: what its trace shows
    alloc_count,
    init,                   \* "none", "symbols" while heaph_init runs, or "done"
    static_used,            \* the blocks taken from static_buf
    is_exit_done,
    report,                 \* the leaks reported at exit, NULL before
    pc, call,               \* thread -> where it is in its call, and the call
    at_exit,                \* ghost: the blocks held, and those in calls, at exit
    missed,                 \* ghost: address -> records dropped although the block stayed
    bad_memory,             \* the pointer alloc_free aborted the process for, NULL before
    bad_string              \* why strdup or getline did: "late", "static"; "none" before

listVars == <<allocs, alloc_pool, batched, alloc_count>>
recVars  == <<mem, size, internal>>
initVars == <<init, static_used>>
exitVars == <<is_exit_done, report, at_exit>>
endVars  == <<missed, bad_memory, bad_string>>
vars     == <<heap, held, listVars, recVars, initVars, exitVars, pc, call, endVars>>

Live == {p \in Addrs : heap[p] # NULL}

\* No assertion has failed.
Up == bad_memory = NULL /\ bad_string = "none"

\* The variables of a call: the pointer given, the one to be returned, the size
\* asked for, whether a library asked for it, and the record in hand.
NoCall == [ptr |-> NULL, res |-> NULL, size |-> NULL, internal |-> FALSE, a |-> NULL]
Calls  == [ptr : Addrs \cup {NULL}, res : Addrs \cup {NULL}, size : Sizes \cup {NULL},
           internal : BOOLEAN, a : Records \cup {NULL}]
Pcs    == {"idle",
           "untrack",   \* free, at the lock of alloc_free (213)
           "free",      \* free, at default_free (575)
           "retrack",   \* realloc that moved a block, at that lock (558)
           "moved",     \* the same, at alloc_trace_new (559)
           "lost",      \* realloc to the size 0, at that lock (556)
           "kept",      \* realloc that failed, at that lock (556)
           "take",      \* alloc_trace_new, at its first lock (168)
           "link"}      \* alloc_trace_new, at its second lock (195)

Init ==
    /\ heap = [p \in Addrs |-> NULL]
    /\ held = {}
    /\ allocs = << >> /\ alloc_pool = << >>
    /\ batched = 0
    /\ mem = [r \in Records |-> NULL]
    /\ size = [r \in Records |-> NULL]
    /\ internal = [r \in Records |-> FALSE]
    /\ alloc_count = 0
    /\ init = "none"
    /\ static_used = {}
    /\ is_exit_done = FALSE /\ report = NULL /\ at_exit = NULL
    /\ pc = [t \in Threads |-> "idle"]
    /\ call = [t \in Threads |-> NoCall]
    /\ missed = [p \in Addrs |-> 0]
    /\ bad_memory = NULL /\ bad_string = "none"

-----------------------------------------------------------------------------
(* heaph_touch and heaph_init, inside the first call of any wrapper.  Main *)
(* makes that call: before there is another thread pthread_create itself   *)
(* allocates.                                                              *)

InitBegin ==
    /\ init = "none"
    /\ init' = "symbols"
    /\ UNCHANGED <<heap, held, listVars, recVars, static_used, exitVars, pc, call, endVars>>

\* dlsym allocates while default_malloc is static_malloc; nothing is recorded.
StaticMalloc(p) ==
    /\ init = "symbols"
    /\ p \notin static_used
    /\ static_used' = static_used \cup {p}
    /\ held' = held \cup {p}
    /\ UNCHANGED <<heap, listVars, recVars, init, exitVars, pc, call, endVars>>

InitEnd ==
    /\ init = "symbols"
    /\ init' = "done"
    /\ UNCHANGED <<heap, held, listVars, recVars, static_used, exitVars, pc, call, endVars>>

-----------------------------------------------------------------------------
(* alloc_trace_new and alloc_free                                          *)

Goto(t, where, c) == /\ pc' = [pc EXCEPT ![t] = where]
                     /\ call' = [call EXCEPT ![t] = c]
Return(t, p) == /\ Goto(t, "idle", NoCall)
                /\ held' = held \cup ({p} \ {NULL})

BadSkipped == FALSE
\* Once the process exits nothing is recorded any more.
Skipped == is_exit_done

BadPoolRest == alloc_pool
PoolRest == Tail(alloc_pool)

\* A record from the pool, else from a batch.
TakeRecord(t) ==
    /\ pc[t] = "take"
    /\ \/ /\ alloc_pool # << >>
          /\ Goto(t, "link", [call[t] EXCEPT !.a = Head(alloc_pool)])
          /\ alloc_pool' = PoolRest
          /\ UNCHANGED batched
       \/ /\ alloc_pool = << >>
          /\ batched < MaxRecords
          /\ Goto(t, "link", [call[t] EXCEPT !.a = batched + 1])
          /\ batched' = batched + 1
          /\ UNCHANGED alloc_pool
    /\ UNCHANGED <<heap, held, allocs, alloc_count, recVars, initVars, exitVars, endVars>>

\* The record is filled while nobody else has it, and put at the head.
LinkRecord(t) ==
    LET a == call[t].a
    IN /\ pc[t] = "link"
       /\ mem' = [mem EXCEPT ![a] = call[t].res]
       /\ size' = [size EXCEPT ![a] = call[t].size]
       /\ internal' = [internal EXCEPT ![a] = call[t].internal]
       /\ allocs' = << a >> \o allocs
       /\ alloc_count' = alloc_count + 1
       /\ Return(t, call[t].res)
       /\ UNCHANGED <<heap, alloc_pool, batched, initVars, exitVars, endVars>>

\* The first record of the address goes back to the pool.
RecordsOf(p) == {i \in DOMAIN allocs : mem[allocs[i]] = p}
Drop(p) ==
    /\ RecordsOf(p) # {}
    /\ LET i == CHOOSE i \in RecordsOf(p) : \A j \in RecordsOf(p) : i <= j
       IN /\ allocs' = RemoveAt(allocs, i)
          /\ alloc_pool' = << allocs[i] >> \o alloc_pool
    /\ alloc_count' = alloc_count - 1
    /\ UNCHANGED batched

\* assert(!"freeing bad memory").
Abort(p) ==
    /\ RecordsOf(p) = {}
    /\ bad_memory' = p
    /\ UNCHANGED <<heap, held, listVars, recVars, initVars, exitVars, pc, call, missed,
                   bad_string>>

-----------------------------------------------------------------------------
(* The wrappers                                                            *)

\* malloc, calloc, getaddrinfo, and strdup once it is past its assertions: the
\* allocator gives a block, which is recorded unless the process exits.
Allocate(t, s, lib) ==
    \E p \in Addrs \ Live :
        LET c == [NoCall EXCEPT !.res = p, !.size = s, !.internal = lib]
        IN /\ heap' = [heap EXCEPT ![p] = s]
           /\ IF Skipped THEN Return(t, p)
              ELSE Goto(t, "take", c) /\ UNCHANGED held
           /\ UNCHANGED <<listVars, recVars, initVars, exitVars, endVars>>

\* strdup asserts that the process does not exit yet (511).
StrdupLate ==
    /\ is_exit_done
    /\ bad_string' = "late"
    /\ UNCHANGED <<heap, held, listVars, recVars, initVars, exitVars, pc, call, missed, bad_memory>>

BadAllocIsStatic(p) == FALSE
alloc_is_static(p) == p \in Static

\* strdup asserts that its string is not in static_buf (512), getline that its
\* line is not (489).
StringStatic(p) ==
    /\ alloc_is_static(p)
    /\ bad_string' = "static"
    /\ UNCHANGED <<heap, held, listVars, recVars, initVars, exitVars, pc, call, missed, bad_memory>>

\* free and freeaddrinfo, which is given blocks of getaddrinfo, never static ones.
Free(t, p) ==
    /\ held' = held \ {p}
    /\ IF alloc_is_static(p) THEN UNCHANGED <<pc, call>>
       ELSE Goto(t, IF Skipped THEN "free" ELSE "untrack", [NoCall EXCEPT !.ptr = p])
    /\ UNCHANGED <<heap, listVars, recVars, initVars, exitVars, endVars>>

Untrack(t) ==
    /\ pc[t] = "untrack"
    /\ \/ /\ Drop(call[t].ptr)
          /\ Goto(t, "free", call[t])
          /\ UNCHANGED <<heap, held, recVars, initVars, exitVars, endVars>>
       \/ Abort(call[t].ptr)

Release(t) ==
    /\ pc[t] = "free"
    /\ heap' = [heap EXCEPT ![call[t].ptr] = NULL]
    /\ Return(t, NULL)
    /\ UNCHANGED <<listVars, recVars, initVars, exitVars, endVars>>

\* realloc of a static block: it is given up, its bytes are lost.
ReallocStatic(t, p, s) ==
    /\ alloc_is_static(p)
    /\ \E q \in Addrs \ Live :
          /\ heap' = [heap EXCEPT ![q] = s]
          /\ IF Skipped THEN /\ Goto(t, "idle", NoCall)
                                  /\ held' = (held \ {p}) \cup {q}
             ELSE /\ Goto(t, "take", [NoCall EXCEPT !.res = q, !.size = s])
                  /\ held' = held \ {p}
    /\ UNCHANGED <<listVars, recVars, initVars, exitVars, endVars>>

\* realloc, and getline of a line that is there: the block has a new size where
\* it is, has moved, is freed for the size 0, or stays because there is no memory.
ReallocInPlace(p, s) ==
    /\ "in_place" \in Env
    /\ heap' = [heap EXCEPT ![p] = s]
    /\ UNCHANGED <<held, listVars, recVars, initVars, exitVars, pc, call, endVars>>

BadMoveCall(p, q, s) == [NoCall EXCEPT !.ptr = p, !.res = p, !.size = s]
MoveCall(p, q, s) == [NoCall EXCEPT !.ptr = p, !.res = q, !.size = s]

ReallocMove(t, p, s) ==
    \E q \in Addrs \ Live :
        /\ heap' = [heap EXCEPT ![p] = NULL, ![q] = s]
        /\ IF Skipped THEN /\ Goto(t, "idle", NoCall)
                                /\ held' = (held \ {p}) \cup {q}
           ELSE Goto(t, "retrack", MoveCall(p, q, s)) /\ held' = held \ {p}
        /\ UNCHANGED <<listVars, recVars, initVars, exitVars, endVars>>

ReallocFree(t, p) ==
    /\ heap' = [heap EXCEPT ![p] = NULL]
    /\ held' = held \ {p}
    /\ IF Skipped THEN UNCHANGED <<pc, call>>
       ELSE Goto(t, "lost", [NoCall EXCEPT !.ptr = p])
    /\ UNCHANGED <<listVars, recVars, initVars, exitVars, endVars>>

ReallocFail(t, p) ==
    /\ "no_memory" \in Env
    /\ ~Skipped
    /\ Goto(t, "kept", [NoCall EXCEPT !.ptr = p])
    /\ held' = held \ {p}
    /\ UNCHANGED <<heap, listVars, recVars, initVars, exitVars, endVars>>

Retrack(t) ==
    /\ pc[t] = "retrack"
    /\ \/ /\ Drop(call[t].ptr)
          /\ Goto(t, "moved", call[t])
          /\ UNCHANGED <<heap, held, recVars, initVars, exitVars, endVars>>
       \/ Abort(call[t].ptr)

Moved(t) ==
    /\ pc[t] = "moved"
    /\ IF Skipped THEN Return(t, call[t].res)
       ELSE Goto(t, "take", call[t]) /\ UNCHANGED held
    /\ UNCHANGED <<heap, listVars, recVars, initVars, exitVars, endVars>>

Lost(t) ==
    /\ pc[t] = "lost"
    /\ \/ /\ Drop(call[t].ptr)
          /\ Return(t, NULL)
          /\ UNCHANGED <<heap, recVars, initVars, exitVars, endVars>>
       \/ Abort(call[t].ptr)

\* The same code: the caller of a realloc that failed still has its block.
Kept(t) ==
    /\ pc[t] = "kept"
    /\ \/ /\ Drop(call[t].ptr)
          /\ Return(t, call[t].ptr)
          /\ missed' = [missed EXCEPT ![call[t].ptr] = @ + 1]
          /\ UNCHANGED <<heap, recVars, initVars, exitVars, bad_memory, bad_string>>
       \/ Abort(call[t].ptr)

-----------------------------------------------------------------------------
(* heaph_atexit                                                            *)

Exit ==
    /\ Up
    /\ init = "done"
    /\ ~is_exit_done
    /\ pc[Main] = "idle"
    /\ is_exit_done' = TRUE
    /\ at_exit' = [held |-> held \cap Addrs,
                   busy |-> {call[t].ptr : t \in Threads} \cup {call[t].res : t \in Threads}]
    /\ UNCHANGED <<heap, held, listVars, recVars, initVars, report, pc, call, endVars>>

\* The records of library code, which the report suppresses.
Suppressed == {r \in ToSet(allocs) : internal[r]}

Report ==
    /\ Up
    /\ is_exit_done
    /\ report = NULL
    /\ report' = [leaks |-> {[a |-> r, mem |-> mem[r]] : r \in ToSet(allocs) \ Suppressed},
                  suppressed |-> {[a |-> r, mem |-> mem[r]] : r \in Suppressed},
                  count |-> alloc_count - Cardinality(Suppressed)]
    /\ UNCHANGED <<heap, held, listVars, recVars, initVars, is_exit_done, at_exit, pc, call, endVars>>

-----------------------------------------------------------------------------
\* A thread that is in no call, and main not after it has left for exit.
Calling(t) ==
    /\ Up
    /\ init = "done"
    /\ pc[t] = "idle"
    /\ t = Main => ~is_exit_done
    /\ \/ \E s \in Sizes, lib \in BOOLEAN : Allocate(t, s, lib)
       \/ StrdupLate
       \/ \E p \in held : Free(t, p) \/ StringStatic(p)
       \/ \E p \in held, s \in Sizes : ReallocStatic(t, p, s)
       \/ \E p \in held \cap Addrs : \/ ReallocFree(t, p) \/ ReallocFail(t, p)
                                     \/ \E s \in Sizes : ReallocInPlace(p, s) \/ ReallocMove(t, p, s)

InCall(t) ==
    /\ Up
    /\ \/ TakeRecord(t) \/ LinkRecord(t) \/ Untrack(t) \/ Release(t)
       \/ Retrack(t) \/ Moved(t) \/ Lost(t) \/ Kept(t)

Next == \/ InitBegin \/ InitEnd \/ Exit \/ Report
        \/ \E p \in Static : StaticMalloc(p)
        \/ \E t \in Threads : Calling(t) \/ InCall(t)

Spec == Init /\ [][Next]_vars

-----------------------------------------------------------------------------
(* Properties                                                              *)

\* Every variable has its type.
TypeOK ==
    /\ heap \in [Addrs -> Sizes \cup {NULL}]
    /\ held \subseteq Addrs \cup Static
    /\ allocs \in Seq(Records) /\ alloc_pool \in Seq(Records)
    /\ batched \in 0 .. MaxRecords
    /\ mem \in [Records -> Addrs \cup {NULL}]
    /\ size \in [Records -> Sizes \cup {NULL}]
    /\ internal \in [Records -> BOOLEAN]
    /\ alloc_count \in Int
    /\ init \in {"none", "symbols", "done"}
    /\ static_used \subseteq Static
    /\ is_exit_done \in BOOLEAN
    /\ pc \in [Threads -> Pcs]
    /\ call \in [Threads -> Calls]
    /\ missed \in [Addrs -> Nat]
    /\ bad_memory \in Addrs \cup Static \cup {NULL}
    /\ bad_string \in {"none", "late", "static"}

InHand == {call[t].a : t \in {u \in Threads : pc[u] = "link"}}

\* A record is in the list, in the pool or in the hand of one thread between the
\* two locks of alloc_trace_new (168-200), and alloc_count counts the list,
\* which the loop of the report relies on (390).
RecordsApart ==
    /\ IsInjective(allocs) /\ IsInjective(alloc_pool)
    /\ ToSet(allocs) \cap ToSet(alloc_pool) = {}
    /\ (ToSet(allocs) \cup ToSet(alloc_pool)) \cap InHand = {}
    /\ \A t, u \in Threads : pc[t] = "link" /\ pc[u] = "link" /\ call[t].a = call[u].a => t = u
    /\ alloc_count = Len(allocs)

One(b) == IF b THEN 1 ELSE 0
In(places, p) == {t \in Threads : pc[t] \in places /\ call[t].ptr = p}
To(places, p) == {t \in Threads : pc[t] \in places /\ call[t].res = p}

\* An address has a record exactly when it is allocated, up to the calls that are
\* under way: those that will enter it, those that will release it, and those of
\* realloc (553-559) whose block is gone although its record is not dropped yet.
\* In between the allocator may have given the address to another thread.  A
\* realloc that fails leaves its block without a record.
TableExact ==
    ~is_exit_done => \A p \in Addrs :
        Cardinality({r \in ToSet(allocs) : mem[r] = p}) + missed[p]
          + Cardinality(To({"retrack", "moved", "take", "link"}, p)) + Cardinality(In({"free"}, p))
        = One(p \in Live) + Cardinality(In({"retrack", "lost"}, p))

\* heap_help.c:234: no correct use of the heap aborts with "freeing bad memory",
\* however the calls of threads overlap, but for a block that stayed when a
\* realloc of its address failed.
NoFalseAlarm == bad_memory # NULL => bad_memory \in Addrs /\ missed[bad_memory] > 0

\* README.md of heap_help, 7-9: what is reported or suppressed at exit is each
\* block that is held, once, and nothing else, but for those that are in calls at
\* that moment; calls that begin after is_exit_done is set (363) and come before the
\* walk over the list change nothing in it, and the count is that of the leaks
\* reported (378-408).  Blocks without a record are not reported.  A strdup among
\* those later calls ends the process (511), and then there may be no report.
ReportExact ==
    report # NULL =>
        LET found == report.leaks \cup report.suppressed
            left  == {p \in Addrs : p \in at_exit.busy \/ missed[p] > 0}
        IN /\ {x.mem : x \in found} \ left = at_exit.held \ left
           /\ \A x, y \in found : x.mem = y.mem /\ x.mem \notin left => x = y
           /\ report.count = Cardinality(report.leaks)

\* README.md of heap_help, 8-9: "of which sizes".
SizesTrue ==
    ~is_exit_done => \A p \in held \cap Addrs :
        \E r \in ToSet(allocs) : mem[r] = p /\ size[r] = heap[p]
=============================================================================
