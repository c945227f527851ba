--------------------------- MODULE HeapHelpProofs ---------------------------
(***************************************************************************)
(* What holds of the heap tracker for any number of threads, addresses and *)
(* records: each record is in one place, records and live blocks balance   *)
(* address by address, and so a free aborts only after a failed realloc.   *)
(*                                                                         *)
(* An address can be owed several records at once, when blocks were moved  *)
(* away from it one after another and none of the calls has dropped its    *)
(* record yet.  So the argument counts.                                    *)
(***************************************************************************)
EXTENDS HeapHelp, FunctionTheorems, FiniteSetTheorems, SequenceTheorems, WellFoundedInduction, TLAPS

USE HeapHelpAssumption

-----------------------------------------------------------------------------
(* Lists of different records                                              *)

\* A set of numbers that is not empty has a least element.
LEMMA LeastNumber ==
    ASSUME NEW S \in SUBSET Nat, S # {}
    PROVE  \E m \in S : \A k \in S : m <= k
<1>1. PICK m \in S : \A k \in S : ~ (<<k, m>> \in OpToRel(<, Nat))
  BY WFMin, NatLessThanWellFounded
<1>2. \A k \in S : ~ (k < m)
  BY <1>1, Zenon DEF OpToRel
<1> QED  BY <1>2

\* A record put before the others (196-197, 222-223).
LEMMA ConsKeeps ==
    ASSUME NEW S, NEW s \in Seq(S), NEW a \in S
    PROVE  /\ << a >> \o s \in Seq(S)
           /\ Len(<< a >> \o s) = Len(s) + 1
           /\ ToSet(<< a >> \o s) = ToSet(s) \cup {a}
           /\ IsInjective(s) /\ a \notin ToSet(s) => IsInjective(<< a >> \o s)
<1> DEFINE z == << a >> \o s
<1>1. << a >> \in Seq(S) /\ Len(<< a >>) = 1 /\ << a >>[1] = a /\ Len(s) \in Nat
  OBVIOUS
<1>2. /\ z \in Seq(S) /\ Len(z) = 1 + Len(s)
      /\ \A i \in 1 .. 1 + Len(s) : z[i] = IF i <= 1 THEN << a >>[i] ELSE s[i - 1]
  BY <1>1, ConcatProperties
<1>3. DOMAIN z = 1 .. 1 + Len(s) /\ DOMAIN s = 1 .. Len(s)
  BY <1>2
<1> HIDE DEF z
<1>4. z[1] = a /\ \A i \in 1 .. Len(s) : i + 1 \in DOMAIN z /\ z[i + 1] = s[i]
  BY <1>1, <1>2, <1>3
<1>5. \A i \in DOMAIN z : i # 1 => i - 1 \in DOMAIN s /\ z[i] = s[i - 1]
  BY <1>2, <1>3
<1>6. ToSet(z) = ToSet(s) \cup {a}
  <2>1. \A x \in ToSet(z) : x \in ToSet(s) \cup {a}
    BY <1>4, <1>5 DEF ToSet
  <2>2. \A x \in ToSet(s) \cup {a} : x \in ToSet(z)
    BY <1>1, <1>3, <1>4 DEF ToSet
  <2> QED  BY <2>1, <2>2
<1>7. ASSUME IsInjective(s), a \notin ToSet(s) PROVE IsInjective(z)
  <2>1. \A i \in DOMAIN s : s[i] # a
    BY <1>7 DEF ToSet
  <2> SUFFICES ASSUME NEW i \in DOMAIN z, NEW j \in DOMAIN z, z[i] = z[j] PROVE i = j
    BY DEF IsInjective
  <2>2. CASE i = 1 \/ j = 1
    BY <1>4, <1>5, <2>1, <2>2
  <2>3. CASE i # 1 /\ j # 1
    <3>1. i - 1 \in DOMAIN s /\ j - 1 \in DOMAIN s /\ s[i - 1] = s[j - 1]
      BY <1>5, <2>3
    <3>2. i - 1 = j - 1
      BY <1>7, <3>1 DEF IsInjective
    <3> QED  BY <1>3, <3>2
  <2> QED  BY <2>2, <2>3
<1> QED  BY <1>1, <1>2, <1>6, <1>7 DEF z

\* The first record taken away (171).
LEMMA TailKeeps ==
    ASSUME NEW S, NEW s \in Seq(S), s # << >>, IsInjective(s)
    PROVE  /\ Head(s) \in S /\ Head(s) \in ToSet(s)
           /\ Tail(s) \in Seq(S) /\ IsInjective(Tail(s))
           /\ ToSet(Tail(s)) = ToSet(s) \ {Head(s)}
<1> DEFINE z == Tail(s)
<1>1. /\ Len(s) \in Nat /\ Len(s) >= 1 /\ DOMAIN s = 1 .. Len(s) /\ Head(s) = s[1]
      /\ z \in Seq(S) /\ DOMAIN z = 1 .. Len(s) - 1
      /\ \A i \in 1 .. Len(s) - 1 : z[i] = s[i + 1]
  OBVIOUS
<1> HIDE DEF z
<1>2. IsInjective(z)
  <2> SUFFICES ASSUME NEW i \in DOMAIN z, NEW j \in DOMAIN z, z[i] = z[j] PROVE i = j
    BY DEF IsInjective
  <2>1. i + 1 \in DOMAIN s /\ j + 1 \in DOMAIN s /\ s[i + 1] = s[j + 1]
    BY <1>1
  <2>2. i + 1 = j + 1
    BY <2>1 DEF IsInjective
  <2> QED  BY <1>1, <2>2
<1>3. ToSet(z) = ToSet(s) \ {Head(s)}
  <2>1. ASSUME NEW x \in ToSet(z) PROVE x \in ToSet(s) \ {Head(s)}
    <3>1. PICK i \in DOMAIN z : x = z[i]
      BY DEF ToSet
    <3>2. i + 1 \in DOMAIN s /\ 1 \in DOMAIN s /\ x = s[i + 1] /\ i + 1 # 1
      BY <1>1, <3>1
    <3> QED  BY <1>1, <3>2 DEF ToSet, IsInjective
  <2>2. ASSUME NEW x \in ToSet(s) \ {Head(s)} PROVE x \in ToSet(z)
    <3>1. PICK i \in DOMAIN s : x = s[i]
      BY DEF ToSet
    <3>2. i # 1 /\ i \in 1 .. Len(s)
      BY <1>1, <3>1
    <3>3. i - 1 \in 1 .. Len(s) - 1 /\ (i - 1) + 1 = i
      BY <1>1, <3>2
    <3>4. i - 1 \in DOMAIN z /\ z[i - 1] = x
      BY <1>1, <3>1, <3>3
    <3> QED  BY <3>4 DEF ToSet
  <2> QED  BY <2>1, <2>2
<1>4. Head(s) \in S /\ Head(s) \in ToSet(s)
  BY <1>1 DEF ToSet
<1> QED  BY <1>1, <1>2, <1>3, <1>4 DEF z

\* A record taken out of the list (217-221).
LEMMA RemoveKeeps ==
    ASSUME NEW S, NEW s \in Seq(S), NEW i \in DOMAIN s, IsInjective(s)
    PROVE  /\ s[i] \in S /\ s[i] \in ToSet(s)
           /\ RemoveAt(s, i) \in Seq(S) /\ IsInjective(RemoveAt(s, i))
           /\ Len(RemoveAt(s, i)) = Len(s) - 1
           /\ ToSet(RemoveAt(s, i)) = ToSet(s) \ {s[i]}
<1>1. Len(s) \in Nat /\ i \in 1 .. Len(s) /\ DOMAIN s = 1 .. Len(s)
  OBVIOUS
<1> DEFINE a == SubSeq(s, 1, i - 1)
           b == SubSeq(s, i + 1, Len(s))
           z == a \o b
<1>2. a \in Seq(S) /\ Len(a) = i - 1 /\ \A k \in 1 .. i - 1 : a[k] = s[k]
  BY <1>1
<1>3. b \in Seq(S) /\ Len(b) = Len(s) - i /\ \A k \in 1 .. Len(s) - i : b[k] = s[i + k]
  BY <1>1
<1> HIDE DEF a, b
<1>4. /\ z \in Seq(S) /\ Len(z) = Len(a) + Len(b)
      /\ \A k \in 1 .. Len(a) + Len(b) : z[k] = IF k <= Len(a) THEN a[k] ELSE b[k - Len(a)]
  <2>1. a \in Seq(S) /\ b \in Seq(S)
    BY <1>2, <1>3
  <2> QED  BY <2>1, ConcatProperties, Zenon
<1> HIDE DEF z
<1>5. z \in Seq(S) /\ Len(z) = Len(s) - 1 /\ DOMAIN z = 1 .. Len(s) - 1
  BY <1>1, <1>2, <1>3, <1>4
<1>6. ASSUME NEW k \in DOMAIN z PROVE z[k] = IF k < i THEN s[k] ELSE s[k + 1]
  <2>1. z[k] = IF k <= i - 1 THEN a[k] ELSE b[k - (i - 1)]
    BY <1>1, <1>2, <1>3, <1>4, <1>5
  <2>2. CASE k < i
    BY <1>1, <1>2, <1>5, <2>1, <2>2
  <2>3. CASE ~ (k < i)
    <3>1. /\ ~ (k <= i - 1) /\ k - (i - 1) \in 1 .. Len(s) - i
          /\ i + (k - (i - 1)) = k + 1
      BY <1>1, <1>5, <2>3
    <3>2. z[k] = b[k - (i - 1)]
      BY <2>1, <3>1
    <3> QED  BY <1>3, <2>3, <3>1, <3>2
  <2> QED  BY <2>2, <2>3
<1>7. IsInjective(z)
  <2> SUFFICES ASSUME NEW k \in DOMAIN z, NEW j \in DOMAIN z, z[k] = z[j] PROVE k = j
    BY DEF IsInjective
  <2>1. \A x \in DOMAIN z : x \in DOMAIN s /\ x + 1 \in DOMAIN s
    BY <1>1, <1>5
  <2>2. (IF k < i THEN k ELSE k + 1) = (IF j < i THEN j ELSE j + 1)
    BY <1>6, <2>1 DEF IsInjective
  <2> QED  BY <1>1, <1>5, <2>2
<1>8. ToSet(z) = ToSet(s) \ {s[i]}
  <2>1. ASSUME NEW x \in ToSet(z) PROVE x \in ToSet(s) \ {s[i]}
    <3>1. PICK k \in DOMAIN z : x = z[k]
      BY DEF ToSet
    <3>2. PICK j \in DOMAIN s : x = s[j] /\ j # i
      BY <1>1, <1>5, <1>6, <3>1
    <3> QED  BY <3>2 DEF ToSet, IsInjective
  <2>2. ASSUME NEW x \in ToSet(s) \ {s[i]} PROVE x \in ToSet(z)
    <3>1. PICK j \in DOMAIN s : x = s[j] /\ j # i
      BY DEF ToSet
    <3>2. CASE j < i
      <4>1. j \in DOMAIN z /\ z[j] = x
        BY <1>1, <1>5, <1>6, <3>1, <3>2
      <4> QED  BY <4>1 DEF ToSet
    <3>3. CASE j > i
      <4>1. j - 1 \in DOMAIN z /\ ~ (j - 1 < i) /\ (j - 1) + 1 = j
        BY <1>1, <1>5, <3>3
      <4>2. z[j - 1] = x
        BY <1>6, <3>1, <4>1
      <4> QED  BY <4>1, <4>2 DEF ToSet
    <3> QED  BY <1>1, <3>1, <3>2, <3>3
  <2> QED  BY <2>1, <2>2
<1>9. s[i] \in S /\ s[i] \in ToSet(s)
  BY <1>1 DEF ToSet
<1>10. RemoveAt(s, i) = z
  BY DEF RemoveAt, z, a, b
<1> QED  BY <1>5, <1>7, <1>8, <1>9, <1>10

-----------------------------------------------------------------------------
(* Types, and what a call has in hand where it is                          *)

Entering == {"retrack", "moved", "take", "link"}

CallInv ==
    \A t \in Threads :
        /\ pc[t] \in {"untrack", "free", "retrack", "lost", "kept"} => call[t].ptr \in Addrs
        /\ pc[t] \in Entering => call[t].res \in Addrs /\ call[t].size \in Sizes
        /\ pc[t] = "link" => call[t].a \in Records

\* The thread t goes from one place in its calls to another, with the call c.
Steps(t, from, to, c) ==
    /\ pc[t] = from /\ pc'[t] = to /\ call'[t] = c
    /\ \A u \in Threads \ {t} : pc'[u] = pc[u] /\ call'[u] = call[u]

LEMMA GotoSteps ==
    ASSUME TypeOK, CallInv, NEW t \in Threads, NEW to \in Pcs, NEW c \in Calls, Goto(t, to, c),
           to \in {"untrack", "free", "retrack", "lost", "kept"} => c.ptr \in Addrs,
           to \in Entering => c.res \in Addrs /\ c.size \in Sizes,
           to = "link" => c.a \in Records
    PROVE  /\ pc' \in [Threads -> Pcs] /\ call' \in [Threads -> Calls] /\ CallInv'
           /\ Steps(t, pc[t], to, c)
<1>1. pc' \in [Threads -> Pcs] /\ call' \in [Threads -> Calls]
  BY DEF Goto, TypeOK
<1>2. Steps(t, pc[t], to, c)
  BY DEF Goto, TypeOK, Steps
<1>3. CallInv'
  BY <1>2 DEF CallInv, Steps
<1> QED  BY <1>1, <1>2, <1>3

LEMMA ReturnSteps ==
    ASSUME TypeOK, CallInv, NEW t \in Threads, NEW p \in Addrs \cup {NULL}, Return(t, p)
    PROVE  /\ pc' \in [Threads -> Pcs] /\ call' \in [Threads -> Calls] /\ CallInv'
           /\ Steps(t, pc[t], "idle", NoCall)
           /\ held' \subseteq Addrs \cup Static
<1>1. NoCall \in Calls /\ "idle" \in Pcs /\ "idle" \notin Entering
  BY DEF NoCall, Calls, Pcs, Entering
<1>2. Goto(t, "idle", NoCall)
  BY DEF Return
<1>3. held' \subseteq Addrs \cup Static
  BY DEF Return, TypeOK
<1> QED  BY <1>1, <1>2, <1>3, GotoSteps

\* alloc_free takes one record of the address off the list (214-225).
LEMMA DropTakes ==
    ASSUME TypeOK, NEW p \in Addrs, Drop(p), IsInjective(allocs)
    PROVE  \E r \in Records :
              /\ r \in ToSet(allocs) /\ mem[r] = p
              /\ ToSet(allocs') = ToSet(allocs) \ {r}
              /\ IsInjective(allocs') /\ Len(allocs') = Len(allocs) - 1
              /\ allocs' \in Seq(Records) /\ alloc_pool' \in Seq(Records)
              /\ ToSet(alloc_pool') = ToSet(alloc_pool) \cup {r}
              /\ IsInjective(alloc_pool) /\ r \notin ToSet(alloc_pool) => IsInjective(alloc_pool')
              /\ alloc_count' = alloc_count - 1 /\ batched' = batched
<1> DEFINE i == CHOOSE i \in RecordsOf(p) : \A j \in RecordsOf(p) : i <= j
<1>1. RecordsOf(p) # {} /\ RecordsOf(p) \in SUBSET Nat
  BY DEF Drop, RecordsOf, TypeOK
<1>2. i \in RecordsOf(p)
  BY <1>1, LeastNumber
<1>3. /\ allocs' = RemoveAt(allocs, i) /\ alloc_pool' = << allocs[i] >> \o alloc_pool
      /\ alloc_count' = alloc_count - 1 /\ batched' = batched
  BY DEF Drop
<1> HIDE DEF i
<1>4. i \in DOMAIN allocs /\ mem[allocs[i]] = p
  BY <1>2 DEF RecordsOf
<1>5. allocs \in Seq(Records) /\ alloc_pool \in Seq(Records)
  BY DEF TypeOK
<1> DEFINE r == allocs[i]
<1>6. /\ r \in Records /\ r \in ToSet(allocs)
      /\ allocs' \in Seq(Records) /\ IsInjective(allocs')
      /\ Len(allocs') = Len(allocs) - 1 /\ ToSet(allocs') = ToSet(allocs) \ {r}
  BY <1>3, <1>4, <1>5, RemoveKeeps
<1>7. /\ alloc_pool' \in Seq(Records) /\ ToSet(alloc_pool') = ToSet(alloc_pool) \cup {r}
      /\ IsInjective(alloc_pool) /\ r \notin ToSet(alloc_pool) => IsInjective(alloc_pool')
  BY <1>3, <1>5, <1>6, ConsKeeps
<1> QED  BY <1>3, <1>4, <1>6, <1>7

-----------------------------------------------------------------------------
(* The invariant                                                           *)

\* Records are in one place, and were taken from a batch.
RecInv ==
    /\ RecordsApart
    /\ \A r \in ToSet(allocs) \cup ToSet(alloc_pool) \cup InHand : r <= batched

\* A call that will hand a block out, or has yet to free it, has the block alone.
Owns(t, p) ==
    \/ pc[t] \in Entering /\ call[t].res = p
    \/ pc[t] \in {"untrack", "free", "kept"} /\ call[t].ptr = p

OwnInv ==
    /\ \A p \in held \cap Addrs : heap[p] # NULL
    /\ \A t \in Threads, p \in Addrs : Owns(t, p) => heap[p] # NULL /\ p \notin held
    /\ \A t, u \in Threads, p \in Addrs : Owns(t, p) /\ Owns(u, p) => t = u

BaseInv == TypeOK /\ CallInv /\ RecInv /\ OwnInv

\* What happens outside of the calls of threads, and the abort.
Quiet ==
    /\ UNCHANGED <<heap, listVars, recVars, pc, call, missed>>
    /\ \/ UNCHANGED <<held, static_used>>
       \/ \E p \in Static : held' = held \cup {p} /\ static_used' = static_used \cup {p}
    /\ init' \in {"none", "symbols", "done"}
    /\ is_exit_done' \in BOOLEAN
    /\ bad_memory' \in Addrs \cup Static \cup {NULL}
    /\ bad_string' \in {"none", "late", "static"}

LEMMA QuietKeeps ==
    ASSUME BaseInv, Quiet
    PROVE  BaseInv'
<1>1. TypeOK'
  BY DEF BaseInv, TypeOK, Quiet, listVars, recVars
<1>2. CallInv'
  BY DEF BaseInv, CallInv, Quiet
<1>3. RecInv'
  BY DEF BaseInv, RecInv, RecordsApart, InHand, Quiet, listVars, recVars
<1>4. held' \cap Addrs = held \cap Addrs
  BY DEF Quiet
<1>5. OwnInv'
  BY <1>4 DEF BaseInv, OwnInv, Owns, Quiet
<1> QED  BY <1>1, <1>2, <1>3, <1>5 DEF BaseInv

\* A step of a thread that leaves the records alone.
LEMMA RecordsStay ==
    ASSUME BaseInv, NEW t \in Threads, NEW from, NEW to, NEW c, Steps(t, from, to, c),
           from # "link", to # "link", UNCHANGED listVars
    PROVE  RecInv'
<1>1. \A u \in Threads : /\ pc'[u] = "link" <=> pc[u] = "link"
                         /\ pc'[u] = "link" => call'[u] = call[u]
  BY DEF Steps
<1>2. InHand' = InHand
  BY <1>1 DEF InHand
<1> QED  BY <1>1, <1>2 DEF BaseInv, RecInv, RecordsApart, listVars

-----------------------------------------------------------------------------
(* Counting                                                                *)

RecordSet(q) == {r \in ToSet(allocs) : mem[r] = q}
Recs(q)      == Cardinality(RecordSet(q))
Coming(q)    == To(Entering, q)
Leaving(q)   == In({"free"}, q)
Gone(q)      == In({"retrack", "lost"}, q)
Pending(q)   == In({"untrack", "retrack", "lost", "kept"}, q)

\* What TableExact says is zero, and what the thread t contributes to it.
Balance(q) ==
    Recs(q) + missed[q] + Cardinality(Coming(q)) + Cardinality(Leaving(q))
      - One(q \in Live) - Cardinality(Gone(q))
Share(t, q) == One(t \in Coming(q)) + One(t \in Leaving(q)) - One(t \in Gone(q))

\* Calls that will drop a record have one to drop.
Surplus(q) == Recs(q) + missed[q] - Cardinality(Pending(q))

\* Two finite sets that differ at most in x.
LEMMA DifferInOne ==
    ASSUME NEW S, NEW T, NEW x, IsFiniteSet(S), S \ {x} = T \ {x}
    PROVE  /\ IsFiniteSet(T) /\ Cardinality(S) \in Nat /\ Cardinality(T) \in Nat
           /\ Cardinality(T) = Cardinality(S) - One(x \in S) + One(x \in T)
<1> DEFINE R == S \ {x}
<1>1. IsFiniteSet(R) /\ Cardinality(R) = IF x \in S THEN Cardinality(S) - 1 ELSE Cardinality(S)
  BY FS_RemoveElement
<1>2. x \notin R
  OBVIOUS
<1>3. IsFiniteSet(R \cup {x}) /\ Cardinality(R \cup {x}) = Cardinality(R) + 1
  BY <1>1, <1>2, FS_AddElement
<1>4. T = IF x \in T THEN R \cup {x} ELSE R
  OBVIOUS
<1> HIDE DEF R
<1>5. IsFiniteSet(T) /\ Cardinality(T) = IF x \in T THEN Cardinality(R) + 1 ELSE Cardinality(R)
  BY <1>1, <1>3, <1>4
<1>6. Cardinality(S) \in Nat /\ Cardinality(T) \in Nat
  BY <1>5, FS_CardinalityType
<1> QED  BY <1>1, <1>5, <1>6 DEF One

LEMMA CountsAreNumbers ==
    ASSUME TypeOK, NEW q \in Addrs
    PROVE  /\ IsFiniteSet(RecordSet(q)) /\ Recs(q) \in Nat /\ missed[q] \in Nat
           /\ IsFiniteSet(Coming(q)) /\ Cardinality(Coming(q)) \in Nat
           /\ IsFiniteSet(Leaving(q)) /\ Cardinality(Leaving(q)) \in Nat
           /\ IsFiniteSet(Gone(q)) /\ Cardinality(Gone(q)) \in Nat
           /\ IsFiniteSet(Pending(q)) /\ Cardinality(Pending(q)) \in Nat
<1>1. ToSet(allocs) \in SUBSET (1 .. MaxRecords)
  BY DEF TypeOK, ToSet, Records
<1>2. IsFiniteSet(1 .. MaxRecords)
  BY FS_Interval
<1>3. RecordSet(q) \in SUBSET (1 .. MaxRecords)
  BY <1>1 DEF RecordSet
<1>4. IsFiniteSet(RecordSet(q))
  BY <1>2, <1>3, FS_Subset
<1>5. /\ Coming(q) \in SUBSET Threads /\ Leaving(q) \in SUBSET Threads
      /\ Gone(q) \in SUBSET Threads /\ Pending(q) \in SUBSET Threads
  BY DEF Coming, Leaving, Gone, Pending, To, In
<1>6. /\ IsFiniteSet(Coming(q)) /\ IsFiniteSet(Leaving(q))
      /\ IsFiniteSet(Gone(q)) /\ IsFiniteSet(Pending(q))
  BY <1>5, FS_Subset
<1> QED  BY <1>4, <1>6, FS_CardinalityType DEF Recs, TypeOK

LEMMA BalanceIsEquation ==
    ASSUME TypeOK, NEW q \in Addrs, Balance(q) = 0
    PROVE  Recs(q) + missed[q] + Cardinality(Coming(q)) + Cardinality(Leaving(q))
             = One(q \in Live) + Cardinality(Gone(q))
<1>1. /\ Recs(q) \in Nat /\ missed[q] \in Nat /\ Cardinality(Coming(q)) \in Nat
      /\ Cardinality(Leaving(q)) \in Nat /\ Cardinality(Gone(q)) \in Nat
  BY CountsAreNumbers
<1>2. One(q \in Live) \in Int
  BY DEF One
<1>3. Balance(q) = Recs(q) + missed[q] + Cardinality(Coming(q)) + Cardinality(Leaving(q))
                     - One(q \in Live) - Cardinality(Gone(q))
  BY DEF Balance
<1> DEFINE left  == Recs(q) + missed[q] + Cardinality(Coming(q)) + Cardinality(Leaving(q))
           right == One(q \in Live) + Cardinality(Gone(q))
<1>4. left \in Int /\ right \in Int /\ ~ (left < right) /\ ~ (left > right)
  BY <1>1, <1>2, <1>3
<1> HIDE DEF left, right
<1>5. left = right
  BY <1>4
<1> QED  BY <1>5 DEF left, right

\* The step of one thread changes a count by what becomes of that thread.
LEMMA ThreadsCount ==
    ASSUME TypeOK, TypeOK', NEW t \in Threads, NEW from, NEW to, NEW c, Steps(t, from, to, c),
           NEW q \in Addrs
    PROVE  /\ Balance(q)' - Balance(q) = Recs(q)' - Recs(q) + missed'[q] - missed[q]
                 - One(q \in Live)' + One(q \in Live) + Share(t, q)' - Share(t, q)
           /\ Surplus(q)' - Surplus(q) = Recs(q)' - Recs(q) + missed'[q] - missed[q]
                 - One(t \in Pending(q))' + One(t \in Pending(q))
<1>1. \A u \in Threads \ {t} : pc'[u] = pc[u] /\ call'[u] = call[u]
  BY DEF Steps
<1>2. /\ Coming(q) \ {t} = Coming(q)' \ {t} /\ Leaving(q) \ {t} = Leaving(q)' \ {t}
      /\ Gone(q) \ {t} = Gone(q)' \ {t} /\ Pending(q) \ {t} = Pending(q)' \ {t}
  BY <1>1 DEF Coming, Leaving, Gone, Pending, To, In
<1>3. /\ Recs(q) \in Nat /\ missed[q] \in Nat
      /\ IsFiniteSet(Coming(q)) /\ IsFiniteSet(Leaving(q))
      /\ IsFiniteSet(Gone(q)) /\ IsFiniteSet(Pending(q))
  BY CountsAreNumbers
<1>4. Recs(q)' \in Nat /\ missed'[q] \in Nat
  <2>1. IsFiniteSet(RecordSet(q)')
    <3>0. allocs' \in Seq(1 .. MaxRecords)
      BY DEF TypeOK, Records
    <3>1. ToSet(allocs') \in SUBSET (1 .. MaxRecords)
      BY <3>0 DEF ToSet
    <3>2. RecordSet(q)' \in SUBSET (1 .. MaxRecords) /\ IsFiniteSet(1 .. MaxRecords)
      BY <3>1, FS_Interval DEF RecordSet
    <3> QED  BY <3>2, FS_Subset
  <2> QED  BY <2>1, FS_CardinalityType DEF Recs, TypeOK
<1>5. /\ Cardinality(Coming(q)) \in Nat /\ Cardinality(Coming(q)') \in Nat
      /\ Cardinality(Coming(q)') = Cardinality(Coming(q)) - One(t \in Coming(q)) + One(t \in Coming(q)')
  BY <1>2, <1>3, DifferInOne
<1>6. /\ Cardinality(Leaving(q)) \in Nat /\ Cardinality(Leaving(q)') \in Nat
      /\ Cardinality(Leaving(q)') = Cardinality(Leaving(q)) - One(t \in Leaving(q)) + One(t \in Leaving(q)')
  BY <1>2, <1>3, DifferInOne
<1>7. /\ Cardinality(Gone(q)) \in Nat /\ Cardinality(Gone(q)') \in Nat
      /\ Cardinality(Gone(q)') = Cardinality(Gone(q)) - One(t \in Gone(q)) + One(t \in Gone(q)')
  BY <1>2, <1>3, DifferInOne
<1>8. /\ Cardinality(Pending(q)) \in Nat /\ Cardinality(Pending(q)') \in Nat
      /\ Cardinality(Pending(q)') = Cardinality(Pending(q)) - One(t \in Pending(q)) + One(t \in Pending(q)')
  BY <1>2, <1>3, DifferInOne
<1>9. /\ One(t \in Coming(q)) \in Int /\ One(t \in Coming(q)') \in Int
      /\ One(t \in Leaving(q)) \in Int /\ One(t \in Leaving(q)') \in Int
      /\ One(t \in Gone(q)) \in Int /\ One(t \in Gone(q)') \in Int
      /\ One(t \in Pending(q)) \in Int /\ One(t \in Pending(q)') \in Int
      /\ One(q \in Live) \in Int /\ One(q \in Live') \in Int
  BY DEF One
<1>10. Balance(q)' - Balance(q) = Recs(q)' - Recs(q) + missed'[q] - missed[q]
                 - One(q \in Live)' + One(q \in Live) + Share(t, q)' - Share(t, q)
  BY <1>3, <1>4, <1>5, <1>6, <1>7, <1>9 DEF Balance, Share
<1>11. Surplus(q)' - Surplus(q) = Recs(q)' - Recs(q) + missed'[q] - missed[q]
                 - One(t \in Pending(q))' + One(t \in Pending(q))
  BY <1>3, <1>4, <1>8, <1>9 DEF Surplus
<1> QED  BY <1>10, <1>11

-----------------------------------------------------------------------------
(* What a step of a thread does to the lists and to the blocks             *)

\* The table of the records that are linked is as before.
LEMMA RecsStay ==
    ASSUME allocs' = allocs, mem' = mem, NEW q
    PROVE  Recs(q)' = Recs(q)
BY DEF Recs, RecordSet

\* alloc_free: the record it drops is in the pool, and no longer counted.
LEMMA DropKeeps ==
    ASSUME BaseInv, NEW t \in Threads, NEW from, NEW to, NEW c, Steps(t, from, to, c),
           from # "link", to # "link", NEW p \in Addrs, Drop(p), mem' = mem
    PROVE  /\ RecInv' /\ allocs' \in Seq(Records) /\ alloc_pool' \in Seq(Records)
           /\ batched' = batched /\ alloc_count' \in Int
           /\ \A q \in Addrs : Recs(q)' = Recs(q) - One(q = p)
<1>1. TypeOK /\ RecInv /\ RecordsApart
  BY DEF BaseInv, RecInv
<1>2. IsInjective(allocs) /\ IsInjective(alloc_pool)
  BY <1>1 DEF RecordsApart
<1>3. PICK r \in Records :
              /\ r \in ToSet(allocs) /\ mem[r] = p
              /\ ToSet(allocs') = ToSet(allocs) \ {r}
              /\ IsInjective(allocs') /\ Len(allocs') = Len(allocs) - 1
              /\ allocs' \in Seq(Records) /\ alloc_pool' \in Seq(Records)
              /\ ToSet(alloc_pool') = ToSet(alloc_pool) \cup {r}
              /\ IsInjective(alloc_pool) /\ r \notin ToSet(alloc_pool) => IsInjective(alloc_pool')
              /\ alloc_count' = alloc_count - 1 /\ batched' = batched
  BY <1>1, <1>2, DropTakes
<1>4. \A u \in Threads : /\ pc'[u] = "link" <=> pc[u] = "link"
                         /\ pc'[u] = "link" => call'[u] = call[u]
  BY DEF Steps
<1>5. InHand' = InHand
  BY <1>4 DEF InHand
<1>6. IsInjective(alloc_pool')
  BY <1>1, <1>2, <1>3 DEF RecordsApart
<1>7. RecordsApart'
  <2>1. ToSet(allocs') \cap ToSet(alloc_pool') = {}
    BY <1>1, <1>3 DEF RecordsApart
  <2>2. (ToSet(allocs') \cup ToSet(alloc_pool')) \cap InHand' = {}
    BY <1>1, <1>3, <1>5 DEF RecordsApart
  <2>3. alloc_count' = Len(allocs')
    BY <1>1, <1>3 DEF RecordsApart
  <2> QED  BY <1>1, <1>3, <1>4, <1>6, <2>1, <2>2, <2>3 DEF RecordsApart
<1>8. \A x \in ToSet(allocs') \cup ToSet(alloc_pool') \cup InHand' : x <= batched'
  BY <1>1, <1>3, <1>5 DEF RecInv
<1>9. ASSUME NEW q \in Addrs PROVE Recs(q)' = Recs(q) - One(q = p)
  <2>1. IsFiniteSet(RecordSet(q)) /\ Recs(q) \in Nat
    BY <1>1, CountsAreNumbers
  <2>2. CASE q = p
    <3>1. RecordSet(q)' = RecordSet(q) \ {r} /\ r \in RecordSet(q)
      BY <1>3, <2>2 DEF RecordSet
    <3>2. Recs(q)' = Recs(q) - 1
      BY <2>1, <3>1, FS_RemoveElement DEF Recs
    <3> QED  BY <2>2, <3>2 DEF One
  <2>3. CASE q # p
    <3>1. RecordSet(q)' = RecordSet(q)
      BY <1>3, <2>3 DEF RecordSet
    <3>2. Recs(q)' = Recs(q)
      BY <3>1 DEF Recs
    <3> QED  BY <2>1, <2>3, <3>2 DEF One
  <2> QED  BY <2>2, <2>3
<1>10. alloc_count' \in Int
  BY <1>1, <1>3 DEF TypeOK
<1> QED  BY <1>3, <1>7, <1>8, <1>9, <1>10 DEF RecInv

\* Blocks go from one hand to another: the allocator, the callers, and the call
\* of the thread t.  At p nothing changes, or p is in no other call.
SameHand(t, p) ==
    /\ heap'[p] # NULL <=> heap[p] # NULL
    /\ p \in held' <=> p \in held
    /\ Owns(t, p)' => Owns(t, p)
OneHand(t, p) ==
    /\ \A u \in Threads \ {t} : ~ Owns(u, p)
    /\ p \in held' \/ Owns(t, p)' => heap'[p] # NULL
    /\ ~ (p \in held' /\ Owns(t, p)')

LEMMA OwnStep ==
    ASSUME OwnInv, NEW t \in Threads, NEW from, NEW to, NEW c, Steps(t, from, to, c),
           \A p \in Addrs : SameHand(t, p) \/ OneHand(t, p)
    PROVE  OwnInv'
<1>1. \A u \in Threads \ {t}, p \in Addrs : Owns(u, p)' <=> Owns(u, p)
  BY DEF Steps, Owns
<1>2. \A p \in held' \cap Addrs : heap'[p] # NULL
  BY DEF OwnInv, SameHand, OneHand
<1>3. ASSUME NEW u \in Threads, NEW p \in Addrs, Owns(u, p)' PROVE heap'[p] # NULL /\ p \notin held'
  <2>1. CASE u = t
    BY <1>3, <2>1 DEF OwnInv, SameHand, OneHand
  <2>2. CASE u # t
    BY <1>1, <1>3, <2>2 DEF OwnInv, SameHand, OneHand
  <2> QED  BY <2>1, <2>2
<1>4. ASSUME NEW u \in Threads, NEW v \in Threads, NEW p \in Addrs, Owns(u, p)', Owns(v, p)'
      PROVE  u = v
  BY <1>1, <1>4 DEF OwnInv, SameHand, OneHand
<1> QED  BY <1>2, <1>3, <1>4 DEF OwnInv

\* A block is in the hand of at most one call, so before the exit the calls that
\* will drop a record have one.
LEMMA EnoughRecords ==
    ASSUME TypeOK, OwnInv, NEW q \in Addrs, Balance(q) = 0
    PROVE  Surplus(q) >= 0
<1> DEFINE U == In({"untrack", "kept"}, q)
<1>1. /\ Recs(q) \in Nat /\ missed[q] \in Nat
      /\ Cardinality(Coming(q)) \in Nat /\ Cardinality(Leaving(q)) \in Nat
      /\ IsFiniteSet(Gone(q)) /\ Cardinality(Gone(q)) \in Nat /\ Cardinality(Pending(q)) \in Nat
  BY CountsAreNumbers
<1>2. U \in SUBSET Threads /\ IsFiniteSet(U) /\ Cardinality(U) \in Nat
  BY FS_Subset, FS_CardinalityType DEF In
<1>3. Pending(q) = Gone(q) \cup U /\ Gone(q) \cap U = {}
  BY DEF Pending, Gone, In
<1> HIDE DEF U
<1>4. Cardinality(Pending(q)) = Cardinality(Gone(q)) + Cardinality(U)
  <2>1. Cardinality(Gone(q) \cup U) = Cardinality(Gone(q)) + Cardinality(U) - Cardinality(Gone(q) \cap U)
    BY <1>1, <1>2, FS_Union, Zenon
  <2>2. Cardinality(Gone(q) \cap U) = 0
    BY <1>3, FS_EmptySet
  <2> QED  BY <1>1, <1>2, <1>3, <2>1, <2>2
<1>5. \A t \in Coming(q) \cup Leaving(q) \cup U : t \in Threads /\ Owns(t, q)
  BY DEF Coming, Leaving, U, To, In, Owns
<1>6. Coming(q) \cap Leaving(q) = {} /\ Coming(q) \cap U = {} /\ Leaving(q) \cap U = {}
  BY DEF Coming, Leaving, U, To, In, Entering
<1>7. Cardinality(Coming(q)) + Cardinality(Leaving(q)) + Cardinality(U) <= One(q \in Live)
  <2>1. CASE Coming(q) \cup Leaving(q) \cup U = {}
    <3>1. Coming(q) = {} /\ Leaving(q) = {} /\ U = {}
      BY <2>1
    <3> QED  BY <3>1, FS_EmptySet DEF One
  <2>2. CASE \E t : t \in Coming(q) \cup Leaving(q) \cup U
    <3>1. PICK t : t \in Coming(q) \cup Leaving(q) \cup U
      BY <2>2
    <3>2. \A u \in Coming(q) \cup Leaving(q) \cup U : u = t
      BY <1>5, <3>1 DEF OwnInv
    <3>3. q \in Live
      BY <1>5, <3>1 DEF OwnInv, Live
    <3>4. Cardinality({t}) = 1 /\ Cardinality({}) = 0
      BY FS_Singleton, FS_EmptySet
    <3>5. \/ Coming(q) = {t} /\ Leaving(q) = {} /\ U = {}
          \/ Coming(q) = {} /\ Leaving(q) = {t} /\ U = {}
          \/ Coming(q) = {} /\ Leaving(q) = {} /\ U = {t}
      BY <1>6, <3>1, <3>2
    <3>6. One(q \in Live) = 1
      BY <3>3 DEF One
    <3>7. Cardinality(Coming(q)) + Cardinality(Leaving(q)) + Cardinality(U) = 1
      <4>1. CASE Coming(q) = {t} /\ Leaving(q) = {} /\ U = {}
        BY <3>4, <4>1
      <4>2. CASE Coming(q) = {} /\ Leaving(q) = {t} /\ U = {}
        BY <3>4, <4>2
      <4>3. CASE Coming(q) = {} /\ Leaving(q) = {} /\ U = {t}
        BY <3>4, <4>3
      <4> QED  BY <3>5, <4>1, <4>2, <4>3
    <3> QED  BY <3>6, <3>7
  <2> QED  BY <2>1, <2>2
<1>8. One(q \in Live) \in Int
  BY DEF One
<1> QED  BY <1>1, <1>2, <1>4, <1>7, <1>8 DEF Balance, Surplus

-----------------------------------------------------------------------------
(* Every step of a thread keeps the invariant and the balance              *)

\* What a thread that is at w with the call c owes and is owed at the address q.
ShareOf(w, c, q) ==
    One(w \in Entering /\ c.res = q) + One(w = "free" /\ c.ptr = q)
      - One(w \in {"retrack", "lost"} /\ c.ptr = q)
Waits(w, c, q) == w \in {"untrack", "retrack", "lost", "kept"} /\ c.ptr = q

Advance ==
    /\ BaseInv'
    /\ is_exit_done' = is_exit_done /\ bad_memory' = bad_memory
    /\ \A q \in Addrs : /\ ~ is_exit_done => Balance(q)' = Balance(q)
                        /\ is_exit_done => Surplus(q)' >= Surplus(q)

\* Recs(q) grows by d, missed[q] by e.
LEMMA AccountStep ==
    ASSUME TypeOK, TypeOK', NEW t \in Threads, NEW from, NEW to, NEW c, Steps(t, from, to, c),
           NEW q \in Addrs, NEW d \in Int, Recs(q)' = Recs(q) + d,
           NEW e \in Int, missed'[q] = missed[q] + e
    PROVE  /\ d + e + One(heap[q] # NULL) - One(heap'[q] # NULL)
                + ShareOf(to, c, q) - ShareOf(from, call[t], q) = 0 => Balance(q)' = Balance(q)
           /\ d + e + One(Waits(from, call[t], q)) - One(Waits(to, c, q)) >= 0
                => Surplus(q)' >= Surplus(q)
<1>1. /\ Balance(q)' - Balance(q) = Recs(q)' - Recs(q) + missed'[q] - missed[q]
            - One(q \in Live)' + One(q \in Live) + Share(t, q)' - Share(t, q)
      /\ Surplus(q)' - Surplus(q) = Recs(q)' - Recs(q) + missed'[q] - missed[q]
            - One(t \in Pending(q))' + One(t \in Pending(q))
  BY ThreadsCount
<1>2. /\ Share(t, q) = ShareOf(from, call[t], q) /\ Share(t, q)' = ShareOf(to, c, q)
      /\ One(t \in Pending(q)) = One(Waits(from, call[t], q))
      /\ One(t \in Pending(q))' = One(Waits(to, c, q))
  BY DEF Steps, Share, ShareOf, Coming, Leaving, Gone, Pending, Waits, To, In
<1>3. One(q \in Live) = One(heap[q] # NULL) /\ One(q \in Live)' = One(heap'[q] # NULL)
  BY DEF Live
<1>4. /\ Recs(q) \in Int /\ missed[q] \in Int
      /\ Cardinality(Coming(q)) \in Int /\ Cardinality(Leaving(q)) \in Int
      /\ Cardinality(Gone(q)) \in Int /\ Cardinality(Pending(q)) \in Int
  BY CountsAreNumbers
<1>5. /\ Cardinality(Coming(q))' \in Int /\ Cardinality(Leaving(q))' \in Int
      /\ Cardinality(Gone(q))' \in Int /\ Cardinality(Pending(q))' \in Int
  <2>1. /\ Coming(q)' \in SUBSET Threads /\ Leaving(q)' \in SUBSET Threads
        /\ Gone(q)' \in SUBSET Threads /\ Pending(q)' \in SUBSET Threads
    BY DEF Coming, Leaving, Gone, Pending, To, In
  <2> QED  BY <2>1, FS_Subset, FS_CardinalityType
<1>6. \A b \in BOOLEAN : One(b) \in Int
  BY DEF One
<1>7. ShareOf(to, c, q) \in Int /\ ShareOf(from, call[t], q) \in Int
  BY DEF ShareOf, One
<1>8. Balance(q) \in Int /\ Balance(q)' \in Int /\ Surplus(q) \in Int /\ Surplus(q)' \in Int
  <2>1. One(q \in Live) \in Int /\ One(q \in Live)' \in Int
    BY DEF One
  <2> QED  BY <1>4, <1>5, <2>1 DEF Balance, Surplus
<1>9. /\ One(heap[q] # NULL) \in Int /\ One(heap'[q] # NULL) \in Int
      /\ One(Waits(from, call[t], q)) \in Int /\ One(Waits(to, c, q)) \in Int
  BY DEF One
<1>10. /\ Balance(q)' = Balance(q) + (d + e + One(heap[q] # NULL) - One(heap'[q] # NULL)
            + ShareOf(to, c, q) - ShareOf(from, call[t], q))
       /\ Surplus(q)' = Surplus(q) + (d + e + One(Waits(from, call[t], q)) - One(Waits(to, c, q)))
  BY <1>1, <1>2, <1>3, <1>4, <1>7, <1>8, <1>9
<1> QED  BY <1>7, <1>8, <1>9, <1>10

\* A step that leaves the records alone: blocks change hands.
LEMMA BlockStep ==
    ASSUME BaseInv, NEW t \in Threads, NEW from, NEW to, NEW c, Steps(t, from, to, c),
           from # "link", to # "link",
           UNCHANGED <<listVars, recVars, initVars, exitVars, endVars>>,
           pc' \in [Threads -> Pcs], call' \in [Threads -> Calls], CallInv',
           heap' \in [Addrs -> Sizes \cup {NULL}], held' \subseteq Addrs \cup Static,
           OwnInv',
           ~ is_exit_done => \A q \in Addrs :
                One(heap[q] # NULL) - One(heap'[q] # NULL)
                  + ShareOf(to, c, q) - ShareOf(from, call[t], q) = 0,
           is_exit_done => \A q \in Addrs : Waits(to, c, q) => Waits(from, call[t], q)
    PROVE  Advance
<1>1. TypeOK'
  BY DEF BaseInv, TypeOK, listVars, recVars, initVars, exitVars, endVars
<1>2. RecInv'
  BY RecordsStay
<1>3. BaseInv'
  BY <1>1, <1>2 DEF BaseInv
<1>4. UNCHANGED <<is_exit_done, bad_memory, missed, allocs, mem>>
  BY DEF listVars, recVars, exitVars, endVars
<1>5. ASSUME NEW q \in Addrs
      PROVE  /\ ~ is_exit_done => Balance(q)' = Balance(q)
             /\ is_exit_done => Surplus(q)' >= Surplus(q)
  <2>1. TypeOK /\ Recs(q) \in Int /\ missed[q] \in Int
    BY CountsAreNumbers DEF BaseInv
  <2>2. Recs(q)' = Recs(q) + 0 /\ missed'[q] = missed[q] + 0
    BY <1>4, <2>1, RecsStay
  <2>3. /\ 0 + 0 + One(heap[q] # NULL) - One(heap'[q] # NULL)
              + ShareOf(to, c, q) - ShareOf(from, call[t], q) = 0 => Balance(q)' = Balance(q)
        /\ 0 + 0 + One(Waits(from, call[t], q)) - One(Waits(to, c, q)) >= 0
              => Surplus(q)' >= Surplus(q)
    BY <1>1, <2>1, <2>2, AccountStep
  <2>4. is_exit_done => One(Waits(from, call[t], q)) - One(Waits(to, c, q)) >= 0
    BY DEF One
  <2>5. /\ One(heap[q] # NULL) \in Int /\ One(heap'[q] # NULL) \in Int
        /\ One(Waits(from, call[t], q)) \in Int /\ One(Waits(to, c, q)) \in Int
    BY DEF One
  <2> QED  BY <2>3, <2>4, <2>5
<1> QED  BY <1>3, <1>4, <1>5 DEF Advance

\* A step that drops a record of the address it was given.
LEMMA DropStep ==
    ASSUME BaseInv, NEW t \in Threads, NEW from, NEW to, NEW c, Steps(t, from, to, c),
           from \in {"untrack", "retrack", "lost", "kept"}, to \in {"idle", "free", "moved"},
           Drop(call[t].ptr),
           UNCHANGED <<heap, recVars, initVars, exitVars, bad_memory, bad_string>>,
           pc' \in [Threads -> Pcs], call' \in [Threads -> Calls], CallInv',
           held' \subseteq Addrs \cup Static, missed' \in [Addrs -> Nat], OwnInv',
           \A q \in Addrs : missed'[q] = missed[q] + One(from = "kept" /\ q = call[t].ptr),
           \A q \in Addrs :
                One(from = "kept" /\ q = call[t].ptr) - One(q = call[t].ptr)
                  + ShareOf(to, c, q) - ShareOf(from, call[t], q) = 0
    PROVE  Advance
<1>1. call[t].ptr \in Addrs /\ TypeOK
  BY DEF BaseInv, CallInv, Steps
<1>2. /\ RecInv' /\ allocs' \in Seq(Records) /\ alloc_pool' \in Seq(Records)
      /\ batched' = batched /\ alloc_count' \in Int
      /\ \A q \in Addrs : Recs(q)' = Recs(q) - One(q = call[t].ptr)
  <2>1. from # "link" /\ to # "link" /\ mem' = mem
    BY DEF recVars
  <2> QED  BY <1>1, <2>1, DropKeeps
<1>3. TypeOK'
  BY <1>1, <1>2 DEF TypeOK, recVars, initVars, exitVars
<1>4. BaseInv'
  BY <1>2, <1>3 DEF BaseInv
<1>5. ASSUME NEW q \in Addrs
      PROVE  Balance(q)' = Balance(q) /\ Surplus(q)' >= Surplus(q)
  <2> DEFINE d == 0 - One(q = call[t].ptr)
             e == One(from = "kept" /\ q = call[t].ptr)
  <2>1. d \in Int /\ e \in Int /\ e >= 0
    <3>1. CASE q = call[t].ptr
      BY <3>1 DEF One
    <3>2. CASE q # call[t].ptr
      BY <3>2 DEF One
    <3> QED  BY <3>1, <3>2
  <2>2. Recs(q) \in Int
    BY <1>1, CountsAreNumbers
  <2>3. Recs(q)' = Recs(q) + d /\ missed'[q] = missed[q] + e
    BY <1>2, <2>2 DEF One
  <2>4. d + e + One(heap[q] # NULL) - One(heap'[q] # NULL)
              + ShareOf(to, c, q) - ShareOf(from, call[t], q) = 0
    <3>1. /\ ShareOf(to, c, q) \in Int /\ ShareOf(from, call[t], q) \in Int
          /\ One(q = call[t].ptr) \in Int /\ One(heap[q] # NULL) \in Int
      BY DEF ShareOf, One
    <3>2. e - One(q = call[t].ptr) + ShareOf(to, c, q) - ShareOf(from, call[t], q) = 0
      OBVIOUS
    <3>3. d = 0 - One(q = call[t].ptr) /\ heap'[q] = heap[q]
      OBVIOUS
    <3> HIDE DEF d, e
    <3> QED  BY <2>1, <3>1, <3>2, <3>3
  <2>5. One(Waits(from, call[t], q)) = One(q = call[t].ptr) /\ One(Waits(to, c, q)) = 0
    BY DEF Waits, One
  <2>6. d + e + One(Waits(from, call[t], q)) - One(Waits(to, c, q)) >= 0
    BY <2>1, <2>5 DEF One
  <2> HIDE DEF d, e
  <2>7. /\ d + e + One(heap[q] # NULL) - One(heap'[q] # NULL)
              + ShareOf(to, c, q) - ShareOf(from, call[t], q) = 0 => Balance(q)' = Balance(q)
        /\ d + e + One(Waits(from, call[t], q)) - One(Waits(to, c, q)) >= 0
              => Surplus(q)' >= Surplus(q)
    BY <1>1, <1>3, <2>1, <2>3, AccountStep
  <2> QED  BY <2>4, <2>6, <2>7
<1> QED  BY <1>4, <1>5 DEF Advance, exitVars

-----------------------------------------------------------------------------
(* The calls                                                               *)

\* A block of the allocator, and a held one, is in no call.
LEMMA FreeToGo ==
    ASSUME BaseInv, NEW p \in Addrs, heap[p] = NULL \/ p \in held
    PROVE  /\ \A u \in Threads : ~ Owns(u, p)
           /\ heap[p] = NULL => p \notin held
BY DEF BaseInv, OwnInv

LEMMA CallIsCall == /\ NoCall \in Calls /\ NoCall.ptr = NULL /\ NoCall.res = NULL
                    /\ "idle" \in Pcs /\ "take" \in Pcs
BY DEF NoCall, Calls, Pcs

\* malloc and its like (508-543, 580-590).
LEMMA AllocateAdvances ==
    ASSUME BaseInv, NEW t \in Threads, pc[t] = "idle", NEW s \in Sizes, NEW lib \in BOOLEAN,
           Allocate(t, s, lib)
    PROVE  Advance
<1> DEFINE c(p) == [NoCall EXCEPT !.res = p, !.size = s, !.internal = lib]
<1>1. PICK p \in Addrs \ Live :
        /\ heap' = [heap EXCEPT ![p] = s]
        /\ IF Skipped THEN Return(t, p) ELSE Goto(t, "take", c(p)) /\ UNCHANGED held
        /\ UNCHANGED <<listVars, recVars, initVars, exitVars, endVars>>
  BY DEF Allocate
<1>2. p \in Addrs /\ heap[p] = NULL /\ TypeOK /\ CallInv /\ OwnInv
  BY <1>1 DEF Live, BaseInv
<1>3. (\A u \in Threads : ~ Owns(u, p)) /\ p \notin held
  BY <1>2, FreeToGo
<1>4. /\ heap' \in [Addrs -> Sizes \cup {NULL}] /\ heap'[p] = s /\ s # NULL
      /\ \A q \in Addrs \ {p} : heap'[q] = heap[q]
  BY <1>1, <1>2 DEF TypeOK
<1>5. CASE is_exit_done
  <2>1. Return(t, p)
    BY <1>1, <1>5 DEF Skipped
  <2>2. /\ pc' \in [Threads -> Pcs] /\ call' \in [Threads -> Calls] /\ CallInv'
        /\ Steps(t, "idle", "idle", NoCall) /\ held' \subseteq Addrs \cup Static
    BY <1>2, <2>1, ReturnSteps
  <2>3. held' = held \cup {p}
    BY <1>2, <2>1 DEF Return
  <2>4. \A q \in Addrs : ~ Owns(t, q)'
    BY <2>2 DEF Owns, Steps, Entering
  <2>5. OwnInv'
    <3>1. OneHand(t, p) /\ \A q \in Addrs \ {p} : SameHand(t, q)
      BY <1>3, <1>4, <2>3, <2>4 DEF SameHand, OneHand
    <3> QED  BY <1>2, <2>2, <3>1, OwnStep
  <2>6. \A q \in Addrs : ~ Waits("idle", NoCall, q)
    BY DEF Waits
  <2> QED  BY <1>1, <1>4, <1>5, <2>2, <2>5, <2>6, BlockStep
<1>6. CASE ~ is_exit_done
  <2>1. Goto(t, "take", c(p)) /\ held' = held
    BY <1>1, <1>6 DEF Skipped
  <2>2. c(p) \in Calls /\ c(p).ptr = NULL /\ c(p).res = p /\ c(p).size = s
    BY <1>2 DEF Calls, NoCall
  <2> HIDE DEF c
  <2>3. /\ pc' \in [Threads -> Pcs] /\ call' \in [Threads -> Calls] /\ CallInv'
        /\ Steps(t, "idle", "take", c(p))
    BY <1>2, <2>1, <2>2, CallIsCall, GotoSteps
  <2>4. \A q \in Addrs : Owns(t, q)' => q = p
    BY <2>2, <2>3 DEF Owns, Steps, Entering
  <2>5. OwnInv'
    <3>1. OneHand(t, p) /\ \A q \in Addrs \ {p} : SameHand(t, q)
      BY <1>3, <1>4, <2>1, <2>4 DEF SameHand, OneHand
    <3> QED  BY <1>2, <2>3, <3>1, OwnStep
  <2>6. \A q \in Addrs :
          One(heap[q] # NULL) - One(heap'[q] # NULL)
            + ShareOf("take", c(p), q) - ShareOf("idle", call[t], q) = 0
    <3>1. \A q \in Addrs : ShareOf("take", c(p), q) = One(q = p) /\ ShareOf("idle", call[t], q) = 0
      BY <2>2 DEF ShareOf, One, Entering
    <3> QED  BY <1>2, <1>4, <3>1 DEF One
  <2>7. held' \subseteq Addrs \cup Static
    BY <1>2, <2>1 DEF TypeOK
  <2> QED  BY <1>1, <1>4, <1>6, <2>3, <2>5, <2>6, <2>7, BlockStep
<1> QED  BY <1>5, <1>6

\* free (566-577).
LEMMA FreeAdvances ==
    ASSUME BaseInv, NEW t \in Threads, pc[t] = "idle", NEW p \in held, Free(t, p)
    PROVE  Advance
<1> DEFINE c == [NoCall EXCEPT !.ptr = p]
           to == IF Skipped THEN "free" ELSE "untrack"
<1>1. /\ held' = held \ {p} /\ heap' = heap
      /\ UNCHANGED <<listVars, recVars, initVars, exitVars, endVars>>
      /\ IF p \in Static THEN UNCHANGED <<pc, call>> ELSE Goto(t, to, c)
  BY DEF Free, alloc_is_static
<1>2. TypeOK /\ CallInv /\ OwnInv /\ held' \subseteq Addrs \cup Static
  BY <1>1 DEF BaseInv, TypeOK
<1>3. heap' \in [Addrs -> Sizes \cup {NULL}]
  BY <1>1, <1>2 DEF TypeOK
<1>4. CASE p \in Static
  <2>1. /\ pc' = pc /\ call' = call /\ Steps(t, "idle", "idle", call[t])
        /\ pc' \in [Threads -> Pcs] /\ call' \in [Threads -> Calls] /\ CallInv'
    BY <1>1, <1>2, <1>4 DEF TypeOK, CallInv, Steps
  <2>2. p \notin Addrs
    BY <1>4
  <2>3. \A q \in Addrs : Owns(t, q)' => Owns(t, q)
    BY <2>1 DEF Owns
  <2>4. \A q \in Addrs : q \in held' <=> q \in held
    BY <1>1, <2>2
  <2>5. OwnInv'
    BY <1>1, <1>2, <2>1, <2>3, <2>4 DEF OwnInv, Owns
  <2>6. \A q \in Addrs : One(heap[q] # NULL) - One(heap'[q] # NULL)
            + ShareOf("idle", call[t], q) - ShareOf("idle", call[t], q) = 0
    BY <1>1 DEF ShareOf, One
  <2>7. \A q \in Addrs : ~ Waits("idle", call[t], q)
    BY DEF Waits
  <2> QED  BY <1>1, <1>2, <1>3, <2>1, <2>5, <2>6, <2>7, BlockStep
<1>5. CASE p \notin Static
  <2>1. p \in Addrs /\ heap[p] # NULL /\ (\A u \in Threads : ~ Owns(u, p))
    BY <1>2, <1>5, FreeToGo DEF TypeOK, OwnInv
  <2>2. c \in Calls /\ c.ptr = p /\ c.res = NULL /\ to \in Pcs
    BY <2>1 DEF Calls, NoCall, Pcs
  <2>3. Goto(t, to, c) /\ to \in {"free", "untrack"} /\ (to = "free" <=> is_exit_done)
    BY <1>1, <1>5 DEF Skipped
  <2> HIDE DEF c, to
  <2>4. /\ pc' \in [Threads -> Pcs] /\ call' \in [Threads -> Calls] /\ CallInv'
        /\ Steps(t, "idle", to, c)
    BY <1>2, <2>1, <2>2, <2>3, GotoSteps DEF Entering
  <2>5. \A q \in Addrs : Owns(t, q)' => q = p
    BY <2>2, <2>3, <2>4 DEF Owns, Steps, Entering
  <2>6. OwnInv'
    <3>1. OneHand(t, p) /\ \A q \in Addrs \ {p} : SameHand(t, q)
      BY <1>1, <2>1, <2>5 DEF SameHand, OneHand
    <3> QED  BY <1>2, <2>4, <3>1, OwnStep
  <2>7. ~ is_exit_done => \A q \in Addrs : One(heap[q] # NULL) - One(heap'[q] # NULL)
            + ShareOf(to, c, q) - ShareOf("idle", call[t], q) = 0
    BY <1>1, <2>3 DEF ShareOf, One, Entering
  <2>8. is_exit_done => \A q \in Addrs : ~ Waits(to, c, q)
    BY <2>3 DEF Waits
  <2> QED  BY <1>1, <1>2, <1>3, <2>3, <2>4, <2>6, <2>7, <2>8, BlockStep
<1> QED  BY <1>4, <1>5

\* default_free (575).
LEMMA ReleaseAdvances ==
    ASSUME BaseInv, NEW t \in Threads, Release(t)
    PROVE  Advance
<1> PICK p : p = call[t].ptr
  OBVIOUS
<1>1. /\ pc[t] = "free" /\ heap' = [heap EXCEPT ![p] = NULL] /\ Return(t, NULL)
      /\ UNCHANGED <<listVars, recVars, initVars, exitVars, endVars>>
  BY DEF Release
<1>2. TypeOK /\ CallInv /\ OwnInv /\ p \in Addrs
  BY <1>1 DEF BaseInv, CallInv
<1>3. /\ pc' \in [Threads -> Pcs] /\ call' \in [Threads -> Calls] /\ CallInv'
      /\ Steps(t, "free", "idle", NoCall) /\ held' \subseteq Addrs \cup Static
  BY <1>1, <1>2, ReturnSteps
<1>4. Owns(t, p) /\ heap[p] # NULL /\ p \notin held /\ \A u \in Threads \ {t} : ~ Owns(u, p)
  BY <1>1, <1>2 DEF Owns, OwnInv
<1>5. /\ heap' \in [Addrs -> Sizes \cup {NULL}] /\ heap'[p] = NULL
      /\ \A q \in Addrs \ {p} : heap'[q] = heap[q]
  BY <1>1, <1>2 DEF TypeOK
<1>6. held' = held
  BY <1>1 DEF Return
<1>7. \A q \in Addrs : ~ Owns(t, q)'
  BY <1>3 DEF Owns, Steps, Entering
<1>8. OwnInv'
  <2>1. OneHand(t, p) /\ \A q \in Addrs \ {p} : SameHand(t, q)
    BY <1>2, <1>4, <1>5, <1>6, <1>7 DEF SameHand, OneHand
  <2> QED  BY <1>2, <1>3, <2>1, OwnStep
<1>9. \A q \in Addrs : One(heap[q] # NULL) - One(heap'[q] # NULL)
          + ShareOf("idle", NoCall, q) - ShareOf("free", call[t], q) = 0
  <2>1. \A q \in Addrs : ShareOf("idle", NoCall, q) = 0 /\ ShareOf("free", call[t], q) = One(q = p)
    BY DEF ShareOf, One, Entering
  <2> QED  BY <1>4, <1>5, <2>1 DEF One
<1>10. \A q \in Addrs : ~ Waits("idle", NoCall, q)
  BY DEF Waits
<1> QED  BY <1>1, <1>3, <1>5, <1>8, <1>9, <1>10, BlockStep

\* realloc of a static block (550-554).
LEMMA ReallocStaticAdvances ==
    ASSUME BaseInv, NEW t \in Threads, pc[t] = "idle", NEW p \in held, NEW s \in Sizes,
           ReallocStatic(t, p, s)
    PROVE  Advance
<1> DEFINE c(q) == [NoCall EXCEPT !.res = q, !.size = s]
<1>1. PICK q \in Addrs \ Live :
        /\ p \in Static
        /\ heap' = [heap EXCEPT ![q] = s]
        /\ IF is_exit_done THEN Goto(t, "idle", NoCall) /\ held' = (held \ {p}) \cup {q}
           ELSE Goto(t, "take", c(q)) /\ held' = held \ {p}
        /\ UNCHANGED <<listVars, recVars, initVars, exitVars, endVars>>
  BY DEF ReallocStatic, alloc_is_static, Skipped
<1>2. q \in Addrs /\ heap[q] = NULL /\ p \notin Addrs /\ TypeOK /\ CallInv /\ OwnInv
  BY <1>1 DEF Live, BaseInv
<1>3. (\A u \in Threads : ~ Owns(u, q)) /\ q \notin held
  BY <1>2, FreeToGo
<1>4. /\ heap' \in [Addrs -> Sizes \cup {NULL}] /\ heap'[q] = s /\ s # NULL
      /\ \A x \in Addrs \ {q} : heap'[x] = heap[x]
  BY <1>1, <1>2 DEF TypeOK
<1>5. held' \subseteq Addrs \cup Static /\ \A x \in Addrs \ {q} : x \in held' <=> x \in held
  BY <1>1, <1>2 DEF TypeOK
<1>6. CASE is_exit_done
  <2>1. Goto(t, "idle", NoCall)
    BY <1>1, <1>6
  <2>2. /\ pc' \in [Threads -> Pcs] /\ call' \in [Threads -> Calls] /\ CallInv'
        /\ Steps(t, "idle", "idle", NoCall)
    BY <1>2, <2>1, CallIsCall, GotoSteps DEF Entering
  <2>3. \A x \in Addrs : ~ Owns(t, x)'
    BY <2>2 DEF Owns, Steps, Entering
  <2>4. OneHand(t, q) /\ \A x \in Addrs \ {q} : SameHand(t, x)
    BY <1>2, <1>3, <1>4, <1>5, <2>3 DEF SameHand, OneHand
  <2>5. OwnInv'
    BY <1>2, <2>2, <2>4, OwnStep
  <2>6. \A x \in Addrs : ~ Waits("idle", NoCall, x)
    BY DEF Waits
  <2> QED  BY <1>1, <1>4, <1>5, <1>6, <2>2, <2>5, <2>6, BlockStep
<1>7. CASE ~ is_exit_done
  <2>1. Goto(t, "take", c(q)) /\ held' = held \ {p}
    BY <1>1, <1>7
  <2>2. c(q) \in Calls /\ c(q).ptr = NULL /\ c(q).res = q /\ c(q).size = s
    BY <1>2 DEF Calls, NoCall
  <2> HIDE DEF c
  <2>3. /\ pc' \in [Threads -> Pcs] /\ call' \in [Threads -> Calls] /\ CallInv'
        /\ Steps(t, "idle", "take", c(q))
    BY <1>2, <2>1, <2>2, CallIsCall, GotoSteps
  <2>4. \A x \in Addrs : Owns(t, x)' => x = q
    BY <2>2, <2>3 DEF Owns, Steps, Entering
  <2>5. OneHand(t, q) /\ \A x \in Addrs \ {q} : SameHand(t, x)
    BY <1>2, <1>3, <1>4, <1>5, <2>1, <2>4 DEF SameHand, OneHand
  <2>6. OwnInv'
    BY <1>2, <2>3, <2>5, OwnStep
  <2>7. \A x \in Addrs :
          One(heap[x] # NULL) - One(heap'[x] # NULL)
            + ShareOf("take", c(q), x) - ShareOf("idle", call[t], x) = 0
    <3>1. \A x \in Addrs : ShareOf("take", c(q), x) = One(x = q) /\ ShareOf("idle", call[t], x) = 0
      BY <2>2 DEF ShareOf, One, Entering
    <3> QED  BY <1>2, <1>4, <3>1 DEF One
  <2> QED  BY <1>1, <1>4, <1>5, <1>7, <2>3, <2>6, <2>7, BlockStep
<1> QED  BY <1>6, <1>7

\* realloc that leaves the block where it is (557).
LEMMA ReallocInPlaceAdvances ==
    ASSUME BaseInv, NEW t \in Threads, pc[t] = "idle", NEW p \in held \cap Addrs, NEW s \in Sizes,
           ReallocInPlace(p, s)
    PROVE  Advance
<1>1. /\ heap' = [heap EXCEPT ![p] = s] /\ held' = held /\ pc' = pc /\ call' = call
      /\ UNCHANGED <<listVars, recVars, initVars, exitVars, endVars>>
  BY DEF ReallocInPlace
<1>2. TypeOK /\ CallInv /\ OwnInv /\ heap[p] # NULL
  BY DEF BaseInv, OwnInv
<1>3. heap' \in [Addrs -> Sizes \cup {NULL}] /\ \A x \in Addrs : heap'[x] # NULL <=> heap[x] # NULL
  BY <1>1, <1>2 DEF TypeOK
<1>4. /\ pc' \in [Threads -> Pcs] /\ call' \in [Threads -> Calls] /\ CallInv'
      /\ Steps(t, "idle", "idle", call[t]) /\ held' \subseteq Addrs \cup Static
  BY <1>1, <1>2 DEF TypeOK, CallInv, Steps
<1>5. \A x \in Addrs : SameHand(t, x)
  BY <1>1, <1>3 DEF SameHand, Owns
<1>6. OwnInv'
  BY <1>2, <1>4, <1>5, OwnStep
<1>7. \A x \in Addrs : One(heap[x] # NULL) - One(heap'[x] # NULL)
          + ShareOf("idle", call[t], x) - ShareOf("idle", call[t], x) = 0
  BY <1>3 DEF ShareOf, One
<1> QED  BY <1>1, <1>3, <1>4, <1>6, <1>7, BlockStep

\* realloc to another address, the old block being gone at once (552, 557).
LEMMA ReallocMoveAdvances ==
    ASSUME BaseInv, NEW t \in Threads, pc[t] = "idle", NEW p \in held \cap Addrs, NEW s \in Sizes,
           ReallocMove(t, p, s)
    PROVE  Advance
<1>1. PICK q \in Addrs \ Live :
        /\ heap' = [heap EXCEPT ![p] = NULL, ![q] = s]
        /\ IF is_exit_done THEN Goto(t, "idle", NoCall) /\ held' = (held \ {p}) \cup {q}
           ELSE Goto(t, "retrack", MoveCall(p, q, s)) /\ held' = held \ {p}
        /\ UNCHANGED <<listVars, recVars, initVars, exitVars, endVars>>
  BY DEF ReallocMove, Skipped
<1>2. q \in Addrs /\ heap[q] = NULL /\ TypeOK /\ CallInv /\ OwnInv /\ heap[p] # NULL /\ p # q
  BY <1>1 DEF Live, BaseInv, OwnInv
<1>3. (\A u \in Threads : ~ Owns(u, q) /\ ~ Owns(u, p)) /\ q \notin held
  BY <1>2, FreeToGo
<1>4. /\ heap' \in [Addrs -> Sizes \cup {NULL}] /\ heap'[q] = s /\ s # NULL /\ heap'[p] = NULL
      /\ \A x \in Addrs \ {p, q} : heap'[x] = heap[x]
  BY <1>1, <1>2 DEF TypeOK
<1>5. /\ held' \subseteq Addrs \cup Static /\ p \notin held'
      /\ \A x \in Addrs \ {p, q} : x \in held' <=> x \in held
  BY <1>1, <1>2 DEF TypeOK
<1>6. CASE is_exit_done
  <2>1. Goto(t, "idle", NoCall)
    BY <1>1, <1>6
  <2>2. /\ pc' \in [Threads -> Pcs] /\ call' \in [Threads -> Calls] /\ CallInv'
        /\ Steps(t, "idle", "idle", NoCall)
    BY <1>2, <2>1, CallIsCall, GotoSteps DEF Entering
  <2>3. \A x \in Addrs : ~ Owns(t, x)'
    BY <2>2 DEF Owns, Steps, Entering
  <2>4. OneHand(t, p) /\ OneHand(t, q) /\ \A x \in Addrs \ {p, q} : SameHand(t, x)
    BY <1>2, <1>3, <1>4, <1>5, <2>3 DEF SameHand, OneHand
  <2>5. OwnInv'
    BY <1>2, <2>2, <2>4, OwnStep
  <2>6. \A x \in Addrs : ~ Waits("idle", NoCall, x)
    BY DEF Waits
  <2> QED  BY <1>1, <1>4, <1>5, <1>6, <2>2, <2>5, <2>6, BlockStep
<1>7. CASE ~ is_exit_done
  <2> DEFINE c == MoveCall(p, q, s)
  <2>1. Goto(t, "retrack", c) /\ held' = held \ {p}
    BY <1>1, <1>7
  <2>2. c \in Calls /\ c.ptr = p /\ c.res = q /\ c.size = s /\ "retrack" \in Pcs
    BY <1>2 DEF Calls, NoCall, MoveCall, Pcs
  <2> HIDE DEF c
  <2>3. /\ pc' \in [Threads -> Pcs] /\ call' \in [Threads -> Calls] /\ CallInv'
        /\ Steps(t, "idle", "retrack", c)
    BY <1>2, <2>1, <2>2, GotoSteps
  <2>4. \A x \in Addrs : Owns(t, x)' => x = q
    BY <2>2, <2>3 DEF Owns, Steps, Entering
  <2>5. OneHand(t, p) /\ OneHand(t, q) /\ \A x \in Addrs \ {p, q} : SameHand(t, x)
    BY <1>2, <1>3, <1>4, <1>5, <2>1, <2>4 DEF SameHand, OneHand
  <2>6. OwnInv'
    BY <1>2, <2>3, <2>5, OwnStep
  <2>7. \A x \in Addrs :
          One(heap[x] # NULL) - One(heap'[x] # NULL)
            + ShareOf("retrack", c, x) - ShareOf("idle", call[t], x) = 0
    <3>1. \A x \in Addrs : /\ ShareOf("retrack", c, x) = One(x = q) - One(x = p)
                           /\ ShareOf("idle", call[t], x) = 0
      BY <2>2 DEF ShareOf, One, Entering
    <3> QED  BY <1>2, <1>4, <3>1 DEF One
  <2> QED  BY <1>1, <1>4, <1>5, <1>7, <2>3, <2>6, <2>7, BlockStep
<1> QED  BY <1>6, <1>7

\* realloc to the size 0 (552, 555).
LEMMA ReallocFreeAdvances ==
    ASSUME BaseInv, NEW t \in Threads, pc[t] = "idle", NEW p \in held \cap Addrs,
           ReallocFree(t, p)
    PROVE  Advance
<1> DEFINE b == [NoCall EXCEPT !.ptr = p]
<1>1. /\ heap' = [heap EXCEPT ![p] = NULL] /\ held' = held \ {p}
      /\ IF is_exit_done THEN UNCHANGED <<pc, call>> ELSE Goto(t, "lost", b)
      /\ UNCHANGED <<listVars, recVars, initVars, exitVars, endVars>>
  BY DEF ReallocFree, Skipped
<1>2. TypeOK /\ CallInv /\ OwnInv /\ heap[p] # NULL /\ \A u \in Threads : ~ Owns(u, p)
  BY FreeToGo DEF BaseInv, OwnInv
<1>3. /\ heap' \in [Addrs -> Sizes \cup {NULL}] /\ heap'[p] = NULL
      /\ \A x \in Addrs \ {p} : heap'[x] = heap[x]
      /\ held' \subseteq Addrs \cup Static
  BY <1>1, <1>2 DEF TypeOK
<1>4. CASE is_exit_done
  <2>1. /\ pc' = pc /\ call' = call /\ Steps(t, "idle", "idle", call[t])
        /\ pc' \in [Threads -> Pcs] /\ call' \in [Threads -> Calls] /\ CallInv'
    BY <1>1, <1>2, <1>4 DEF TypeOK, CallInv, Steps
  <2>2. OneHand(t, p) /\ \A x \in Addrs \ {p} : SameHand(t, x)
    BY <1>1, <1>2, <1>3, <2>1 DEF SameHand, OneHand, Owns
  <2>3. OwnInv'
    BY <1>2, <2>1, <2>2, OwnStep
  <2>4. \A x \in Addrs : ~ Waits("idle", call[t], x)
    BY DEF Waits
  <2> QED  BY <1>1, <1>3, <1>4, <2>1, <2>3, <2>4, BlockStep
<1>5. CASE ~ is_exit_done
  <2>1. b \in Calls /\ b.ptr = p /\ b.res = NULL /\ "lost" \in Pcs
    BY DEF Calls, NoCall, Pcs
  <2>2. Goto(t, "lost", b)
    BY <1>1, <1>5
  <2> HIDE DEF b
  <2>3. /\ pc' \in [Threads -> Pcs] /\ call' \in [Threads -> Calls] /\ CallInv'
        /\ Steps(t, "idle", "lost", b)
    BY <1>2, <2>1, <2>2, GotoSteps DEF Entering
  <2>4. \A x \in Addrs : ~ Owns(t, x)'
    BY <2>3 DEF Owns, Steps, Entering
  <2>5. OneHand(t, p) /\ \A x \in Addrs \ {p} : SameHand(t, x)
    BY <1>1, <1>2, <1>3, <2>4 DEF SameHand, OneHand
  <2>6. OwnInv'
    BY <1>2, <2>3, <2>5, OwnStep
  <2>7. \A x \in Addrs :
          One(heap[x] # NULL) - One(heap'[x] # NULL)
            + ShareOf("lost", b, x) - ShareOf("idle", call[t], x) = 0
    <3>1. \A x \in Addrs : ShareOf("lost", b, x) = 0 - One(x = p) /\ ShareOf("idle", call[t], x) = 0
      BY <2>1 DEF ShareOf, One, Entering
    <3> QED  BY <1>2, <1>3, <3>1 DEF One
  <2> QED  BY <1>1, <1>3, <1>5, <2>3, <2>6, <2>7, BlockStep
<1> QED  BY <1>4, <1>5

\* realloc without memory (552, 555).
LEMMA ReallocFailAdvances ==
    ASSUME BaseInv, NEW t \in Threads, pc[t] = "idle", NEW p \in held \cap Addrs,
           ReallocFail(t, p)
    PROVE  Advance
<1> DEFINE b == [NoCall EXCEPT !.ptr = p]
<1>1. /\ heap' = heap /\ held' = held \ {p} /\ ~ is_exit_done /\ Goto(t, "kept", b)
      /\ UNCHANGED <<listVars, recVars, initVars, exitVars, endVars>>
  BY DEF ReallocFail, Skipped
<1>2. TypeOK /\ CallInv /\ OwnInv /\ heap[p] # NULL /\ \A u \in Threads : ~ Owns(u, p)
  BY FreeToGo DEF BaseInv, OwnInv
<1>3. heap' \in [Addrs -> Sizes \cup {NULL}] /\ held' \subseteq Addrs \cup Static
  BY <1>1, <1>2 DEF TypeOK
<1>4. b \in Calls /\ b.ptr = p /\ b.res = NULL /\ "kept" \in Pcs
  BY DEF Calls, NoCall, Pcs
<1> HIDE DEF b
<1>5. /\ pc' \in [Threads -> Pcs] /\ call' \in [Threads -> Calls] /\ CallInv'
      /\ Steps(t, "idle", "kept", b)
  BY <1>1, <1>2, <1>4, GotoSteps DEF Entering
<1>6. \A x \in Addrs : Owns(t, x)' => x = p
  BY <1>4, <1>5 DEF Owns, Steps, Entering
<1>7. OneHand(t, p) /\ \A x \in Addrs \ {p} : SameHand(t, x)
  BY <1>1, <1>2, <1>6 DEF SameHand, OneHand
<1>8. OwnInv'
  BY <1>2, <1>5, <1>7, OwnStep
<1>9. \A x \in Addrs : One(heap[x] # NULL) - One(heap'[x] # NULL)
            + ShareOf("kept", b, x) - ShareOf("idle", call[t], x) = 0
  BY <1>1 DEF ShareOf, One, Entering
<1> QED  BY <1>1, <1>3, <1>5, <1>8, <1>9, BlockStep

\* The second look of realloc at is_exit_done (559).
LEMMA MovedAdvances ==
    ASSUME BaseInv, NEW t \in Threads, Moved(t)
    PROVE  Advance
<1> PICK q : q = call[t].res
  OBVIOUS
<1>1. /\ pc[t] = "moved" /\ heap' = heap
      /\ IF is_exit_done THEN Return(t, q) ELSE Goto(t, "take", call[t]) /\ held' = held
      /\ UNCHANGED <<listVars, recVars, initVars, exitVars, endVars>>
  BY DEF Moved, Skipped
<1>2. TypeOK /\ CallInv /\ OwnInv /\ q \in Addrs /\ call[t].size \in Sizes /\ call[t] \in Calls
  BY <1>1 DEF BaseInv, CallInv, Entering, TypeOK
<1>3. heap' \in [Addrs -> Sizes \cup {NULL}]
  BY <1>1, <1>2 DEF TypeOK
<1>4. Owns(t, q) /\ heap[q] # NULL /\ q \notin held /\ \A u \in Threads \ {t} : ~ Owns(u, q)
  BY <1>1, <1>2 DEF Owns, OwnInv, Entering
<1>5. CASE is_exit_done
  <2>1. /\ pc' \in [Threads -> Pcs] /\ call' \in [Threads -> Calls] /\ CallInv'
        /\ Steps(t, "moved", "idle", NoCall) /\ held' \subseteq Addrs \cup Static
    BY <1>1, <1>2, <1>5, ReturnSteps
  <2>2. held' = held \cup {q}
    BY <1>1, <1>2, <1>5 DEF Return
  <2>3. \A x \in Addrs : ~ Owns(t, x)'
    BY <2>1 DEF Owns, Steps, Entering
  <2>4. OneHand(t, q) /\ \A x \in Addrs \ {q} : SameHand(t, x)
    BY <1>1, <1>2, <1>4, <2>2, <2>3 DEF SameHand, OneHand
  <2>5. OwnInv'
    BY <1>2, <2>1, <2>4, OwnStep
  <2>6. \A x \in Addrs : ~ Waits("idle", NoCall, x)
    BY DEF Waits
  <2> QED  BY <1>1, <1>3, <1>5, <2>1, <2>5, <2>6, BlockStep
<1>6. CASE ~ is_exit_done
  <2>1. Goto(t, "take", call[t]) /\ held' = held
    BY <1>1, <1>6
  <2>2. /\ pc' \in [Threads -> Pcs] /\ call' \in [Threads -> Calls] /\ CallInv'
        /\ Steps(t, "moved", "take", call[t])
    BY <1>1, <1>2, <2>1, CallIsCall, GotoSteps
  <2>3. \A x \in Addrs : SameHand(t, x)
    BY <1>1, <2>1, <2>2 DEF SameHand, Owns, Steps, Entering
  <2>4. OwnInv'
    BY <1>2, <2>2, <2>3, OwnStep
  <2>5. \A x \in Addrs : One(heap[x] # NULL) - One(heap'[x] # NULL)
            + ShareOf("take", call[t], x) - ShareOf("moved", call[t], x) = 0
    BY <1>1 DEF ShareOf, One, Entering
  <2>6. held' \subseteq Addrs \cup Static
    BY <1>2, <2>1 DEF TypeOK
  <2> QED  BY <1>1, <1>3, <1>6, <2>2, <2>4, <2>5, <2>6, BlockStep
<1> QED  BY <1>5, <1>6

-----------------------------------------------------------------------------
(* The steps under allocs_lock                                             *)

\* alloc_free of free (574, 213-226).
LEMMA UntrackAdvances ==
    ASSUME BaseInv, NEW t \in Threads, Untrack(t), ~ Abort(call[t].ptr)
    PROVE  Advance
<1>1. /\ pc[t] = "untrack" /\ Drop(call[t].ptr) /\ Goto(t, "free", call[t])
      /\ UNCHANGED <<heap, held, recVars, initVars, exitVars, endVars>>
  BY DEF Untrack
<1>2. TypeOK /\ CallInv /\ OwnInv /\ call[t] \in Calls /\ call[t].ptr \in Addrs /\ "free" \in Pcs
  BY <1>1 DEF BaseInv, CallInv, TypeOK, Pcs
<1>3. /\ pc' \in [Threads -> Pcs] /\ call' \in [Threads -> Calls] /\ CallInv'
      /\ Steps(t, "untrack", "free", call[t])
  BY <1>1, <1>2, GotoSteps DEF Entering
<1>4. \A x \in Addrs : SameHand(t, x)
  BY <1>1, <1>3 DEF SameHand, Owns, Steps, Entering
<1>5. OwnInv'
  BY <1>2, <1>3, <1>4, OwnStep
<1>6. UNCHANGED <<heap, recVars, initVars, exitVars, bad_memory, bad_string, missed, held>>
  BY <1>1 DEF endVars
<1>7. held' \subseteq Addrs \cup Static /\ missed' \in [Addrs -> Nat]
      /\ \A q \in Addrs : missed'[q] = missed[q] + One("untrack" = "kept" /\ q = call[t].ptr)
  BY <1>2, <1>6 DEF TypeOK, One
<1>8. \A q \in Addrs :
        One("untrack" = "kept" /\ q = call[t].ptr) - One(q = call[t].ptr)
          + ShareOf("free", call[t], q) - ShareOf("untrack", call[t], q) = 0
  BY DEF One, ShareOf, Entering
<1> QED  BY <1>1, <1>3, <1>5, <1>6, <1>7, <1>8, DropStep

\* alloc_free of a realloc that moved the block (558).
LEMMA RetrackAdvances ==
    ASSUME BaseInv, NEW t \in Threads, Retrack(t), ~ Abort(call[t].ptr)
    PROVE  Advance
<1>1. /\ pc[t] = "retrack" /\ Drop(call[t].ptr) /\ Goto(t, "moved", call[t])
      /\ UNCHANGED <<heap, held, recVars, initVars, exitVars, endVars>>
  BY DEF Retrack
<1>2. /\ TypeOK /\ CallInv /\ OwnInv /\ call[t] \in Calls /\ "moved" \in Pcs
      /\ call[t].ptr \in Addrs /\ call[t].res \in Addrs /\ call[t].size \in Sizes
  BY <1>1 DEF BaseInv, CallInv, TypeOK, Pcs, Entering
<1>3. /\ pc' \in [Threads -> Pcs] /\ call' \in [Threads -> Calls] /\ CallInv'
      /\ Steps(t, "retrack", "moved", call[t])
  BY <1>1, <1>2, GotoSteps
<1>4. \A x \in Addrs : SameHand(t, x)
  BY <1>1, <1>3 DEF SameHand, Owns, Steps, Entering
<1>5. OwnInv'
  BY <1>2, <1>3, <1>4, OwnStep
<1>6. UNCHANGED <<heap, recVars, initVars, exitVars, bad_memory, bad_string, missed, held>>
  BY <1>1 DEF endVars
<1>7. held' \subseteq Addrs \cup Static /\ missed' \in [Addrs -> Nat]
      /\ \A q \in Addrs : missed'[q] = missed[q] + One("retrack" = "kept" /\ q = call[t].ptr)
  BY <1>2, <1>6 DEF TypeOK, One
<1>8. \A q \in Addrs :
        One("retrack" = "kept" /\ q = call[t].ptr) - One(q = call[t].ptr)
          + ShareOf("moved", call[t], q) - ShareOf("retrack", call[t], q) = 0
  BY DEF One, ShareOf, Entering
<1> QED  BY <1>1, <1>3, <1>5, <1>6, <1>7, <1>8, DropStep

\* The same of a realloc to the size 0 (556).
LEMMA LostAdvances ==
    ASSUME BaseInv, NEW t \in Threads, Lost(t), ~ Abort(call[t].ptr)
    PROVE  Advance
<1>1. /\ pc[t] = "lost" /\ Drop(call[t].ptr) /\ Return(t, NULL)
      /\ UNCHANGED <<heap, recVars, initVars, exitVars, endVars>>
  BY DEF Lost
<1>2. TypeOK /\ CallInv /\ OwnInv
  BY DEF BaseInv
<1>3. /\ pc' \in [Threads -> Pcs] /\ call' \in [Threads -> Calls] /\ CallInv'
      /\ Steps(t, "lost", "idle", NoCall) /\ held' = held
  BY <1>1, <1>2, ReturnSteps DEF Return
<1>4. \A x \in Addrs : SameHand(t, x)
  BY <1>1, <1>3 DEF SameHand, Owns, Steps, Entering
<1>5. OwnInv'
  BY <1>2, <1>3, <1>4, OwnStep
<1>6. UNCHANGED <<heap, recVars, initVars, exitVars, bad_memory, bad_string, missed, held>>
  BY <1>1, <1>3 DEF endVars
<1>7. held' \subseteq Addrs \cup Static /\ missed' \in [Addrs -> Nat]
      /\ \A q \in Addrs : missed'[q] = missed[q] + One("lost" = "kept" /\ q = call[t].ptr)
  BY <1>2, <1>6 DEF TypeOK, One
<1>8. \A q \in Addrs :
        One("lost" = "kept" /\ q = call[t].ptr) - One(q = call[t].ptr)
          + ShareOf("idle", NoCall, q) - ShareOf("lost", call[t], q) = 0
  BY DEF One, ShareOf, Entering
<1> QED  BY <1>1, <1>3, <1>5, <1>6, <1>7, <1>8, DropStep

\* The same of a realloc that failed: the block goes back to the caller.
LEMMA KeptAdvances ==
    ASSUME BaseInv, NEW t \in Threads, Kept(t), ~ Abort(call[t].ptr)
    PROVE  Advance
<1> PICK p : p = call[t].ptr
  OBVIOUS
<1>1. /\ pc[t] = "kept" /\ Drop(p) /\ Return(t, p) /\ missed' = [missed EXCEPT ![p] = @ + 1]
      /\ UNCHANGED <<heap, recVars, initVars, exitVars, bad_memory, bad_string>>
  BY DEF Kept
<1>2. TypeOK /\ CallInv /\ OwnInv /\ p \in Addrs
  BY <1>1 DEF BaseInv, CallInv
<1>3. /\ pc' \in [Threads -> Pcs] /\ call' \in [Threads -> Calls] /\ CallInv'
      /\ Steps(t, "kept", "idle", NoCall) /\ held' = held \cup {p}
      /\ held' \subseteq Addrs \cup Static
  BY <1>1, <1>2, ReturnSteps DEF Return
<1>4. Owns(t, p) /\ heap[p] # NULL /\ p \notin held /\ \A u \in Threads \ {t} : ~ Owns(u, p)
  BY <1>1, <1>2 DEF Owns, OwnInv
<1>5. \A x \in Addrs : ~ Owns(t, x)'
  BY <1>3 DEF Owns, Steps, Entering
<1>6. OneHand(t, p) /\ \A x \in Addrs \ {p} : SameHand(t, x)
  BY <1>1, <1>2, <1>3, <1>4, <1>5 DEF SameHand, OneHand
<1>7. OwnInv'
  BY <1>2, <1>3, <1>6, OwnStep
<1>8. missed' \in [Addrs -> Nat]
      /\ \A q \in Addrs : missed'[q] = missed[q] + One("kept" = "kept" /\ q = call[t].ptr)
  BY <1>1, <1>2 DEF TypeOK, One
<1>9. \A q \in Addrs :
        One("kept" = "kept" /\ q = call[t].ptr) - One(q = call[t].ptr)
          + ShareOf("idle", NoCall, q) - ShareOf("kept", call[t], q) = 0
  BY DEF One, ShareOf, Entering
<1>10. Drop(call[t].ptr)
  BY <1>1
<1> QED  BY <1>1, <1>3, <1>7, <1>8, <1>9, <1>10, DropStep

\* The first lock of alloc_trace_new (168-185): the record is in no list.
LEMMA TakeRecordAdvances ==
    ASSUME BaseInv, NEW t \in Threads, TakeRecord(t)
    PROVE  Advance
<1>0. /\ TypeOK /\ CallInv /\ RecInv /\ RecordsApart /\ OwnInv
      /\ allocs \in Seq(Records) /\ alloc_pool \in Seq(Records) /\ batched \in 0 .. MaxRecords
      /\ IsInjective(alloc_pool)
  BY DEF BaseInv, RecInv, TypeOK, RecordsApart
<1>1. /\ pc[t] = "take"
      /\ UNCHANGED <<heap, held, allocs, alloc_count, recVars, initVars, exitVars, endVars>>
  BY DEF TakeRecord
<1>2. \E a \in Records :
        /\ Goto(t, "link", [call[t] EXCEPT !.a = a])
        /\ alloc_pool' \in Seq(Records) /\ IsInjective(alloc_pool')
        /\ ToSet(alloc_pool') = ToSet(alloc_pool) \ {a}
        /\ a \notin ToSet(allocs) /\ a \notin InHand
        /\ batched' \in 0 .. MaxRecords /\ batched <= batched' /\ a <= batched'
  <2>1. CASE alloc_pool # << >>
    <3>1. /\ Goto(t, "link", [call[t] EXCEPT !.a = Head(alloc_pool)])
          /\ alloc_pool' = Tail(alloc_pool) /\ batched' = batched
      BY <2>1 DEF TakeRecord, PoolRest
    <3>2. /\ Head(alloc_pool) \in Records /\ Head(alloc_pool) \in ToSet(alloc_pool)
          /\ Tail(alloc_pool) \in Seq(Records) /\ IsInjective(Tail(alloc_pool))
          /\ ToSet(Tail(alloc_pool)) = ToSet(alloc_pool) \ {Head(alloc_pool)}
      BY <1>0, <2>1, TailKeeps
    <3>3. Head(alloc_pool) \notin ToSet(allocs) /\ Head(alloc_pool) \notin InHand
      BY <1>0, <3>2 DEF RecordsApart
    <3>4. Head(alloc_pool) <= batched
      BY <1>0, <3>2 DEF RecInv
    <3>5. batched <= batched
      BY <1>0
    <3> QED  BY <1>0, <3>1, <3>2, <3>3, <3>4, <3>5
  <2>2. CASE alloc_pool = << >>
    <3>1. /\ batched < MaxRecords /\ Goto(t, "link", [call[t] EXCEPT !.a = batched + 1])
          /\ batched' = batched + 1 /\ alloc_pool' = alloc_pool
      BY <2>2 DEF TakeRecord
    <3>2. /\ batched + 1 \in Records /\ batched' \in 0 .. MaxRecords /\ batched <= batched'
          /\ ~ (batched + 1 <= batched)
      BY <1>0, <3>1 DEF Records
    <3>3. /\ batched + 1 \notin ToSet(allocs) /\ batched + 1 \notin InHand
          /\ batched + 1 \notin ToSet(alloc_pool)
      BY <1>0, <3>2 DEF RecInv
    <3>4. ToSet(alloc_pool') = ToSet(alloc_pool) \ {batched + 1} /\ batched + 1 <= batched'
      BY <1>0, <3>1, <3>2, <3>3
    <3> QED  BY <1>0, <3>1, <3>2, <3>3, <3>4
  <2> QED  BY <2>1, <2>2
<1>3. PICK a \in Records :
        /\ Goto(t, "link", [call[t] EXCEPT !.a = a])
        /\ alloc_pool' \in Seq(Records) /\ IsInjective(alloc_pool')
        /\ ToSet(alloc_pool') = ToSet(alloc_pool) \ {a}
        /\ a \notin ToSet(allocs) /\ a \notin InHand
        /\ batched' \in 0 .. MaxRecords /\ batched <= batched' /\ a <= batched'
  BY <1>2
<1> DEFINE c == [call[t] EXCEPT !.a = a]
<1>4. /\ c \in Calls /\ "link" \in Pcs /\ c.a = a /\ c.ptr = call[t].ptr /\ c.res = call[t].res
      /\ c.size = call[t].size /\ c.res \in Addrs /\ c.size \in Sizes
  <2>1. call[t] \in Calls
    BY <1>0 DEF TypeOK
  <2>2. call[t].res \in Addrs /\ call[t].size \in Sizes /\ "link" \in Pcs
    BY <1>0, <1>1 DEF CallInv, Entering, Pcs
  <2>3. c \in Calls /\ c.a = a /\ c.ptr = call[t].ptr /\ c.res = call[t].res /\ c.size = call[t].size
    BY <2>1 DEF Calls
  <2> QED  BY <2>2, <2>3
<1>5. Goto(t, "link", c)
  BY <1>3
<1> HIDE DEF c
<1>6. /\ pc' \in [Threads -> Pcs] /\ call' \in [Threads -> Calls] /\ CallInv'
      /\ Steps(t, "take", "link", c)
  BY <1>0, <1>1, <1>4, <1>5, GotoSteps
<1>7. TypeOK'
  BY <1>0, <1>1, <1>3, <1>6 DEF TypeOK, recVars, initVars, exitVars, endVars
<1>8. InHand' = InHand \cup {a}
  <2>1. \A u \in Threads : pc'[u] = "link" <=> u = t \/ pc[u] = "link"
    BY <1>6 DEF Steps
  <2>2. \A u \in Threads \ {t} : call'[u] = call[u]
    BY <1>6 DEF Steps
  <2>3. pc[t] # "link" /\ call'[t].a = a
    BY <1>1, <1>4, <1>6 DEF Steps
  <2> QED  BY <2>1, <2>2, <2>3 DEF InHand
<1>9. RecordsApart'
  <2>1. (ToSet(allocs') \cup ToSet(alloc_pool')) \cap InHand' = {}
    BY <1>0, <1>1, <1>3, <1>8 DEF RecordsApart
  <2>2. ASSUME NEW u \in Threads, NEW v \in Threads, pc'[u] = "link", pc'[v] = "link",
               call'[u].a = call'[v].a
        PROVE  u = v
    <3>1. \A w \in Threads \ {t} : pc'[w] = "link" => call'[w].a \in InHand
      BY <1>6 DEF Steps, InHand
    <3>2. call'[t].a = a
      BY <1>4, <1>6 DEF Steps
    <3>3. CASE u = t \/ v = t
      BY <1>3, <2>2, <3>1, <3>2, <3>3
    <3>4. CASE u # t /\ v # t
      BY <1>0, <1>6, <2>2, <3>4 DEF RecordsApart, Steps
    <3> QED  BY <3>3, <3>4
  <2>3. ToSet(allocs') \cap ToSet(alloc_pool') = {}
    BY <1>0, <1>1, <1>3 DEF RecordsApart
  <2>4. IsInjective(allocs') /\ alloc_count' = Len(allocs')
    BY <1>0, <1>1 DEF RecordsApart
  <2> QED  BY <1>3, <2>1, <2>2, <2>3, <2>4 DEF RecordsApart
<1>10. RecInv'
  <2>1. \A r \in ToSet(allocs) \cup ToSet(alloc_pool) \cup InHand : r <= batched /\ r \in Int
    <3>1. ToSet(allocs) \cup ToSet(alloc_pool) \in SUBSET Records
      BY <1>0 DEF ToSet
    <3>2. InHand \in SUBSET Records
      BY <1>0 DEF InHand, CallInv
    <3>3. \A r \in Records : r \in Int
      BY DEF Records
    <3>4. \A r \in ToSet(allocs) \cup ToSet(alloc_pool) \cup InHand : r <= batched
      BY <1>0 DEF RecInv
    <3> QED  BY <3>1, <3>2, <3>3, <3>4
  <2>2. \A r \in ToSet(allocs') \cup ToSet(alloc_pool') \cup InHand' :
           r = a \/ r \in ToSet(allocs) \cup ToSet(alloc_pool) \cup InHand
    BY <1>1, <1>3, <1>8
  <2>3. \A r \in ToSet(allocs') \cup ToSet(alloc_pool') \cup InHand' : r <= batched'
    BY <1>0, <1>3, <2>1, <2>2
  <2> QED  BY <1>9, <2>3 DEF RecInv
<1>11. \A x \in Addrs : SameHand(t, x)
  BY <1>1, <1>4, <1>6 DEF SameHand, Owns, Steps, Entering
<1>12. OwnInv'
  BY <1>0, <1>6, <1>11, OwnStep
<1>13. BaseInv'
  BY <1>6, <1>7, <1>10, <1>12 DEF BaseInv
<1>14. ASSUME NEW q \in Addrs PROVE Balance(q)' = Balance(q) /\ Surplus(q)' >= Surplus(q)
  <2>1. Recs(q) \in Int /\ missed[q] \in Int
    BY <1>0, CountsAreNumbers
  <2>2. Recs(q)' = Recs(q) + 0 /\ missed'[q] = missed[q] + 0
    BY <1>1, <2>1, RecsStay DEF recVars, endVars
  <2>3. 0 + 0 + One(heap[q] # NULL) - One(heap'[q] # NULL)
          + ShareOf("link", c, q) - ShareOf("take", call[t], q) = 0
    BY <1>1, <1>4 DEF ShareOf, One, Entering
  <2>4. 0 + 0 + One(Waits("take", call[t], q)) - One(Waits("link", c, q)) >= 0
    BY DEF Waits, One
  <2> QED  BY <1>0, <1>6, <1>7, <2>2, <2>3, <2>4, AccountStep
<1> QED  BY <1>1, <1>13, <1>14 DEF Advance, exitVars, endVars

\* The second lock of alloc_trace_new (195-200): the record is filled and linked.
LEMMA LinkRecordAdvances ==
    ASSUME BaseInv, NEW t \in Threads, LinkRecord(t)
    PROVE  Advance
<1> PICK a : a = call[t].a
  OBVIOUS
<1> PICK p : p = call[t].res
  OBVIOUS
<1>0. /\ TypeOK /\ CallInv /\ RecInv /\ RecordsApart /\ OwnInv
      /\ allocs \in Seq(Records)
  BY DEF BaseInv, RecInv, TypeOK
<1>1. /\ pc[t] = "link" /\ mem' = [mem EXCEPT ![a] = p]
      /\ size' = [size EXCEPT ![a] = call[t].size]
      /\ internal' = [internal EXCEPT ![a] = call[t].internal]
      /\ allocs' = << a >> \o allocs /\ alloc_count' = alloc_count + 1
      /\ Return(t, p)
      /\ UNCHANGED <<heap, alloc_pool, batched, initVars, exitVars, endVars>>
  BY DEF LinkRecord
<1>2. a \in Records /\ p \in Addrs /\ call[t].size \in Sizes /\ call[t].internal \in BOOLEAN
  BY <1>0, <1>1 DEF CallInv, Entering, TypeOK, Calls
<1>3. a \in InHand /\ a \notin ToSet(allocs) /\ a \notin ToSet(alloc_pool)
  BY <1>0, <1>1 DEF InHand, RecordsApart
<1>4. /\ pc' \in [Threads -> Pcs] /\ call' \in [Threads -> Calls] /\ CallInv'
      /\ Steps(t, "link", "idle", NoCall) /\ held' = held \cup {p}
      /\ held' \subseteq Addrs \cup Static
  BY <1>0, <1>1, <1>2, ReturnSteps DEF Return
<1>5. /\ allocs' \in Seq(Records) /\ Len(allocs') = Len(allocs) + 1
      /\ ToSet(allocs') = ToSet(allocs) \cup {a} /\ IsInjective(allocs')
  <2>1. IsInjective(allocs)
    BY <1>0 DEF RecordsApart
  <2> QED  BY <1>0, <1>1, <1>2, <1>3, <2>1, ConsKeeps
<1>6. TypeOK'
  <2>1. mem' \in [Records -> Addrs \cup {NULL}] /\ size' \in [Records -> Sizes \cup {NULL}]
        /\ internal' \in [Records -> BOOLEAN] /\ alloc_count' \in Int
    BY <1>0, <1>1, <1>2 DEF TypeOK
  <2> QED  BY <1>0, <1>1, <1>4, <1>5, <2>1 DEF TypeOK, initVars, exitVars, endVars
<1>7. InHand' = InHand \ {a}
  <2>1. \A u \in Threads : pc'[u] = "link" <=> u # t /\ pc[u] = "link"
    BY <1>4 DEF Steps
  <2>2. \A u \in Threads \ {t} : call'[u] = call[u]
    BY <1>4 DEF Steps
  <2>3. \A u \in Threads \ {t} : pc[u] = "link" => call[u].a # a
    BY <1>0, <1>1 DEF RecordsApart
  <2> QED  BY <2>1, <2>2, <2>3 DEF InHand
<1>8. RecordsApart'
  <2>1. /\ ToSet(allocs') \cap ToSet(alloc_pool') = {}
        /\ (ToSet(allocs') \cup ToSet(alloc_pool')) \cap InHand' = {}
        /\ IsInjective(alloc_pool')
    BY <1>0, <1>1, <1>3, <1>5, <1>7 DEF RecordsApart
  <2>2. \A u, v \in Threads :
           pc'[u] = "link" /\ pc'[v] = "link" /\ call'[u].a = call'[v].a => u = v
    BY <1>0, <1>4 DEF RecordsApart, Steps
  <2>3. alloc_count' = Len(allocs')
    BY <1>0, <1>1, <1>5 DEF RecordsApart
  <2> QED  BY <1>5, <2>1, <2>2, <2>3 DEF RecordsApart
<1>9. RecInv'
  <2>1. \A r \in ToSet(allocs') \cup ToSet(alloc_pool') \cup InHand' : r <= batched'
    BY <1>0, <1>1, <1>3, <1>5, <1>7 DEF RecInv
  <2> QED  BY <1>8, <2>1 DEF RecInv
<1>10. Owns(t, p) /\ heap[p] # NULL /\ p \notin held /\ \A u \in Threads \ {t} : ~ Owns(u, p)
  BY <1>0, <1>1, <1>2 DEF Owns, OwnInv, Entering
<1>11. \A x \in Addrs : ~ Owns(t, x)'
  BY <1>4 DEF Owns, Steps, Entering
<1>12. OneHand(t, p) /\ \A x \in Addrs \ {p} : SameHand(t, x)
  BY <1>1, <1>2, <1>4, <1>10, <1>11 DEF SameHand, OneHand
<1>13. OwnInv'
  BY <1>0, <1>4, <1>12, OwnStep
<1>14. BaseInv'
  BY <1>4, <1>6, <1>9, <1>13 DEF BaseInv
<1>15. ASSUME NEW q \in Addrs PROVE Balance(q)' = Balance(q) /\ Surplus(q)' >= Surplus(q)
  <2>1. IsFiniteSet(RecordSet(q)) /\ Recs(q) \in Int /\ missed[q] \in Int
    BY <1>0, CountsAreNumbers
  <2>2. /\ mem'[a] = p /\ \A r \in ToSet(allocs) : mem'[r] = mem[r]
    <3>1. mem \in [Records -> Addrs \cup {NULL}] /\ ToSet(allocs) \in SUBSET Records
      BY <1>0 DEF TypeOK, ToSet
    <3> QED  BY <1>1, <1>2, <1>3, <3>1
  <2>3. RecordSet(q)' = IF q = p THEN RecordSet(q) \cup {a} ELSE RecordSet(q)
    BY <1>5, <2>2 DEF RecordSet
  <2>4. a \notin RecordSet(q)
    BY <1>3 DEF RecordSet
  <2>5. Recs(q)' = Recs(q) + One(q = p)
    <3>1. CASE q = p
      <4>1. Recs(q)' = Recs(q) + 1
        BY <2>1, <2>3, <2>4, <3>1, FS_AddElement DEF Recs
      <4> QED  BY <3>1, <4>1 DEF One
    <3>2. CASE q # p
      <4>1. Recs(q)' = Recs(q)
        BY <2>3, <3>2 DEF Recs
      <4> QED  BY <2>1, <3>2, <4>1 DEF One
    <3> QED  BY <3>1, <3>2
  <2>6. missed'[q] = missed[q] + 0 /\ One(q = p) \in Int
    BY <1>1, <2>1 DEF endVars, One
  <2>7. One(q = p) + 0 + One(heap[q] # NULL) - One(heap'[q] # NULL)
          + ShareOf("idle", NoCall, q) - ShareOf("link", call[t], q) = 0
    <3>1. ShareOf("idle", NoCall, q) = 0 /\ ShareOf("link", call[t], q) = One(q = p)
      BY DEF ShareOf, One, Entering
    <3> QED  BY <1>1, <3>1 DEF One
  <2>8. One(q = p) + 0 + One(Waits("link", call[t], q)) - One(Waits("idle", NoCall, q)) >= 0
    BY DEF Waits, One
  <2> QED  BY <1>0, <1>4, <1>6, <2>5, <2>6, <2>7, <2>8, AccountStep
<1> QED  BY <1>1, <1>14, <1>15 DEF Advance, exitVars, endVars

-----------------------------------------------------------------------------
(* The inductive invariant                                                 *)

\* Before the exit every address is balanced; after it, when calls no longer
\* record what they allocate, those that drop a record still have one.
HeapInv ==
    /\ BaseInv /\ NoFalseAlarm
    /\ ~ is_exit_done => \A q \in Addrs : Balance(q) = 0
    /\ is_exit_done => \A q \in Addrs : Surplus(q) >= 0

LEMMA AlwaysEnough ==
    ASSUME HeapInv, NEW q \in Addrs
    PROVE  Surplus(q) >= 0
BY EnoughRecords DEF HeapInv, BaseInv

LEMMA AdvanceKeeps ==
    ASSUME HeapInv, bad_memory = NULL, Advance
    PROVE  HeapInv'
<1>1. BaseInv' /\ is_exit_done' = is_exit_done /\ bad_memory' = NULL
  BY DEF Advance
<1>2. NoFalseAlarm'
  BY <1>1 DEF NoFalseAlarm
<1>3. is_exit_done => \A q \in Addrs : Surplus(q)' >= Surplus(q) /\ Surplus(q) >= 0
                                       /\ Surplus(q) \in Int /\ Surplus(q)' \in Int
  <2>1. TypeOK /\ TypeOK'
    BY <1>1 DEF HeapInv, BaseInv
  <2>2. ASSUME NEW q \in Addrs PROVE Surplus(q) \in Int /\ Surplus(q)' \in Int
    <3>1. /\ Recs(q) \in Int /\ missed[q] \in Int /\ Cardinality(Pending(q)) \in Int
      BY <2>1, CountsAreNumbers
    <3>2. Recs(q)' \in Int /\ missed'[q] \in Int /\ Cardinality(Pending(q))' \in Int
      <4>0. allocs' \in Seq(1 .. MaxRecords)
        BY <2>1 DEF TypeOK, Records
      <4>1. ToSet(allocs') \in SUBSET (1 .. MaxRecords)
        BY <4>0 DEF ToSet
      <4>2. RecordSet(q)' \in SUBSET (1 .. MaxRecords) /\ IsFiniteSet(1 .. MaxRecords)
        BY <4>1, FS_Interval DEF RecordSet
      <4>3. Pending(q)' \in SUBSET Threads
        BY DEF Pending, In
      <4>4. IsFiniteSet(RecordSet(q)') /\ IsFiniteSet(Pending(q)')
        BY <4>2, <4>3, FS_Subset
      <4>5. missed'[q] \in Int
        BY <2>1 DEF TypeOK
      <4> QED  BY <4>4, <4>5, FS_CardinalityType DEF Recs
    <3> QED  BY <3>1, <3>2 DEF Surplus
  <2> QED  BY <2>2 DEF Advance, HeapInv
<1>4. is_exit_done' => \A q \in Addrs : Surplus(q)' >= 0
  BY <1>1, <1>3
<1>5. ~ is_exit_done' => \A q \in Addrs : Balance(q)' = 0
  BY <1>1 DEF Advance, HeapInv
<1> QED  BY <1>1, <1>2, <1>4, <1>5 DEF HeapInv

\* The abort: a thread that has a record to drop finds none.
LEMMA AbortKeeps ==
    ASSUME HeapInv, NEW t \in Threads, pc[t] \in {"untrack", "retrack", "lost", "kept"},
           Abort(call[t].ptr)
    PROVE  HeapInv'
<1> PICK p : p = call[t].ptr
  OBVIOUS
<1>1. /\ RecordsOf(p) = {} /\ bad_memory' = p
      /\ UNCHANGED <<heap, held, listVars, recVars, initVars, exitVars, pc, call, missed,
                     bad_string>>
  BY DEF Abort
<1>2. TypeOK /\ p \in Addrs
  BY DEF HeapInv, BaseInv, CallInv
<1>3. RecordSet(p) = {}
  BY <1>1 DEF RecordsOf, RecordSet, ToSet
<1>4. Recs(p) = 0
  BY <1>3, FS_EmptySet DEF Recs
<1>5. t \in Pending(p) /\ IsFiniteSet(Pending(p)) /\ Cardinality(Pending(p)) \in Nat
      /\ missed[p] \in Nat
  BY <1>2, CountsAreNumbers DEF Pending, In
<1>6. Cardinality(Pending(p)) # 0
  BY <1>5, FS_EmptySet
<1>7. Surplus(p) >= 0
  BY <1>2, AlwaysEnough
<1>8. missed[p] > 0
  BY <1>4, <1>5, <1>6, <1>7 DEF Surplus
<1>9. Quiet
  BY <1>1, <1>2 DEF Quiet, TypeOK, initVars, exitVars
<1>10. BaseInv'
  BY <1>9, QuietKeeps DEF HeapInv
<1>11. NoFalseAlarm'
  BY <1>1, <1>2, <1>8 DEF NoFalseAlarm
<1>12. is_exit_done' = is_exit_done
       /\ \A q \in Addrs : Balance(q)' = Balance(q) /\ Surplus(q)' = Surplus(q)
  BY <1>1 DEF Balance, Surplus, Recs, RecordSet, Coming, Leaving, Gone, Pending, To, In, Live,
              listVars, recVars, exitVars
<1> QED  BY <1>10, <1>11, <1>12 DEF HeapInv

\* What happens outside of the calls.
LEMMA OutsideKeeps ==
    ASSUME HeapInv,
           \/ InitBegin \/ InitEnd \/ Exit \/ Report
           \/ \E p \in Static : StaticMalloc(p)
           \/ StrdupLate \/ \E p \in held : StringStatic(p)
           \/ UNCHANGED vars
    PROVE  HeapInv'
<1>1. Quiet /\ bad_memory' = bad_memory
  <2>1. TypeOK
    BY DEF HeapInv, BaseInv
  <2>2. CASE InitBegin
    BY <2>1, <2>2 DEF Quiet, InitBegin, TypeOK, exitVars, endVars
  <2>3. CASE InitEnd
    BY <2>1, <2>3 DEF Quiet, InitEnd, TypeOK, exitVars, endVars
  <2>4. CASE Exit
    BY <2>1, <2>4 DEF Quiet, Exit, TypeOK, initVars, endVars
  <2>5. CASE Report
    BY <2>1, <2>5 DEF Quiet, Report, TypeOK, initVars, endVars
  <2>6. CASE \E p \in Static : StaticMalloc(p)
    BY <2>1, <2>6 DEF Quiet, StaticMalloc, TypeOK, exitVars, endVars
  <2>7. CASE UNCHANGED vars
    BY <2>1, <2>7 DEF Quiet, vars, TypeOK, initVars, exitVars, endVars
  <2>8. CASE StrdupLate \/ \E p \in held : StringStatic(p)
    BY <2>1, <2>8 DEF Quiet, StrdupLate, StringStatic, TypeOK, initVars, exitVars
  <2> QED  BY <2>2, <2>3, <2>4, <2>5, <2>6, <2>7, <2>8
<1>2. BaseInv'
  BY <1>1, QuietKeeps DEF HeapInv
<1>3. NoFalseAlarm'
  BY <1>1 DEF HeapInv, NoFalseAlarm, Quiet
<1>4. \A q \in Addrs : Balance(q)' = Balance(q) /\ Surplus(q)' = Surplus(q)
  BY <1>1 DEF Quiet, Balance, Surplus, Recs, RecordSet, Coming, Leaving, Gone, Pending, To, In,
              Live, listVars, recVars
<1>5. is_exit_done => is_exit_done'
  <2>1. is_exit_done' = is_exit_done \/ is_exit_done' = TRUE
    BY DEF InitBegin, InitEnd, Exit, Report, StaticMalloc, StrdupLate, StringStatic, vars, exitVars
  <2> QED  BY <2>1
<1>6. is_exit_done' => \A q \in Addrs : Surplus(q)' >= 0
  BY <1>4, AlwaysEnough
<1>7. ~ is_exit_done' => \A q \in Addrs : Balance(q)' = 0
  BY <1>4, <1>5 DEF HeapInv
<1> QED  BY <1>2, <1>3, <1>6, <1>7 DEF HeapInv

LEMMA InitHolds == Init => HeapInv
<1> SUFFICES ASSUME Init PROVE HeapInv
  OBVIOUS
<1>1. TypeOK
  <2>1. NoCall \in Calls /\ "idle" \in Pcs /\ << >> \in Seq(Records)
    BY CallIsCall
  <2>2. heap \in [Addrs -> Sizes \cup {NULL}] /\ missed \in [Addrs -> Nat]
    BY DEF Init
  <2>3. /\ mem \in [Records -> Addrs \cup {NULL}] /\ size \in [Records -> Sizes \cup {NULL}]
        /\ internal \in [Records -> BOOLEAN] /\ batched \in 0 .. MaxRecords
    BY DEF Init
  <2>4. pc \in [Threads -> Pcs] /\ call \in [Threads -> Calls]
    BY <2>1 DEF Init
  <2>5. /\ held \subseteq Addrs \cup Static /\ static_used \subseteq Static
        /\ alloc_count \in Int /\ init \in {"none", "symbols", "done"}
        /\ is_exit_done \in BOOLEAN /\ bad_memory \in Addrs \cup Static \cup {NULL}
        /\ bad_string \in {"none", "late", "static"}
    <3>1. is_exit_done \in BOOLEAN
      BY Zenon DEF Init
    <3>2. /\ held = {} /\ static_used = {} /\ alloc_count = 0 /\ init = "none"
          /\ bad_memory = NULL /\ bad_string = "none"
      BY Zenon DEF Init
    <3>3. /\ held \subseteq Addrs \cup Static /\ static_used \subseteq Static
          /\ alloc_count \in Int /\ init \in {"none", "symbols", "done"}
          /\ bad_memory \in Addrs \cup Static \cup {NULL}
          /\ bad_string \in {"none", "late", "static"}
      BY <3>2
    <3> QED  BY <3>1, <3>3
  <2>6. allocs \in Seq(Records) /\ alloc_pool \in Seq(Records)
    BY <2>1 DEF Init
  <2> QED  BY <2>1, <2>2, <2>3, <2>4, <2>5, <2>6, Zenon DEF TypeOK
<1>2. \A t \in Threads : pc[t] = "idle"
  BY DEF Init
<1>3. CallInv
  BY <1>2 DEF CallInv, Entering
<1>4. ToSet(allocs) = {} /\ ToSet(alloc_pool) = {} /\ InHand = {}
  BY <1>2 DEF Init, ToSet, InHand
<1>5. RecInv
  <2>1. IsInjective(allocs) /\ IsInjective(alloc_pool) /\ Len(allocs) = 0 /\ alloc_count = 0
    BY DEF Init, IsInjective
  <2> QED  BY <1>2, <1>4, <2>1 DEF RecInv, RecordsApart
<1>6. OwnInv
  BY <1>2 DEF Init, OwnInv, Owns, Entering
<1>7. ASSUME NEW q \in Addrs PROVE Balance(q) = 0
  <2>1. RecordSet(q) = {} /\ Coming(q) = {} /\ Leaving(q) = {} /\ Gone(q) = {}
    BY <1>2, <1>4 DEF RecordSet, Coming, Leaving, Gone, To, In, Entering
  <2>2. Cardinality({}) = 0 /\ missed[q] = 0 /\ q \notin Live
    BY FS_EmptySet DEF Init, Live
  <2> QED  BY <2>1, <2>2 DEF Balance, Recs, One
<1>8. ~ is_exit_done /\ NoFalseAlarm
  BY DEF Init, NoFalseAlarm
<1> QED  BY <1>1, <1>3, <1>5, <1>6, <1>7, <1>8 DEF HeapInv, BaseInv

LEMMA StepKeeps == HeapInv /\ [Next]_vars => HeapInv'
<1> SUFFICES ASSUME HeapInv, [Next]_vars PROVE HeapInv'
  OBVIOUS
<1>1. BaseInv
  BY DEF HeapInv
<1>2. CASE \E t \in Threads : Calling(t)
  <2>1. PICK t \in Threads : Calling(t)
    BY <1>2
  <2>2. bad_memory = NULL /\ pc[t] = "idle"
    BY <2>1 DEF Calling, Up
  <2>3. CASE \E s \in Sizes, lib \in BOOLEAN : Allocate(t, s, lib)
    BY <1>1, <2>2, <2>3, AllocateAdvances, AdvanceKeeps
  <2>4. CASE \E p \in held : Free(t, p)
    BY <1>1, <2>2, <2>4, FreeAdvances, AdvanceKeeps
  <2>5. CASE \E p \in held, s \in Sizes : ReallocStatic(t, p, s)
    BY <1>1, <2>2, <2>5, ReallocStaticAdvances, AdvanceKeeps
  <2>6. CASE \E p \in held \cap Addrs : ReallocFree(t, p)
    BY <1>1, <2>2, <2>6, ReallocFreeAdvances, AdvanceKeeps
  <2>7. CASE \E p \in held \cap Addrs : ReallocFail(t, p)
    BY <1>1, <2>2, <2>7, ReallocFailAdvances, AdvanceKeeps
  <2>8. CASE \E p \in held \cap Addrs, s \in Sizes : ReallocInPlace(p, s)
    BY <1>1, <2>2, <2>8, ReallocInPlaceAdvances, AdvanceKeeps
  <2>9. CASE \E p \in held \cap Addrs, s \in Sizes : ReallocMove(t, p, s)
    BY <1>1, <2>2, <2>9, ReallocMoveAdvances, AdvanceKeeps
  <2>10. CASE StrdupLate \/ \E p \in held : StringStatic(p)
    BY <2>10, OutsideKeeps
  <2> QED  BY <2>1, <2>3, <2>4, <2>5, <2>6, <2>7, <2>8, <2>9, <2>10 DEF Calling
<1>3. CASE \E t \in Threads : InCall(t)
  <2>1. PICK t \in Threads : InCall(t)
    BY <1>3
  <2>2. bad_memory = NULL
    BY <2>1 DEF InCall, Up
  <2>3. CASE TakeRecord(t)
    BY <1>1, <2>2, <2>3, TakeRecordAdvances, AdvanceKeeps
  <2>4. CASE LinkRecord(t)
    BY <1>1, <2>2, <2>4, LinkRecordAdvances, AdvanceKeeps
  <2>5. CASE Release(t)
    BY <1>1, <2>2, <2>5, ReleaseAdvances, AdvanceKeeps
  <2>6. CASE Moved(t)
    BY <1>1, <2>2, <2>6, MovedAdvances, AdvanceKeeps
  <2>7. CASE Untrack(t) \/ Retrack(t) \/ Lost(t) \/ Kept(t)
    <3>1. pc[t] \in {"untrack", "retrack", "lost", "kept"}
      BY <2>7 DEF Untrack, Retrack, Lost, Kept
    <3>2. CASE Abort(call[t].ptr)
      BY <3>1, <3>2, AbortKeeps
    <3>3. CASE ~ Abort(call[t].ptr)
      BY <1>1, <2>2, <2>7, <3>3, UntrackAdvances, RetrackAdvances, LostAdvances, KeptAdvances,
         AdvanceKeeps
    <3> QED  BY <3>2, <3>3
  <2> QED  BY <2>1, <2>3, <2>4, <2>5, <2>6, <2>7 DEF InCall
<1>4. CASE \/ InitBegin \/ InitEnd \/ Exit \/ Report
           \/ \E p \in Static : StaticMalloc(p)
           \/ UNCHANGED vars
  BY <1>4, OutsideKeeps
<1> QED  BY <1>2, <1>3, <1>4 DEF Next

LEMMA HeapInvAlways == Spec => []HeapInv
<1>1. Init => HeapInv
  BY InitHolds
<1>2. HeapInv /\ [Next]_vars => HeapInv'
  BY StepKeeps
<1> QED  BY <1>1, <1>2, PTL DEF Spec

-----------------------------------------------------------------------------
(* The report at exit                                                      *)

\* The calls that began before the exit and will still drop or link a record.
Tied(t, p) ==
    \/ pc[t] \in {"untrack", "retrack", "lost", "kept"} /\ call[t].ptr = p
    \/ pc[t] \in {"take", "link"} /\ call[t].res = p

\* Addresses of which the report says nothing certain (see ReportExact).
Left(p) == p \in at_exit.busy \/ missed[p] > 0

\* No block is lost: a caller has it, or the call that hands it out or frees it.
\* So what the records of an address balanced at the exit is its block in held,
\* and from then on only the calls that were under way touch its records.
HandInv == \A p \in Addrs : heap[p] # NULL => p \in held \/ \E t \in Threads : Owns(t, p)
ListInv == \A r \in ToSet(allocs) : mem[r] \in Addrs
TiedInv == is_exit_done => \A t \in Threads, p \in Addrs : Tied(t, p) => p \in at_exit.busy
KeptInv ==
    is_exit_done =>
        /\ at_exit.held \subseteq Addrs
        /\ \A p \in Addrs : ~ Left(p) =>
              /\ p \in at_exit.held <=> RecordSet(p) # {}
              /\ \A r, s \in RecordSet(p) : r = s
EndInv == /\ HandInv /\ ListInv /\ TiedInv /\ KeptInv
          /\ report # NULL => is_exit_done
          /\ ReportExact

\* What every step of a thread does: after it, too, each block is in a hand, only
\* the calls tied to an address touch its records, and none is tied after the exit.
Settles(t) ==
    /\ \A u \in Threads \ {t} : pc'[u] = pc[u] /\ call'[u] = call[u]
    /\ \A p \in Addrs : heap'[p] # NULL =>
          \/ p \in held' \/ Owns(t, p)'
          \/ heap[p] # NULL /\ ~ Owns(t, p) /\ (p \in held => p \in held')
    /\ \A p \in Addrs : is_exit_done /\ Tied(t, p)' => Tied(t, p)
    /\ \A p \in Addrs : ~ Tied(t, p) => RecordSet(p)' = RecordSet(p)
    /\ ListInv'
    /\ \A p \in Addrs : missed'[p] \in Nat /\ missed'[p] >= missed[p]
    /\ UNCHANGED exitVars

LEMMA SettlesKeeps ==
    ASSUME TypeOK, EndInv, NEW t \in Threads, Settles(t)
    PROVE  EndInv'
<1>1. /\ \A u \in Threads \ {t} : pc'[u] = pc[u] /\ call'[u] = call[u]
      /\ is_exit_done' = is_exit_done /\ report' = report /\ at_exit' = at_exit
      /\ ListInv'
  BY DEF Settles, exitVars
<1>2. \A u \in Threads \ {t}, p \in Addrs : (Owns(u, p)' <=> Owns(u, p)) /\ (Tied(u, p)' <=> Tied(u, p))
  BY <1>1 DEF Owns, Tied
<1>3. HandInv'
  <2> SUFFICES ASSUME NEW p \in Addrs, heap'[p] # NULL
               PROVE  p \in held' \/ \E u \in Threads : Owns(u, p)'
    BY DEF HandInv
  <2>1. CASE p \in held' \/ Owns(t, p)'
    BY <2>1
  <2>2. CASE heap[p] # NULL /\ ~ Owns(t, p) /\ (p \in held => p \in held')
    <3>1. p \in held \/ \E u \in Threads : Owns(u, p)
      BY <2>2 DEF EndInv, HandInv
    <3> QED  BY <1>2, <2>2, <3>1
  <2> QED  BY <2>1, <2>2 DEF Settles
<1>4. TiedInv'
  <2> SUFFICES ASSUME is_exit_done, NEW u \in Threads, NEW p \in Addrs, Tied(u, p)'
               PROVE  p \in at_exit.busy
    BY <1>1 DEF TiedInv
  <2>1. Tied(u, p)
    BY <1>2 DEF Settles
  <2> QED  BY <2>1 DEF EndInv, TiedInv
<1>5. \A p \in Addrs : ~ Left(p)' => ~ Left(p)
  BY <1>1 DEF Left, Settles, TypeOK
<1>6. ASSUME is_exit_done, NEW p \in Addrs, ~ Left(p)' PROVE RecordSet(p)' = RecordSet(p)
  <2>1. p \notin at_exit.busy
    BY <1>5, <1>6 DEF Left
  <2>2. ~ Tied(t, p)
    BY <1>6, <2>1 DEF EndInv, TiedInv
  <2> QED  BY <2>2 DEF Settles
<1>7. KeptInv'
  <2> SUFFICES ASSUME is_exit_done, NEW p \in Addrs, ~ Left(p)'
               PROVE  /\ p \in at_exit.held <=> RecordSet(p)' # {}
                      /\ \A r, s \in RecordSet(p)' : r = s
    BY <1>1 DEF EndInv, KeptInv
  <2>1. ~ Left(p) /\ RecordSet(p)' = RecordSet(p)
    BY <1>5, <1>6
  <2> QED  BY <2>1 DEF EndInv, KeptInv
<1>8. ReportExact'
  <2> SUFFICES ASSUME report # NULL PROVE ReportExact'
    BY <1>1 DEF ReportExact
  <2> DEFINE left  == {p \in Addrs : Left(p)}
             found == report.leaks \cup report.suppressed
  <2>1. left \in SUBSET {p \in Addrs : Left(p)'}
    BY <1>5
  <2>2. /\ {x.mem : x \in found} \ left = at_exit.held \ left
        /\ \A x, y \in found : x.mem = y.mem /\ x.mem \notin left => x = y
        /\ report.count = Cardinality(report.leaks)
    BY DEF EndInv, ReportExact, Left
  <2> HIDE DEF left, found
  <2>3. /\ {x.mem : x \in found} \ {p \in Addrs : Left(p)'} = at_exit.held \ {p \in Addrs : Left(p)'}
        /\ \A x, y \in found : x.mem = y.mem /\ x.mem \notin {p \in Addrs : Left(p)'} => x = y
    BY <2>1, <2>2
  <2> QED  BY <1>1, <2>2, <2>3 DEF ReportExact, Left, found
<1> QED  BY <1>1, <1>3, <1>4, <1>7, <1>8 DEF EndInv

LEMMA GotoGoes ==
    ASSUME TypeOK, NEW t \in Threads, NEW w, NEW c, Goto(t, w, c)
    PROVE  Steps(t, pc[t], w, c)
BY DEF Goto, TypeOK, Steps

\* A step that leaves the list alone.
LEMMA ListSettles ==
    ASSUME TypeOK, EndInv, NEW t \in Threads, NEW w, NEW c, Steps(t, pc[t], w, c),
           allocs' = allocs, UNCHANGED <<recVars, exitVars, missed>>,
           \A p \in Addrs : heap'[p] # NULL =>
              \/ p \in held' \/ Owns(t, p)'
              \/ heap[p] # NULL /\ ~ Owns(t, p) /\ (p \in held => p \in held'),
           \A p \in Addrs : is_exit_done /\ Tied(t, p)' => Tied(t, p)
    PROVE  EndInv'
<1>1. mem' = mem /\ missed' = missed
  BY DEF recVars
<1>2. /\ \A p : RecordSet(p)' = RecordSet(p)
      /\ ListInv'
  BY <1>1 DEF RecordSet, EndInv, ListInv
<1>3. \A p \in Addrs : missed'[p] \in Nat /\ missed'[p] >= missed[p]
  BY <1>1 DEF TypeOK
<1>4. Settles(t)
  BY <1>2, <1>3 DEF Settles, Steps
<1> QED  BY <1>4, SettlesKeeps

-----------------------------------------------------------------------------
(* The report and the calls                                                *)

LEMMA AllocateSettles ==
    ASSUME BaseInv, EndInv, NEW t \in Threads, pc[t] = "idle",
           NEW s \in Sizes, NEW lib \in BOOLEAN, Allocate(t, s, lib)
    PROVE  EndInv'
<1>1. TypeOK /\ NULL \notin Addrs
  BY DEF BaseInv
<1> DEFINE c(p) == [NoCall EXCEPT !.res = p, !.size = s, !.internal = lib]
<1>2. PICK p \in Addrs \ Live :
        /\ heap' = [heap EXCEPT ![p] = s]
        /\ IF Skipped THEN Return(t, p) ELSE Goto(t, "take", c(p)) /\ UNCHANGED held
        /\ UNCHANGED <<listVars, recVars, initVars, exitVars, endVars>>
  BY DEF Allocate
<1>3. \A q \in Addrs \ {p} : heap'[q] = heap[q]
  BY <1>1, <1>2 DEF TypeOK
<1>4. allocs' = allocs /\ UNCHANGED <<recVars, exitVars, missed>>
  BY <1>2 DEF listVars, endVars
<1>5. \A q \in Addrs : ~ Owns(t, q)
  BY DEF Owns, Entering
<1>6. CASE Skipped
  <2>1. Steps(t, pc[t], "idle", NoCall) /\ held' = held \cup {p}
    BY <1>1, <1>2, <1>6, GotoGoes DEF Return
  <2>2. \A q \in Addrs : ~ Tied(t, q)'
    BY <2>1 DEF Tied, Steps
  <2> QED  BY <1>1, <1>3, <1>4, <1>5, <2>1, <2>2, ListSettles
<1>7. CASE ~ Skipped
  <2>1. c(p).res = p
    BY DEF NoCall
  <2> HIDE DEF c
  <2>2. Steps(t, pc[t], "take", c(p)) /\ held' = held
    BY <1>1, <1>2, <1>7, GotoGoes
  <2>3. Owns(t, p)' /\ ~ is_exit_done
    BY <1>7, <2>1, <2>2 DEF Owns, Entering, Steps, Skipped
  <2> QED  BY <1>1, <1>3, <1>4, <1>5, <2>2, <2>3, ListSettles
<1> QED  BY <1>6, <1>7

LEMMA FreeSettles ==
    ASSUME BaseInv, EndInv, NEW t \in Threads, pc[t] = "idle", NEW p \in held, Free(t, p)
    PROVE  EndInv'
<1>1. TypeOK /\ p \in Addrs \cup Static /\ Addrs \cap Static = {}
  BY DEF BaseInv, TypeOK
<1>2. /\ held' = held \ {p}
      /\ IF alloc_is_static(p) THEN UNCHANGED <<pc, call>>
         ELSE Goto(t, IF Skipped THEN "free" ELSE "untrack", [NoCall EXCEPT !.ptr = p])
      /\ UNCHANGED <<heap, listVars, recVars, initVars, exitVars, endVars>>
  BY DEF Free
<1>3. allocs' = allocs /\ UNCHANGED <<recVars, exitVars, missed>>
  BY <1>2 DEF listVars, endVars
<1>4. \A q \in Addrs : ~ Owns(t, q)
  BY DEF Owns, Entering
<1>5. CASE p \in Static
  <2>1. UNCHANGED <<pc, call>> /\ p \notin Addrs
    BY <1>1, <1>2, <1>5 DEF alloc_is_static
  <2>2. Steps(t, pc[t], pc[t], call[t]) /\ \A q \in Addrs : ~ Tied(t, q)'
    BY <2>1 DEF Steps, Tied
  <2> QED  BY <1>1, <1>2, <1>3, <1>4, <2>1, <2>2, ListSettles
<1>6. CASE p \notin Static
  <2> DEFINE c == [NoCall EXCEPT !.ptr = p]
             w == IF Skipped THEN "free" ELSE "untrack"
  <2>1. c.ptr = p
    BY DEF NoCall
  <2>2. Goto(t, w, c)
    BY <1>2, <1>6 DEF alloc_is_static
  <2>3. w \in {"free", "untrack"} /\ (is_exit_done => w = "free")
    BY DEF Skipped
  <2> HIDE DEF c, w
  <2>4. Steps(t, pc[t], w, c)
    BY <1>1, <2>2, GotoGoes
  <2>5. Owns(t, p)'
    BY <2>1, <2>3, <2>4 DEF Owns, Steps
  <2>6. \A q \in Addrs : is_exit_done => ~ Tied(t, q)'
    BY <2>3, <2>4 DEF Tied, Steps
  <2> QED  BY <1>1, <1>2, <1>3, <1>4, <2>4, <2>5, <2>6, ListSettles
<1> QED  BY <1>5, <1>6

LEMMA ReleaseSettles ==
    ASSUME BaseInv, EndInv, NEW t \in Threads, Release(t)
    PROVE  EndInv'
<1>1. TypeOK /\ call[t].ptr \in Addrs
  BY DEF BaseInv, CallInv, Release
<1>2. /\ pc[t] = "free" /\ heap' = [heap EXCEPT ![call[t].ptr] = NULL] /\ Return(t, NULL)
      /\ UNCHANGED <<listVars, recVars, initVars, exitVars, endVars>>
  BY DEF Release
<1>3. allocs' = allocs /\ UNCHANGED <<recVars, exitVars, missed>>
  BY <1>2 DEF listVars, endVars
<1>4. Steps(t, pc[t], "idle", NoCall) /\ held \subseteq held'
  BY <1>1, <1>2, GotoGoes DEF Return
<1>5. \A q \in Addrs : ~ Tied(t, q)'
  BY <1>4 DEF Tied, Steps
<1>6. ASSUME NEW q \in Addrs, heap'[q] # NULL PROVE heap[q] # NULL /\ ~ Owns(t, q)
  BY <1>1, <1>2, <1>6 DEF TypeOK, Owns, Entering
<1> QED  BY <1>1, <1>3, <1>4, <1>5, <1>6, ListSettles

LEMMA ReallocStaticSettles ==
    ASSUME BaseInv, EndInv, NEW t \in Threads, pc[t] = "idle", NEW p \in held, NEW s \in Sizes,
           ReallocStatic(t, p, s)
    PROVE  EndInv'
<1>1. TypeOK /\ p \notin Addrs /\ NULL \notin Sizes
  BY DEF BaseInv, ReallocStatic, alloc_is_static
<1> DEFINE c(q) == [NoCall EXCEPT !.res = q, !.size = s]
<1>2. PICK q \in Addrs \ Live :
        /\ heap' = [heap EXCEPT ![q] = s]
        /\ IF Skipped THEN Goto(t, "idle", NoCall) /\ held' = (held \ {p}) \cup {q}
           ELSE Goto(t, "take", c(q)) /\ held' = held \ {p}
        /\ UNCHANGED <<listVars, recVars, initVars, exitVars, endVars>>
  BY DEF ReallocStatic
<1>3. \A x \in Addrs \ {q} : heap'[x] = heap[x] /\ (x \in held => x \in held')
  BY <1>1, <1>2 DEF TypeOK
<1>4. allocs' = allocs /\ UNCHANGED <<recVars, exitVars, missed>>
  BY <1>2 DEF listVars, endVars
<1>5. \A x \in Addrs : ~ Owns(t, x)
  BY DEF Owns, Entering
<1>6. CASE Skipped
  <2>1. Steps(t, pc[t], "idle", NoCall) /\ q \in held'
    BY <1>1, <1>2, <1>6, GotoGoes
  <2>2. \A x \in Addrs : ~ Tied(t, x)'
    BY <2>1 DEF Tied, Steps
  <2> QED  BY <1>1, <1>3, <1>4, <1>5, <2>1, <2>2, ListSettles
<1>7. CASE ~ Skipped
  <2>1. c(q).res = q
    BY DEF NoCall
  <2> HIDE DEF c
  <2>2. Steps(t, pc[t], "take", c(q))
    BY <1>1, <1>2, <1>7, GotoGoes
  <2>3. Owns(t, q)' /\ ~ is_exit_done
    BY <1>7, <2>1, <2>2 DEF Owns, Entering, Steps, Skipped
  <2> QED  BY <1>1, <1>3, <1>4, <1>5, <2>2, <2>3, ListSettles
<1> QED  BY <1>6, <1>7

LEMMA ReallocInPlaceSettles ==
    ASSUME BaseInv, EndInv, NEW t \in Threads, pc[t] = "idle",
           NEW p \in held \cap Addrs, NEW s \in Sizes, ReallocInPlace(p, s)
    PROVE  EndInv'
<1>1. TypeOK
  BY DEF BaseInv
<1>2. /\ heap' = [heap EXCEPT ![p] = s]
      /\ UNCHANGED <<held, listVars, recVars, initVars, exitVars, pc, call, endVars>>
  BY DEF ReallocInPlace
<1>3. allocs' = allocs /\ UNCHANGED <<recVars, exitVars, missed>> /\ held' = held
  BY <1>2 DEF listVars, endVars
<1>4. \A q \in Addrs : ~ Owns(t, q) /\ ~ Tied(t, q)'
  BY <1>2 DEF Owns, Tied, Entering
<1>5. Steps(t, pc[t], pc[t], call[t])
  BY <1>2 DEF Steps
<1>6. \A q \in Addrs : heap'[q] # NULL => heap[q] # NULL \/ q \in held'
  BY <1>1, <1>2 DEF TypeOK
<1> QED  BY <1>1, <1>3, <1>4, <1>5, <1>6, ListSettles

LEMMA ReallocMoveSettles ==
    ASSUME BaseInv, EndInv, NEW t \in Threads, pc[t] = "idle",
           NEW p \in held \cap Addrs, NEW s \in Sizes, ReallocMove(t, p, s)
    PROVE  EndInv'
<1>1. TypeOK
  BY DEF BaseInv
<1>2. PICK q \in Addrs \ Live :
        /\ heap' = [heap EXCEPT ![p] = NULL, ![q] = s]
        /\ IF Skipped THEN Goto(t, "idle", NoCall) /\ held' = (held \ {p}) \cup {q}
           ELSE Goto(t, "retrack", MoveCall(p, q, s)) /\ held' = held \ {p}
        /\ UNCHANGED <<listVars, recVars, initVars, exitVars, endVars>>
  BY DEF ReallocMove
<1>3. \A x \in Addrs \ {q} : heap'[x] # NULL => heap[x] # NULL /\ (x \in held => x \in held')
  BY <1>1, <1>2 DEF TypeOK
<1>4. allocs' = allocs /\ UNCHANGED <<recVars, exitVars, missed>>
  BY <1>2 DEF listVars, endVars
<1>5. \A x \in Addrs : ~ Owns(t, x)
  BY DEF Owns, Entering
<1>6. CASE Skipped
  <2>1. Steps(t, pc[t], "idle", NoCall) /\ q \in held'
    BY <1>1, <1>2, <1>6, GotoGoes
  <2>2. \A x \in Addrs : ~ Tied(t, x)'
    BY <2>1 DEF Tied, Steps
  <2> QED  BY <1>1, <1>3, <1>4, <1>5, <2>1, <2>2, ListSettles
<1>7. CASE ~ Skipped
  <2> DEFINE c == MoveCall(p, q, s)
  <2>1. c.res = q
    BY DEF MoveCall, NoCall
  <2> HIDE DEF c
  <2>2. Steps(t, pc[t], "retrack", c)
    BY <1>1, <1>2, <1>7, GotoGoes DEF c
  <2>3. Owns(t, q)' /\ ~ is_exit_done
    BY <1>7, <2>1, <2>2 DEF Owns, Entering, Steps, Skipped
  <2> QED  BY <1>1, <1>3, <1>4, <1>5, <2>2, <2>3, ListSettles
<1> QED  BY <1>6, <1>7

LEMMA ReallocFreeSettles ==
    ASSUME BaseInv, EndInv, NEW t \in Threads, pc[t] = "idle",
           NEW p \in held \cap Addrs, ReallocFree(t, p)
    PROVE  EndInv'
<1>1. TypeOK
  BY DEF BaseInv
<1>2. /\ heap' = [heap EXCEPT ![p] = NULL] /\ held' = held \ {p}
      /\ IF Skipped THEN UNCHANGED <<pc, call>> ELSE Goto(t, "lost", [NoCall EXCEPT !.ptr = p])
      /\ UNCHANGED <<listVars, recVars, initVars, exitVars, endVars>>
  BY DEF ReallocFree
<1>3. allocs' = allocs /\ UNCHANGED <<recVars, exitVars, missed>>
  BY <1>2 DEF listVars, endVars
<1>4. \A q \in Addrs : /\ ~ Owns(t, q)
                       /\ heap'[q] # NULL => heap[q] # NULL /\ (q \in held => q \in held')
  BY <1>1, <1>2 DEF TypeOK, Owns, Entering
<1>5. CASE Skipped
  <2>1. Steps(t, pc[t], pc[t], call[t]) /\ \A q \in Addrs : ~ Tied(t, q)'
    BY <1>2, <1>5 DEF Steps, Tied
  <2> QED  BY <1>1, <1>3, <1>4, <2>1, ListSettles
<1>6. CASE ~ Skipped
  <2>1. Steps(t, pc[t], "lost", [NoCall EXCEPT !.ptr = p]) /\ ~ is_exit_done
    BY <1>1, <1>2, <1>6, GotoGoes DEF Skipped
  <2> QED  BY <1>1, <1>3, <1>4, <2>1, ListSettles
<1> QED  BY <1>5, <1>6

LEMMA ReallocFailSettles ==
    ASSUME BaseInv, EndInv, NEW t \in Threads, pc[t] = "idle",
           NEW p \in held \cap Addrs, ReallocFail(t, p)
    PROVE  EndInv'
<1> DEFINE c == [NoCall EXCEPT !.ptr = p]
<1>1. TypeOK /\ c.ptr = p
  BY DEF BaseInv, NoCall
<1>2. /\ ~ is_exit_done /\ Goto(t, "kept", c) /\ held' = held \ {p}
      /\ UNCHANGED <<heap, listVars, recVars, initVars, exitVars, endVars>>
  BY DEF ReallocFail, Skipped
<1> HIDE DEF c
<1>3. allocs' = allocs /\ UNCHANGED <<recVars, exitVars, missed>>
  BY <1>2 DEF listVars, endVars
<1>4. Steps(t, pc[t], "kept", c)
  BY <1>1, <1>2, GotoGoes
<1>5. Owns(t, p)' /\ \A q \in Addrs : ~ Owns(t, q)
  BY <1>1, <1>4 DEF Owns, Steps, Entering
<1> QED  BY <1>1, <1>2, <1>3, <1>4, <1>5, ListSettles

LEMMA MovedSettles ==
    ASSUME BaseInv, EndInv, NEW t \in Threads, Moved(t)
    PROVE  EndInv'
<1>1. TypeOK /\ pc[t] = "moved" /\ call[t].res \in Addrs
  BY DEF BaseInv, CallInv, Entering, Moved
<1>2. /\ IF Skipped THEN Return(t, call[t].res) ELSE Goto(t, "take", call[t]) /\ UNCHANGED held
      /\ UNCHANGED <<heap, listVars, recVars, initVars, exitVars, endVars>>
  BY DEF Moved
<1>3. allocs' = allocs /\ UNCHANGED <<recVars, exitVars, missed>> /\ heap' = heap
  BY <1>2 DEF listVars, endVars
<1>4. \A q \in Addrs : Owns(t, q) => q = call[t].res
  BY <1>1 DEF Owns
<1>5. CASE Skipped
  <2>1. Steps(t, pc[t], "idle", NoCall) /\ held' = held \cup {call[t].res}
    <3>1. call[t].res # NULL
      BY <1>1
    <3> QED  BY <1>1, <1>2, <1>5, <3>1, GotoGoes DEF Return
  <2>2. \A q \in Addrs : ~ Tied(t, q)'
    BY <2>1 DEF Tied, Steps
  <2>3. \A q \in Addrs : (Owns(t, q) => q \in held') /\ (q \in held => q \in held')
    BY <1>4, <2>1
  <2>4. \A q \in Addrs : heap'[q] # NULL =>
           \/ q \in held' \/ Owns(t, q)'
           \/ heap[q] # NULL /\ ~ Owns(t, q) /\ (q \in held => q \in held')
    BY <1>3, <2>3
  <2> QED  BY <1>1, <1>3, <2>1, <2>2, <2>4, ListSettles
<1>6. CASE ~ Skipped
  <2>1. Steps(t, pc[t], "take", call[t]) /\ held' = held /\ ~ is_exit_done
    BY <1>1, <1>2, <1>6, GotoGoes DEF Skipped
  <2>2. \A q \in Addrs : Owns(t, q) => Owns(t, q)'
    BY <1>4, <2>1 DEF Owns, Steps, Entering
  <2>3. \A q \in Addrs : heap'[q] # NULL =>
           \/ q \in held' \/ Owns(t, q)'
           \/ heap[q] # NULL /\ ~ Owns(t, q) /\ (q \in held => q \in held')
    BY <1>3, <1>4, <2>1, <2>2
  <2> QED  BY <1>1, <1>3, <2>1, <2>3, ListSettles
<1> QED  BY <1>5, <1>6

LEMMA TakeRecordSettles ==
    ASSUME BaseInv, EndInv, NEW t \in Threads, TakeRecord(t)
    PROVE  EndInv'
<1>1. TypeOK /\ pc[t] = "take" /\ call[t] \in Calls
  BY DEF BaseInv, TypeOK, TakeRecord
<1>2. UNCHANGED <<heap, held, allocs, alloc_count, recVars, initVars, exitVars, endVars>>
  BY DEF TakeRecord
<1>3. \E a : Goto(t, "link", [call[t] EXCEPT !.a = a])
  BY DEF TakeRecord
<1>4. PICK c : Goto(t, "link", c) /\ c.res = call[t].res
  BY <1>1, <1>3 DEF Calls
<1>5. allocs' = allocs /\ UNCHANGED <<recVars, exitVars, missed>> /\ heap' = heap /\ held' = held
  BY <1>2 DEF endVars
<1>6. Steps(t, pc[t], "link", c)
  BY <1>1, <1>4, GotoGoes
<1>7. \A q \in Addrs : (Owns(t, q) => Owns(t, q)') /\ (Tied(t, q)' => Tied(t, q))
  BY <1>1, <1>4, <1>6 DEF Owns, Tied, Steps, Entering
<1> QED  BY <1>1, <1>5, <1>6, <1>7, ListSettles

\* alloc_free: the record that is dropped is one of the call's own address.
LEMMA DropSettles ==
    ASSUME BaseInv, EndInv, NEW t \in Threads, NEW w, NEW c, Steps(t, pc[t], w, c),
           w \notin {"untrack", "retrack", "lost", "kept", "take", "link"},
           NEW p \in Addrs, p = call[t].ptr, pc[t] \in {"untrack", "retrack", "lost", "kept"},
           Drop(p), mem' = mem, heap' = heap, UNCHANGED exitVars,
           \A q \in Addrs : missed'[q] \in Nat /\ missed'[q] >= missed[q],
           \A q \in Addrs : /\ q \in held => q \in held'
                            /\ Owns(t, q) => q \in held' \/ Owns(t, q)'
    PROVE  EndInv'
<1>1. TypeOK /\ IsInjective(allocs)
  BY DEF BaseInv, RecInv, RecordsApart
<1>2. PICK r \in Records :
        /\ r \in ToSet(allocs) /\ mem[r] = p
        /\ ToSet(allocs') = ToSet(allocs) \ {r}
  BY <1>1, DropTakes
<1>3. \A q \in Addrs : ~ Tied(t, q) => RecordSet(q)' = RecordSet(q)
  <2> SUFFICES ASSUME NEW q \in Addrs, ~ Tied(t, q) PROVE RecordSet(q)' = RecordSet(q)
    OBVIOUS
  <2>1. q # p
    BY DEF Tied
  <2> QED  BY <1>2, <2>1 DEF RecordSet
<1>4. ListInv'
  BY <1>2 DEF EndInv, ListInv
<1>5. \A q \in Addrs : ~ Tied(t, q)'
  BY DEF Tied, Steps
<1>6. Settles(t)
  BY <1>3, <1>4, <1>5 DEF Settles, Steps
<1> QED  BY <1>1, <1>6, SettlesKeeps

LEMMA UntrackSettles ==
    ASSUME BaseInv, EndInv, NEW t \in Threads, Untrack(t), ~ Abort(call[t].ptr)
    PROVE  EndInv'
<1>1. /\ TypeOK /\ pc[t] = "untrack" /\ call[t].ptr \in Addrs
      /\ Drop(call[t].ptr) /\ Goto(t, "free", call[t])
      /\ UNCHANGED <<heap, held, recVars, initVars, exitVars, endVars>>
  BY DEF BaseInv, CallInv, Untrack
<1>2. Steps(t, pc[t], "free", call[t])
  BY <1>1, GotoGoes
<1>3. \A q \in Addrs : Owns(t, q) => Owns(t, q)'
  BY <1>1, <1>2 DEF Owns, Steps, Entering
<1>4. /\ mem' = mem /\ heap' = heap /\ held' = held
      /\ \A q \in Addrs : missed'[q] \in Nat /\ missed'[q] >= missed[q]
  BY <1>1 DEF recVars, endVars, TypeOK
<1> QED  BY <1>1, <1>2, <1>3, <1>4, DropSettles

LEMMA RetrackSettles ==
    ASSUME BaseInv, EndInv, NEW t \in Threads, Retrack(t), ~ Abort(call[t].ptr)
    PROVE  EndInv'
<1>1. /\ TypeOK /\ pc[t] = "retrack" /\ call[t].ptr \in Addrs
      /\ Drop(call[t].ptr) /\ Goto(t, "moved", call[t])
      /\ UNCHANGED <<heap, held, recVars, initVars, exitVars, endVars>>
  BY DEF BaseInv, CallInv, Retrack
<1>2. Steps(t, pc[t], "moved", call[t])
  BY <1>1, GotoGoes
<1>3. \A q \in Addrs : Owns(t, q) => Owns(t, q)'
  BY <1>1, <1>2 DEF Owns, Steps, Entering
<1>4. /\ mem' = mem /\ heap' = heap /\ held' = held
      /\ \A q \in Addrs : missed'[q] \in Nat /\ missed'[q] >= missed[q]
  BY <1>1 DEF recVars, endVars, TypeOK
<1> QED  BY <1>1, <1>2, <1>3, <1>4, DropSettles

LEMMA LostSettles ==
    ASSUME BaseInv, EndInv, NEW t \in Threads, Lost(t), ~ Abort(call[t].ptr)
    PROVE  EndInv'
<1>1. /\ TypeOK /\ pc[t] = "lost" /\ call[t].ptr \in Addrs
      /\ Drop(call[t].ptr) /\ Return(t, NULL)
      /\ UNCHANGED <<heap, recVars, initVars, exitVars, endVars>>
  BY DEF BaseInv, CallInv, Lost
<1>2. Steps(t, pc[t], "idle", NoCall) /\ held' = held
  BY <1>1, GotoGoes DEF Return
<1>3. \A q \in Addrs : ~ Owns(t, q)
  BY <1>1 DEF Owns, Entering
<1>4. /\ mem' = mem /\ heap' = heap
      /\ \A q \in Addrs : missed'[q] \in Nat /\ missed'[q] >= missed[q]
  BY <1>1 DEF recVars, endVars, TypeOK
<1> QED  BY <1>1, <1>2, <1>3, <1>4, DropSettles

LEMMA KeptSettles ==
    ASSUME BaseInv, EndInv, NEW t \in Threads, Kept(t), ~ Abort(call[t].ptr)
    PROVE  EndInv'
<1> PICK p : p = call[t].ptr
  OBVIOUS
<1>1. /\ TypeOK /\ pc[t] = "kept" /\ p \in Addrs
      /\ Drop(p) /\ Return(t, p) /\ missed' = [missed EXCEPT ![p] = @ + 1]
      /\ UNCHANGED <<heap, recVars, initVars, exitVars, bad_memory, bad_string>>
  BY DEF BaseInv, CallInv, Kept
<1>2. Steps(t, pc[t], "idle", NoCall) /\ held' = held \cup {p}
  BY <1>1, GotoGoes DEF Return
<1>3. \A q \in Addrs : (Owns(t, q) => q \in held') /\ (q \in held => q \in held')
  BY <1>1, <1>2 DEF Owns, Entering
<1>4. /\ mem' = mem /\ heap' = heap
      /\ \A q \in Addrs : missed'[q] \in Nat /\ missed'[q] >= missed[q]
  BY <1>1 DEF recVars, TypeOK
<1> QED  BY <1>1, <1>2, <1>3, <1>4, DropSettles

LEMMA LinkRecordSettles ==
    ASSUME BaseInv, EndInv, NEW t \in Threads, LinkRecord(t)
    PROVE  EndInv'
<1> PICK a : a = call[t].a
  OBVIOUS
<1> PICK p : p = call[t].res
  OBVIOUS
<1>1. /\ pc[t] = "link" /\ mem' = [mem EXCEPT ![a] = p]
      /\ allocs' = << a >> \o allocs /\ Return(t, p)
      /\ UNCHANGED <<heap, alloc_pool, batched, initVars, exitVars, endVars>>
  BY DEF LinkRecord
<1>2. /\ TypeOK /\ a \in Records /\ p \in Addrs /\ allocs \in Seq(Records)
      /\ mem \in [Records -> Addrs \cup {NULL}]
  BY <1>1 DEF BaseInv, CallInv, Entering, TypeOK
<1>3. a \notin ToSet(allocs)
  <2>1. a \in InHand
    BY <1>1 DEF InHand
  <2> QED  BY <2>1 DEF BaseInv, RecInv, RecordsApart
<1>4. ToSet(allocs') = ToSet(allocs) \cup {a}
  BY <1>1, <1>2, ConsKeeps
<1>5. mem'[a] = p /\ \A r \in ToSet(allocs) : mem'[r] = mem[r]
  <2>1. ToSet(allocs) \in SUBSET Records
    BY <1>2 DEF ToSet
  <2> QED  BY <1>1, <1>2, <1>3, <2>1
<1>6. \A q \in Addrs : ~ Tied(t, q) => RecordSet(q)' = RecordSet(q)
  <2> SUFFICES ASSUME NEW q \in Addrs, ~ Tied(t, q) PROVE RecordSet(q)' = RecordSet(q)
    OBVIOUS
  <2>1. q # p
    BY <1>1 DEF Tied
  <2> QED  BY <1>4, <1>5, <2>1 DEF RecordSet
<1>7. ListInv'
  BY <1>2, <1>4, <1>5 DEF EndInv, ListInv
<1>8. Steps(t, pc[t], "idle", NoCall) /\ held' = held \cup {p}
  BY <1>1, <1>2, GotoGoes DEF Return
<1>9. \A q \in Addrs : ~ Tied(t, q)'
  BY <1>8 DEF Tied, Steps
<1>10. \A q \in Addrs : Owns(t, q) => q \in held'
  BY <1>1, <1>8 DEF Owns
<1>11. heap' = heap /\ \A q \in Addrs : missed'[q] \in Nat /\ missed'[q] >= missed[q]
  BY <1>1, <1>2 DEF endVars, TypeOK
<1>12. Settles(t)
  BY <1>1, <1>6, <1>7, <1>8, <1>9, <1>10, <1>11 DEF Settles, Steps
<1> QED  BY <1>2, <1>12, SettlesKeeps

-----------------------------------------------------------------------------
(* The exit and the report                                                 *)

\* At the exit every address that is in no call has one record if a caller holds
\* its block, and none otherwise.
LEMMA ExitSettles ==
    ASSUME HeapInv, EndInv, Exit
    PROVE  EndInv'
<1>1. /\ TypeOK /\ ~ is_exit_done /\ is_exit_done' = TRUE
      /\ at_exit' = [held |-> held \cap Addrs,
                     busy |-> {call[u].ptr : u \in Threads} \cup {call[u].res : u \in Threads}]
      /\ UNCHANGED <<heap, held, listVars, recVars, initVars, report, pc, call, endVars>>
  BY DEF HeapInv, BaseInv, Exit
<1>2. /\ at_exit'.held = held \cap Addrs
      /\ \A u \in Threads : call[u].ptr \in at_exit'.busy /\ call[u].res \in at_exit'.busy
      /\ UNCHANGED <<allocs, mem, missed>>
  BY <1>1 DEF listVars, recVars, endVars
<1>3. HandInv' /\ ListInv'
  BY <1>1, <1>2 DEF EndInv, HandInv, ListInv, Owns
<1>4. TiedInv'
  BY <1>1, <1>2 DEF TiedInv, Tied
<1>5. ASSUME NEW p \in Addrs, p \notin at_exit'.busy, ~ (missed[p] > 0)
      PROVE  /\ p \in held <=> RecordSet(p) # {}
             /\ \A r, s \in RecordSet(p) : r = s
  <2>1. \A u \in Threads : call[u].ptr # p /\ call[u].res # p
    BY <1>2, <1>5
  <2>2. Coming(p) = {} /\ Leaving(p) = {} /\ Gone(p) = {}
    BY <2>1 DEF Coming, Leaving, Gone, To, In
  <2>3. IsFiniteSet(RecordSet(p)) /\ Recs(p) \in Nat /\ missed[p] = 0
    BY <1>1, <1>5, CountsAreNumbers
  <2>4. Balance(p) = 0
    BY <1>1 DEF HeapInv
  <2>5. Recs(p) = One(p \in Live)
    <3>1. One(p \in Live) \in Int /\ Cardinality({}) = 0
      BY FS_EmptySet DEF One
    <3> QED  BY <2>2, <2>3, <2>4, <3>1 DEF Balance
  <2>6. p \in held <=> p \in Live
    <3>1. \A u \in Threads : ~ Owns(u, p)
      BY <2>1 DEF Owns
    <3> QED  BY <3>1 DEF EndInv, HandInv, HeapInv, BaseInv, OwnInv, Live
  <2>7. CASE p \in held
    <3>1. Recs(p) = 1
      BY <2>5, <2>6, <2>7 DEF One
    <3>2. \E r : RecordSet(p) = {r}
      BY <2>3, <3>1, FS_Singleton DEF Recs
    <3> QED  BY <2>7, <3>2
  <2>8. CASE p \notin held
    <3>1. Recs(p) = 0
      BY <2>5, <2>6, <2>8 DEF One
    <3>2. RecordSet(p) = {}
      BY <2>3, <3>1, FS_EmptySet DEF Recs
    <3> QED  BY <2>8, <3>2
  <2> QED  BY <2>7, <2>8
<1>6. KeptInv'
  <2>1. \A p : RecordSet(p)' = RecordSet(p)
    BY <1>2 DEF RecordSet
  <2>2. \A p \in Addrs : ~ Left(p)' => p \notin at_exit'.busy /\ ~ (missed[p] > 0)
    BY <1>2 DEF Left
  <2> QED  BY <1>2, <1>5, <2>1, <2>2 DEF KeptInv
<1>7. report = NULL /\ report' = NULL
  BY <1>1 DEF EndInv
<1> QED  BY <1>1, <1>3, <1>4, <1>6, <1>7 DEF EndInv, ReportExact

\* The report shows each record of the list once (378-408).
Shown(R) == {[a |-> r, mem |-> mem[r]] : r \in R}

LEMMA ShownOnce ==
    ASSUME NEW R, IsFiniteSet(R)
    PROVE  IsFiniteSet(Shown(R)) /\ Cardinality(Shown(R)) = Cardinality(R)
<1> DEFINE f == [r \in R |-> [a |-> r, mem |-> mem[r]]]
<1>1. f \in [R -> Shown(R)]
  BY DEF Shown
<1>2. \A r, s \in R : f[r] = f[s] => r = s
  <2> SUFFICES ASSUME NEW r \in R, NEW s \in R, f[r] = f[s] PROVE r = s
    OBVIOUS
  <2>1. f[r].a = f[s].a
    OBVIOUS
  <2> QED  BY <2>1
<1>3. \A x \in Shown(R) : \E r \in R : f[r] = x
  BY DEF Shown
<1> HIDE DEF f
<1>4. f \in Bijection(R, Shown(R))
  BY <1>1, <1>2, <1>3, Fun_IsBij
<1>5. ExistsBijection(R, Shown(R))
  BY <1>4 DEF ExistsBijection
<1> QED  BY <1>5, FS_Bijection

LEMMA ReportSettles ==
    ASSUME HeapInv, EndInv, Report
    PROVE  EndInv'
<1> DEFINE L == ToSet(allocs)
<1>1. /\ TypeOK /\ RecordsApart /\ is_exit_done /\ report = NULL
      /\ report' = [leaks |-> Shown(L \ Suppressed), suppressed |-> Shown(Suppressed),
                    count |-> alloc_count - Cardinality(Suppressed)]
      /\ UNCHANGED <<heap, held, listVars, recVars, initVars, is_exit_done, at_exit, pc, call, endVars>>
  BY DEF HeapInv, BaseInv, RecInv, Report, Shown
<1>2. UNCHANGED <<allocs, mem, missed>>
  BY <1>1 DEF listVars, recVars, endVars
<1>3. HandInv' /\ ListInv' /\ TiedInv' /\ KeptInv'
  BY <1>1, <1>2 DEF EndInv, HandInv, ListInv, TiedInv, KeptInv, Owns, Tied, Left, RecordSet
<1>4. Suppressed \in SUBSET L
  BY DEF Suppressed
<1>5. IsFiniteSet(L) /\ Cardinality(L) = Len(allocs)
  <2>1. allocs \in Seq(Records) /\ IsInjective(allocs)
    BY <1>1 DEF TypeOK, RecordsApart
  <2>2. /\ DOMAIN allocs = 1 .. Len(allocs) /\ Len(allocs) \in Nat
        /\ allocs \in [1 .. Len(allocs) -> L] /\ \A x \in L : \E i \in DOMAIN allocs : allocs[i] = x
    BY <2>1 DEF ToSet
  <2>3. allocs \in Bijection(1 .. Len(allocs), L)
    BY <2>1, <2>2, Fun_IsBij DEF IsInjective
  <2>4. ExistsBijection(1 .. Len(allocs), L)
    BY <2>3 DEF ExistsBijection
  <2>5. Len(allocs) \in Nat /\ IsFiniteSet(1 .. Len(allocs))
    BY <2>2, FS_Interval
  <2>6. IsFiniteSet(L)
    BY <2>4, <2>5, FS_Bijection
  <2>7. Cardinality(L) = Len(allocs)
    BY <2>4, <2>5, FS_CountingElements
  <2> QED  BY <2>6, <2>7
<1> HIDE DEF L
<1>6. /\ IsFiniteSet(Suppressed) /\ IsFiniteSet(L \ Suppressed)
      /\ Cardinality(L \ Suppressed) = Len(allocs) - Cardinality(Suppressed)
  <2>1. IsFiniteSet(Suppressed) /\ L \cap Suppressed = Suppressed
    BY <1>4, <1>5, FS_Subset
  <2>2. IsFiniteSet(L \ Suppressed)
    BY <1>5, FS_Difference
  <2>3. Cardinality(L \ Suppressed) = Cardinality(L) - Cardinality(L \cap Suppressed)
    BY <1>5, FS_Difference
  <2> QED  BY <1>5, <2>1, <2>2, <2>3
<1>7. report'.count = Cardinality(report'.leaks)
  BY <1>1, <1>6, ShownOnce DEF RecordsApart
<1> DEFINE found == report'.leaks \cup report'.suppressed
           left  == {p \in Addrs : Left(p)}
<1>8. found = Shown(L)
  BY <1>1, <1>4 DEF Shown
<1>9. {x.mem : x \in found} = {mem[r] : r \in L}
  <2>1. \A x \in found : \E r \in L : x.mem = mem[r]
    BY <1>8 DEF Shown
  <2>2. ASSUME NEW r \in L PROVE \E x \in found : x.mem = mem[r]
    <3>1. [a |-> r, mem |-> mem[r]] \in found
      BY <1>8 DEF Shown
    <3> QED  BY <3>1
  <2> HIDE DEF found
  <2> QED  BY <2>1, <2>2
<1>10. \A p \in Addrs \ left : /\ p \in at_exit.held <=> p \in {mem[r] : r \in L}
                               /\ \A r, s \in L : mem[r] = p /\ mem[s] = p => r = s
  BY <1>1 DEF EndInv, KeptInv, RecordSet, L
<1>11. \A r \in L : mem[r] \in Addrs
  BY DEF EndInv, ListInv, L
<1>12. {mem[r] : r \in L} \in SUBSET Addrs /\ at_exit.held \in SUBSET Addrs
  BY <1>1, <1>11 DEF EndInv, KeptInv
<1>13. {x.mem : x \in found} \ left = at_exit.held \ left
  BY <1>9, <1>10, <1>12
<1>14. ASSUME NEW x \in found, NEW y \in found, x.mem = y.mem, x.mem \notin left
       PROVE  x = y
  <2>1. PICK r \in L : x = [a |-> r, mem |-> mem[r]]
    BY <1>8 DEF Shown
  <2>2. PICK s \in L : y = [a |-> s, mem |-> mem[s]]
    BY <1>8 DEF Shown
  <2>3. r = s
    BY <1>10, <1>11, <1>14, <2>1, <2>2
  <2> QED  BY <2>1, <2>2, <2>3
<1>15. ReportExact'
  <2>1. left = {p \in Addrs : p \in at_exit'.busy \/ missed'[p] > 0}
    BY <1>1, <1>2 DEF Left
  <2>2. at_exit' = at_exit
    BY <1>1
  <2> QED  BY <1>7, <1>13, <1>14, <2>1, <2>2 DEF ReportExact
<1> QED  BY <1>1, <1>3, <1>15 DEF EndInv

\* The start of the program, and the steps that touch neither list nor calls.
LEMMA AsideSettles ==
    ASSUME EndInv, UNCHANGED <<heap, allocs, mem, exitVars, pc, call, missed>>,
           held \subseteq held'
    PROVE  EndInv'
<1>1. UNCHANGED <<is_exit_done, report, at_exit>>
  BY DEF exitVars
<1>2. HandInv' /\ ListInv' /\ TiedInv' /\ KeptInv'
  BY <1>1 DEF EndInv, HandInv, ListInv, TiedInv, KeptInv, Owns, Tied, Left, RecordSet
<1>3. ReportExact'
  BY <1>1 DEF EndInv, ReportExact
<1> QED  BY <1>1, <1>2, <1>3 DEF EndInv

LEMMA EndStarts == Init => EndInv
<1> SUFFICES ASSUME Init PROVE EndInv
  OBVIOUS
<1>1. /\ \A p \in Addrs : heap[p] = NULL
      /\ ~ is_exit_done /\ report = NULL /\ ToSet(allocs) = {}
  BY DEF Init, ToSet
<1> QED  BY <1>1 DEF EndInv, HandInv, ListInv, TiedInv, KeptInv, ReportExact

LEMMA EndStep == HeapInv /\ EndInv /\ [Next]_vars => EndInv'
<1> SUFFICES ASSUME HeapInv, EndInv, [Next]_vars PROVE EndInv'
  OBVIOUS
<1>1. BaseInv
  BY DEF HeapInv
<1>2. CASE \E t \in Threads : Calling(t)
  <2>1. PICK t \in Threads : Calling(t)
    BY <1>2
  <2>2. pc[t] = "idle"
    BY <2>1 DEF Calling
  <2>3. CASE \E s \in Sizes, lib \in BOOLEAN : Allocate(t, s, lib)
    BY <1>1, <2>2, <2>3, AllocateSettles
  <2>4. CASE \E p \in held : Free(t, p)
    BY <1>1, <2>2, <2>4, FreeSettles
  <2>5. CASE \E p \in held, s \in Sizes : ReallocStatic(t, p, s)
    BY <1>1, <2>2, <2>5, ReallocStaticSettles
  <2>6. CASE \E p \in held \cap Addrs : ReallocFree(t, p)
    BY <1>1, <2>2, <2>6, ReallocFreeSettles
  <2>7. CASE \E p \in held \cap Addrs : ReallocFail(t, p)
    BY <1>1, <2>2, <2>7, ReallocFailSettles
  <2>8. CASE \E p \in held \cap Addrs, s \in Sizes : ReallocInPlace(p, s)
    BY <1>1, <2>2, <2>8, ReallocInPlaceSettles
  <2>9. CASE \E p \in held \cap Addrs, s \in Sizes : ReallocMove(t, p, s)
    BY <1>1, <2>2, <2>9, ReallocMoveSettles
  <2>10. CASE StrdupLate \/ \E p \in held : StringStatic(p)
    <3>1. UNCHANGED <<heap, allocs, mem, exitVars, pc, call, missed>> /\ held' = held
      BY <2>10 DEF StrdupLate, StringStatic, listVars, recVars
    <3> QED  BY <3>1, AsideSettles
  <2> QED  BY <2>1, <2>3, <2>4, <2>5, <2>6, <2>7, <2>8, <2>9, <2>10 DEF Calling
<1>3. CASE \E t \in Threads : InCall(t)
  <2>1. PICK t \in Threads : InCall(t)
    BY <1>3
  <2>2. CASE TakeRecord(t)
    BY <1>1, <2>2, TakeRecordSettles
  <2>3. CASE LinkRecord(t)
    BY <1>1, <2>3, LinkRecordSettles
  <2>4. CASE Release(t)
    BY <1>1, <2>4, ReleaseSettles
  <2>5. CASE Moved(t)
    BY <1>1, <2>5, MovedSettles
  <2>6. CASE Untrack(t) \/ Retrack(t) \/ Lost(t) \/ Kept(t)
    <3>1. CASE Abort(call[t].ptr)
      <4>1. UNCHANGED <<heap, allocs, mem, exitVars, pc, call, missed>> /\ held' = held
        BY <3>1 DEF Abort, listVars, recVars
      <4> QED  BY <4>1, AsideSettles
    <3>2. CASE ~ Abort(call[t].ptr)
      BY <1>1, <2>6, <3>2, UntrackSettles, RetrackSettles, LostSettles, KeptSettles
    <3> QED  BY <3>1, <3>2
  <2> QED  BY <2>1, <2>2, <2>3, <2>4, <2>5, <2>6 DEF InCall
<1>4. CASE Exit
  BY <1>4, ExitSettles
<1>5. CASE Report
  BY <1>5, ReportSettles
<1>6. CASE InitBegin \/ InitEnd \/ (\E p \in Static : StaticMalloc(p)) \/ UNCHANGED vars
  <2>1. UNCHANGED <<heap, allocs, mem, exitVars, pc, call, missed>> /\ held \subseteq held'
    BY <1>6 DEF InitBegin, InitEnd, StaticMalloc, vars, listVars, recVars, endVars
  <2> QED  BY <2>1, AsideSettles
<1> QED  BY <1>2, <1>3, <1>4, <1>5, <1>6 DEF Next

-----------------------------------------------------------------------------
(* The theorems                                                            *)

\* Every variable of the tracker has its type, whatever threads call.
THEOREM TypeOKAlways == Spec => []TypeOK
<1>1. HeapInv => TypeOK
  BY DEF HeapInv, BaseInv
<1> QED  BY <1>1, HeapInvAlways, PTL

\* Between the two locks of alloc_trace_new (168-200) a record is in the hand of
\* its thread alone, and alloc_count is the length of the list.
THEOREM RecordsApartAlways == Spec => []RecordsApart
<1>1. HeapInv => RecordsApart
  BY DEF HeapInv, BaseInv, RecInv
<1> QED  BY <1>1, HeapInvAlways, PTL

\* Before the exit an address has as many records as it is allocated, up to the
\* calls under way.
THEOREM TableExactAlways == Spec => []TableExact
<1>1. HeapInv => TableExact
  <2> SUFFICES ASSUME HeapInv, ~ is_exit_done, NEW q \in Addrs
               PROVE  Cardinality({r \in ToSet(allocs) : mem[r] = q}) + missed[q]
                        + Cardinality(To({"retrack", "moved", "take", "link"}, q))
                        + Cardinality(In({"free"}, q))
                      = One(q \in Live) + Cardinality(In({"retrack", "lost"}, q))
    BY DEF TableExact
  <2>1. Balance(q) = 0 /\ TypeOK
    BY DEF HeapInv, BaseInv
  <2>2. Recs(q) + missed[q] + Cardinality(Coming(q)) + Cardinality(Leaving(q))
          = One(q \in Live) + Cardinality(Gone(q))
    BY <2>1, BalanceIsEquation
  <2> QED  BY <2>2 DEF Recs, RecordSet, Coming, Leaving, Gone, Entering
<1> QED  BY <1>1, HeapInvAlways, PTL

\* "freeing bad memory" (234) is said of no block but one whose address has lost a
\* record to a realloc that failed.
THEOREM NoFalseAlarmAlways == Spec => []NoFalseAlarm
<1>1. HeapInv => NoFalseAlarm
  BY DEF HeapInv
<1> QED  BY <1>1, HeapInvAlways, PTL

\* What the report shows at exit, when there is one, are the blocks held then, once
\* each, and its count is that of the leaks, however calls overlap the exit or come
\* between it and the walk over the list (README.md of heap_help, 7-9;
\* heap_help.c:363, 378-408).
THEOREM ReportExactAlways == Spec => []ReportExact
<1>1. Init => EndInv
  BY EndStarts
<1>2. HeapInv /\ EndInv /\ [Next]_vars => EndInv'
  BY EndStep
<1>3. EndInv => ReportExact
  BY DEF EndInv
<1> QED  BY <1>1, <1>2, <1>3, HeapInvAlways, PTL DEF Spec

=============================================================================
