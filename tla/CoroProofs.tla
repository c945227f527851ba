----------------------------- MODULE CoroProofs -----------------------------
(***************************************************************************)
(* What holds of the coroutine library for any number of coroutines.  The  *)
(* links alone do not say that the list reaches all of them, since a       *)
(* circle would be linked both ways too; so the invariant gives the list   *)
(* as a sequence, and ListExact follows from that.                         *)
(***************************************************************************)
EXTENDS Coro, FiniteSetTheorems, TLAPS

CoroInv ==
    /\ TypeOK
    /\ \E n \in Nat : \E s : IsList(n, s)
    /\ OnlyLiveRuns

USE CoroAssumption

-----------------------------------------------------------------------------
(* The list                                                                *)

\* The links lead both ways between coroutines that are in the list.
ListSound ==
    /\ coro_list = NULL <=> Listed = {}
    /\ coro_list # NULL => coro_list \in Listed /\ prev[coro_list] = NULL
    /\ \A c \in Listed :
          /\ next[c] # NULL => next[c] \in Listed /\ prev[next[c]] = c
          /\ prev[c] # NULL => prev[c] \in Listed /\ next[prev[c]] = c
          /\ prev[c] = NULL => c = coro_list

\* A sequence that is the list is linked soundly (50-74).
LEMMA ListIsSound ==
    ASSUME TypeOK, NEW n \in Nat, NEW s, IsList(n, s)
    PROVE  ListSound
<1>1. coro_list = NULL <=> n = 0
  BY DEF IsList
<1>2. Listed = {} <=> n = 0
  BY DEF IsList
<1>3. coro_list # NULL => coro_list \in Listed /\ prev[coro_list] = NULL
  BY <1>1 DEF IsList
<1>4. ASSUME NEW c \in Listed
      PROVE  /\ next[c] # NULL => next[c] \in Listed /\ prev[next[c]] = c
             /\ prev[c] # NULL => prev[c] \in Listed /\ next[prev[c]] = c
             /\ prev[c] = NULL => c = coro_list
  <2>1. PICK i \in 1 .. n : c = s[i]
    BY DEF IsList
  <2>2. i # n => i + 1 \in 1 .. n /\ (i + 1) - 1 = i /\ i + 1 # 1
    OBVIOUS
  <2>3. i # n => next[c] = s[i + 1] /\ prev[s[i + 1]] = s[i]
    BY <2>1, <2>2 DEF IsList
  <2>4. prev[c] # NULL => prev[c] \in Listed /\ next[prev[c]] = c
    BY <2>1 DEF IsList
  <2>5. prev[c] = NULL => c = coro_list
    BY <2>1 DEF IsList
  <2>6. next[c] # NULL => next[c] \in Listed /\ prev[next[c]] = c
    BY <2>1, <2>2, <2>3 DEF IsList
  <2> QED  BY <2>4, <2>5, <2>6
<1> QED  BY <1>1, <1>2, <1>3, <1>4 DEF ListSound

\* Where the links, the list and its members stay, the sequence is the same.
LEMMA SameList ==
    ASSUME NEW n \in Nat, NEW s, IsList(n, s),
           UNCHANGED <<coro_list, next, prev>>, Listed' = Listed
    PROVE  IsList(n, s)'
BY DEF IsList

\* coro_list_add puts the new coroutine before the others (53-61).
LEMMA NewListed ==
    ASSUME TypeOK, NEW n \in Nat, NEW s, IsList(n, s), NEW c \in Coros, New(c)
    PROVE  \E m \in Nat : \E z : IsList(m, z)'
<1> DEFINE z == [i \in 1 .. n + 1 |-> IF i = 1 THEN c ELSE s[i - 1]]
<1>1. c \notin Listed /\ Listed' = Listed \cup {c}
  BY DEF New, Listed, TypeOK
<1>2. \A i \in 1 .. n : s[i] \in Listed /\ s[i] # c
  BY <1>1 DEF IsList
<1>3. \A i \in 2 .. n + 1 : i - 1 \in 1 .. n /\ (i - 1) + 1 = i
  OBVIOUS
<1>4. z \in [1 .. n + 1 -> Coros] /\ z[1] = c /\ \A i \in 2 .. n + 1 : z[i] = s[i - 1]
  BY <1>3 DEF IsList
<1> HIDE DEF z
<1>5. \A i, j \in 1 .. n + 1 : z[i] = z[j] => i = j
  BY <1>2, <1>3, <1>4 DEF IsList
<1>6. Listed' = {z[i] : i \in 1 .. n + 1}
  <2>1. ASSUME NEW i \in 1 .. n PROVE i + 1 \in 2 .. n + 1 /\ z[i + 1] = s[i]
    BY <1>4
  <2>2. Listed = {s[i] : i \in 1 .. n}
    BY DEF IsList
  <2>3. \A d \in Listed' : \E i \in 1 .. n + 1 : d = z[i]
    BY <1>1, <1>4, <2>1, <2>2
  <2>4. \A i \in 1 .. n + 1 : z[i] \in Listed'
    BY <1>1, <1>2, <1>3, <1>4
  <2> QED  BY <2>3, <2>4
<1>7. coro_list' = z[1]
  BY <1>4 DEF New
<1>8. ASSUME NEW i \in 1 .. n + 1
      PROVE  /\ next'[z[i]] = IF i = n + 1 THEN NULL ELSE z[i + 1]
             /\ prev'[z[i]] = IF i = 1 THEN NULL ELSE z[i - 1]
  <2>1. CASE i = 1
    <3>1. next'[c] = coro_list /\ prev'[c] = NULL
      BY DEF New, TypeOK
    <3>2. coro_list = IF n = 0 THEN NULL ELSE z[2]
      BY <1>4 DEF IsList
    <3> QED  BY <2>1, <3>1, <3>2, <1>4
  <2>2. CASE i # 1
    <3>1. z[i] = s[i - 1] /\ i - 1 \in 1 .. n /\ z[i] # c /\ z[i] \in Coros
      BY <1>2, <1>3, <1>4, <2>2
    <3>2. next'[z[i]] = next[s[i - 1]]
      BY <3>1 DEF New, TypeOK
    <3>3. next[s[i - 1]] = IF i - 1 = n THEN NULL ELSE s[(i - 1) + 1]
      BY <3>1 DEF IsList
    <3>4. i # n + 1 => z[i + 1] = s[i]
      BY <1>4, <3>1
    <3>5. CASE i = 2
      <4>1. s[1] = coro_list
        BY <3>1, <3>5 DEF IsList
      <4> QED  BY <1>4, <3>1, <3>2, <3>3, <3>4, <3>5, <4>1 DEF New, TypeOK
    <3>6. CASE i # 2
      <4>1. s[i - 1] # coro_list /\ prev[s[i - 1]] = s[(i - 1) - 1]
        BY <2>2, <3>1, <3>6 DEF IsList
      <4>2. prev'[z[i]] = prev[s[i - 1]]
        BY <3>1, <4>1 DEF New, TypeOK
      <4>3. z[i - 1] = s[(i - 1) - 1]
        BY <1>4, <2>2, <3>1, <3>6
      <4> QED  BY <2>2, <3>1, <3>2, <3>3, <3>4, <4>1, <4>2, <4>3
    <3> QED  BY <3>5, <3>6
  <2> QED  BY <2>1, <2>2
<1>9. IsList(n + 1, z)'
  BY <1>4, <1>5, <1>6, <1>7, <1>8 DEF IsList
<1> QED  BY <1>9

\* coro_list_delete takes a coroutine out and leaves the others in order (65-74).
LEMMA UnlinkListed ==
    ASSUME TypeOK, NEW n \in Nat, NEW s, IsList(n, s), NEW c \in Finished, WaitReturn(c)
    PROVE  \E m \in Nat : \E z : IsList(m, z)'
<1>1. Listed' = Listed \ {c} /\ c \in Listed /\ c \in Coros
  BY DEF WaitReturn, Listed, Finished, TypeOK
<1>2. PICK k \in 1 .. n : c = s[k]
  BY <1>1 DEF IsList
<1>3. n - 1 \in Nat /\ \A i \in 1 .. n - 1 : i \in 1 .. n /\ i + 1 \in 1 .. n
  BY <1>2
<1> DEFINE z == [i \in 1 .. n - 1 |-> IF i < k THEN s[i] ELSE s[i + 1]]
<1>4. z \in [1 .. n - 1 -> Coros] /\ \A i \in 1 .. n - 1 : z[i] = IF i < k THEN s[i] ELSE s[i + 1]
  BY <1>3 DEF IsList
<1> HIDE DEF z
<1>5. ASSUME NEW i \in 1 .. n - 1, NEW j \in 1 .. n - 1, z[i] = z[j] PROVE i = j
  <2>1. \A a, b \in 1 .. n : s[a] = s[b] => a = b
    BY DEF IsList
  <2>2. /\ i \in 1 .. n /\ i + 1 \in 1 .. n
        /\ j \in 1 .. n /\ j + 1 \in 1 .. n
    BY <1>3
  <2>3. CASE i < k /\ j < k
    BY <1>4, <1>5, <2>1, <2>2, <2>3
  <2>4. CASE i < k /\ ~ (j < k)
    <3>1. s[i] = s[j + 1]
      BY <1>4, <1>5, <2>4
    <3>2. i = j + 1
      BY <2>1, <2>2, <3>1
    <3> QED  BY <2>2, <2>4, <3>2
  <2>5. CASE ~ (i < k) /\ j < k
    <3>1. s[i + 1] = s[j]
      BY <1>4, <1>5, <2>5
    <3>2. i + 1 = j
      BY <2>1, <2>2, <3>1
    <3> QED  BY <2>2, <2>5, <3>2
  <2>6. CASE ~ (i < k) /\ ~ (j < k)
    <3>1. s[i + 1] = s[j + 1]
      BY <1>4, <1>5, <2>6
    <3>2. i + 1 = j + 1
      BY <2>1, <2>2, <3>1
    <3> QED  BY <3>2
  <2> QED  BY <2>3, <2>4, <2>5, <2>6
<1>6. Listed' = {z[i] : i \in 1 .. n - 1}
  <2>1. ASSUME NEW d \in Listed' PROVE \E i \in 1 .. n - 1 : d = z[i]
    <3>1. PICK i \in 1 .. n : d = s[i]
      BY <1>1 DEF IsList
    <3>2. i # k
      BY <1>1, <1>2, <3>1
    <3>3. CASE i < k
      BY <1>4, <3>1, <3>3
    <3>4. CASE i > k
      <4>1. i - 1 \in 1 .. n - 1 /\ ~ (i - 1 < k) /\ (i - 1) + 1 = i
        BY <3>4
      <4> QED  BY <1>4, <3>1, <4>1
    <3> QED  BY <3>2, <3>3, <3>4
  <2>2. ASSUME NEW i \in 1 .. n - 1 PROVE z[i] \in Listed'
    <3>1. PICK j \in 1 .. n : z[i] = s[j] /\ j # k
      BY <1>3, <1>4
    <3> QED  BY <1>1, <1>2, <3>1 DEF IsList
  <2> QED  BY <2>1, <2>2
<1>7. /\ next' = [d \in Coros |-> IF d = prev[c] THEN next[c] ELSE next[d]]
      /\ prev' = [d \in Coros |-> IF d = next[c] THEN prev[c] ELSE prev[d]]
      /\ coro_list' = IF prev[c] = NULL THEN next[c] ELSE coro_list
  BY DEF WaitReturn, Unlink
<1>8. /\ prev[c] = IF k = 1 THEN NULL ELSE s[k - 1]
      /\ next[c] = IF k = n THEN NULL ELSE s[k + 1]
  BY <1>2 DEF IsList
<1>9. coro_list' = IF n - 1 = 0 THEN NULL ELSE z[1]
  <2>1. CASE k = 1
    <3>1. prev[c] = NULL /\ coro_list' = next[c]
      BY <1>7, <1>8, <2>1
    <3> QED  BY <1>4, <1>8, <2>1, <3>1
  <2>2. CASE k # 1
    <3>1. prev[c] # NULL /\ coro_list' = coro_list
      BY <1>7, <1>8, <2>2 DEF IsList
    <3>2. coro_list = s[1] /\ n - 1 # 0
      BY <2>2 DEF IsList
    <3> QED  BY <1>4, <2>2, <3>1, <3>2
  <2> QED  BY <2>1, <2>2
<1>10. ASSUME NEW i \in 1 .. n - 1
       PROVE  /\ next'[z[i]] = IF i = n - 1 THEN NULL ELSE z[i + 1]
              /\ prev'[z[i]] = IF i = 1 THEN NULL ELSE z[i - 1]
  <2>1. z[i] \in Coros /\ i \in 1 .. n /\ i + 1 \in 1 .. n
    BY <1>3, <1>4
  <2>2. next'[z[i]] = IF i = n - 1 THEN NULL ELSE z[i + 1]
    <3>1. CASE i = k - 1
      <4>1. z[i] = s[k - 1] /\ next'[z[i]] = next[c]
        BY <1>4, <1>7, <1>8, <2>1, <3>1
      <4>2. i = n - 1 <=> k = n
        BY <3>1
      <4>3. k # n => z[i + 1] = s[k + 1]
        BY <1>4, <3>1
      <4> QED  BY <1>8, <4>1, <4>2, <4>3
    <3>2. CASE i < k - 1
      <4>1. z[i] = s[i] /\ z[i + 1] = s[i + 1] /\ i # n - 1 /\ i # n
        BY <1>4, <3>2
      <4>2. s[i] # prev[c]
        BY <1>8, <2>1, <3>2 DEF IsList
      <4>3. next'[z[i]] = next[s[i]]
        BY <1>7, <2>1, <4>1, <4>2
      <4> QED  BY <2>1, <4>1, <4>3 DEF IsList
    <3>3. CASE i > k - 1
      <4>1. z[i] = s[i + 1] /\ (i # n - 1 => z[i + 1] = s[(i + 1) + 1])
        BY <1>4, <3>3
      <4>2. s[i + 1] # prev[c]
        BY <1>8, <2>1, <3>3 DEF IsList
      <4>3. next'[z[i]] = next[s[i + 1]]
        BY <1>7, <2>1, <4>1, <4>2
      <4>4. next[s[i + 1]] = IF i + 1 = n THEN NULL ELSE s[(i + 1) + 1]
        BY <2>1 DEF IsList
      <4>5. i + 1 = n <=> i = n - 1
        OBVIOUS
      <4> QED  BY <4>1, <4>3, <4>4, <4>5
    <3> QED  BY <3>1, <3>2, <3>3
  <2>3. prev'[z[i]] = IF i = 1 THEN NULL ELSE z[i - 1]
    <3>1. CASE i = k
      <4>1. z[i] = s[k + 1] /\ k # n /\ prev'[z[i]] = prev[c]
        BY <1>4, <1>7, <1>8, <2>1, <3>1
      <4>2. k # 1 => z[i - 1] = s[k - 1]
        BY <1>4, <3>1
      <4> QED  BY <1>8, <3>1, <4>1, <4>2
    <3>2. CASE i < k
      <4>1. z[i] = s[i] /\ (i # 1 => z[i - 1] = s[i - 1])
        BY <1>4, <3>2
      <4>2. s[i] # next[c]
        BY <1>8, <2>1, <3>2 DEF IsList
      <4>3. prev'[z[i]] = prev[s[i]]
        BY <1>7, <2>1, <4>1, <4>2
      <4> QED  BY <2>1, <4>1, <4>3 DEF IsList
    <3>3. CASE i > k
      <4>1. z[i] = s[i + 1] /\ z[i - 1] = s[i] /\ i # 1
        BY <1>4, <3>3
      <4>2. s[i + 1] # next[c]
        BY <1>8, <2>1, <3>3 DEF IsList
      <4>3. prev'[z[i]] = prev[s[i + 1]]
        BY <1>7, <2>1, <4>1, <4>2
      <4>4. prev[s[i + 1]] = s[(i + 1) - 1] /\ (i + 1) - 1 = i
        BY <2>1 DEF IsList
      <4> QED  BY <4>1, <4>3, <4>4
    <3> QED  BY <3>1, <3>2, <3>3
  <2> QED  BY <2>2, <2>3
<1>11. IsList(n - 1, z)'
  BY <1>3, <1>4, <1>5, <1>6, <1>9, <1>10 DEF IsList
<1> QED  BY <1>3, <1>11
-----------------------------------------------------------------------------
(* The invariant                                                           *)

LEMMA CoroInit == Init => CoroInv
<1> SUFFICES ASSUME Init PROVE CoroInv
  OBVIOUS
<1>1. TypeOK
  BY DEF Init, TypeOK, Contexts
<1>2. Listed = {} /\ Finished = {}
  BY DEF Init, Listed, Finished
<1>3. IsList(0, [i \in 1 .. 0 |-> SCHED])
  BY <1>2 DEF Init, IsList
<1>4. OnlyLiveRuns
  BY <1>2 DEF Init, OnlyLiveRuns
<1> QED  BY <1>1, <1>3, <1>4 DEF CoroInv

\* Where coro_yield leads to lives, and no other is finished (115-120).
LEMMA SuccessorLives ==
    ASSUME CoroInv, Yield
    PROVE  /\ Finished = {}
           /\ Successor # SCHED => Successor \in Coros /\ life[Successor] = "ready"
                                   /\ is_sched_waiting /\ in_wait
<1>1. PICK n \in Nat : \E s : IsList(n, s)
  BY DEF CoroInv
<1>1a. PICK s : IsList(n, s)
  BY <1>1
<1>2. ListSound
  BY <1>1a, ListIsSound DEF CoroInv
<1>3. Finished = {}
  BY DEF Yield, CoroInv, OnlyLiveRuns, TypeOK, Contexts
<1>4. \A c \in Listed : c \in Coros /\ life[c] = "ready"
  BY <1>3 DEF Listed, Finished
<1>5. ASSUME Successor # SCHED PROVE /\ Successor \in Listed
                                     /\ is_sched_waiting /\ in_wait
  <2>1. coro_this \in Coros /\ next[coro_this] # NULL /\ Successor = next[coro_this]
    BY <1>5 DEF Successor, CoroInv, TypeOK, Contexts
  <2>2. coro_this \in Listed /\ is_sched_waiting /\ in_wait
    BY <2>1 DEF CoroInv, OnlyLiveRuns, Listed
  <2> QED  BY <1>2, <2>1, <2>2 DEF ListSound
<1> QED  BY <1>3, <1>4, <1>5

\* Whom coro_sched_wait resumes lives (133-141).
LEMMA HeadLives ==
    ASSUME CoroInv, coro_list # NULL, Finished = {}
    PROVE  coro_list \in Coros /\ life[coro_list] = "ready"
<1>1. PICK n \in Nat : \E s : IsList(n, s)
  BY DEF CoroInv
<1>1a. PICK s : IsList(n, s)
  BY <1>1
<1>2. ListSound
  BY <1>1a, ListIsSound DEF CoroInv
<1>3. coro_list \in Listed
  BY <1>2 DEF ListSound
<1> QED  BY <1>3 DEF Listed, Finished

LEMMA CoroStep == CoroInv /\ [Next]_coroVars => CoroInv'
<1> SUFFICES ASSUME CoroInv, [Next]_coroVars PROVE CoroInv'
  OBVIOUS
<1> USE DEF CoroInv
<1>0. PICK n \in Nat : \E s : IsList(n, s)
  OBVIOUS
<1>0a. PICK s : IsList(n, s)
  BY <1>0
<1>1. CASE Yield
  <2>1. Listed' = Listed /\ Finished' = Finished
    BY <1>1 DEF Yield, Listed, Finished
  <2>2. IsList(n, s)'
    BY <1>0a, <1>1, <2>1, SameList DEF Yield
  <2>3. Successor \in Contexts
    BY <1>1, SuccessorLives DEF Contexts
  <2>4. TypeOK'
    BY <1>1, <2>3 DEF Yield, TypeOK, SwitchTo, StillWaiting
  <2>5. OnlyLiveRuns'
    BY <1>1, <2>1, SuccessorLives DEF Yield, OnlyLiveRuns, SwitchTo, StillWaiting, TypeOK
  <2> QED  BY <2>2, <2>4, <2>5
<1>2. CASE Finish
  <2>1. coro_this \in Coros /\ life[coro_this] = "ready" /\ in_wait /\ Finished = {}
    BY <1>2 DEF Finish, OnlyLiveRuns
  <2>2. Listed' = Listed /\ Finished' = {coro_this}
    BY <1>2, <2>1 DEF Finish, Listed, Finished, TypeOK
  <2>3. IsList(n, s)'
    BY <1>0a, <1>2, <2>2, SameList DEF Finish
  <2>4. TypeOK'
    BY <1>2 DEF Finish, TypeOK, Contexts
  <2>5. OnlyLiveRuns'
    BY <1>2, <2>1, <2>2 DEF Finish, OnlyLiveRuns
  <2> QED  BY <2>3, <2>4, <2>5
<1>3. CASE WaitResume
  <2>1. Listed' = Listed /\ Finished' = {}
    BY <1>3 DEF WaitResume, Listed, Finished
  <2>2. coro_list \in Coros /\ life[coro_list] = "ready"
    BY <1>3, HeadLives DEF WaitResume
  <2>3. IsList(n, s)'
    BY <1>0a, <1>3, <2>1, SameList DEF WaitResume
  <2>4. TypeOK'
    BY <1>3, <2>2 DEF WaitResume, SwitchTo, TypeOK, Contexts
  <2>5. OnlyLiveRuns'
    BY <1>3, <2>1, <2>2 DEF WaitResume, SwitchTo, OnlyLiveRuns
  <2> QED  BY <2>3, <2>4, <2>5
<1>4. CASE WaitNone
  <2>1. Listed' = Listed /\ Finished' = Finished
    BY <1>4 DEF WaitNone, Listed, Finished
  <2>2. Listed = {}
    <3>1. ListSound
      BY <1>0a, ListIsSound
    <3> QED  BY <1>4, <3>1 DEF WaitNone, ListSound
  <2>3. IsList(n, s)'
    BY <1>0a, <1>4, <2>1, SameList DEF WaitNone
  <2>4. Finished = {}
    BY <2>2 DEF Listed, Finished
  <2>5. TypeOK' /\ OnlyLiveRuns'
    BY <1>4, <2>1, <2>4 DEF WaitNone, TypeOK, OnlyLiveRuns, Contexts
  <2> QED  BY <2>3, <2>5
<1>5. ASSUME NEW c \in Coros, New(c) PROVE CoroInv'
  <2>1. \E m \in Nat : \E z : IsList(m, z)'
    BY <1>0a, <1>5, NewListed
  <2>2. TypeOK'
    BY <1>5 DEF New, TypeOK, Contexts
  <2>3. Finished' = Finished /\ \A d \in Coros : life[d] = "ready" => life'[d] = "ready"
    BY <1>5 DEF New, Finished, TypeOK
  <2>4. OnlyLiveRuns'
    BY <1>5, <2>3 DEF New, OnlyLiveRuns
  <2> QED  BY <2>1, <2>2, <2>4
<1>6. ASSUME NEW c \in Coros, WaitReturn(c) PROVE CoroInv'
  <2>1. c \in Finished /\ Finished = {c}
    BY <1>6 DEF WaitReturn, OnlyLiveRuns
  <2>2. \E m \in Nat : \E z : IsList(m, z)'
    BY <1>0a, <1>6, <2>1, UnlinkListed
  <2>3. TypeOK'
    BY <1>6 DEF WaitReturn, Unlink, TypeOK, Contexts
  <2>4. Finished' = {} /\ coro_this' = SCHED
    BY <1>6, <2>1 DEF WaitReturn, Finished, TypeOK
  <2>5. OnlyLiveRuns'
    BY <2>4 DEF OnlyLiveRuns
  <2> QED  BY <2>2, <2>3, <2>5
<1>7. ASSUME NEW c \in Coros, Delete(c) PROVE CoroInv'
  <2>1. Listed' = Listed /\ Finished' = Finished /\ c \notin Listed
    BY <1>7 DEF Delete, Listed, Finished, TypeOK
  <2>2. \A i \in 1 .. n : s[i] \in Coros /\ s[i] # c
    <3>1. \A i \in 1 .. n : s[i] \in Coros /\ s[i] \in Listed
      BY <1>0a DEF IsList
    <3> QED  BY <2>1, <3>1
  <2>3. IsList(n, s)'
    BY <1>0a, <1>7, <2>1, <2>2 DEF Delete, IsList, TypeOK
  <2>4. TypeOK'
    BY <1>7 DEF Delete, TypeOK, Contexts
  <2>5. OnlyLiveRuns'
    BY <1>7, <2>1 DEF Delete, OnlyLiveRuns, TypeOK
  <2> QED  BY <2>3, <2>4, <2>5
<1>8. CASE UNCHANGED coroVars
  <2>1. Listed' = Listed /\ Finished' = Finished
    BY <1>8 DEF coroVars, Listed, Finished
  <2>2. IsList(n, s)'
    BY <1>0a, <1>8, <2>1, SameList DEF coroVars
  <2> QED  BY <1>8, <2>1, <2>2 DEF coroVars, TypeOK, OnlyLiveRuns, Contexts
<1> QED  BY <1>1, <1>2, <1>3, <1>4, <1>5, <1>6, <1>7, <1>8 DEF Next

LEMMA CoroInvAlways == Spec => []CoroInv
<1>1. Init => CoroInv
  BY CoroInit
<1>2. CoroInv /\ [Next]_coroVars => CoroInv'
  BY CoroStep
<1> QED  BY <1>1, <1>2, PTL DEF Spec

-----------------------------------------------------------------------------
(* The theorems                                                            *)

\* Following next from coro_list one comes by each coroutine that was created and
\* not returned, once, and by no other, and prev leads back (50-74, 130-145).
THEOREM ListExactAlways == Spec => []ListExact
<1>1. CoroInv => ListExact
  <2> SUFFICES ASSUME CoroInv PROVE ListExact
    OBVIOUS
  <2>1. PICK n \in Nat : \E s : IsList(n, s)
    BY DEF CoroInv
  <2>2. PICK s : IsList(n, s)
    BY <2>1
  <2>3. s \in Bijection(1 .. n, Listed)
    BY <2>2 DEF IsList, Bijection, Injection, Surjection, IsInjective
  <2>4. Cardinality(Listed) = n
    BY <2>3, FS_CountingElements DEF ExistsBijection
  <2>5. s \in [1 .. n -> Coros]
    BY <2>2 DEF IsList
  <2> QED  BY <2>2, <2>4, <2>5 DEF ListExact
<1> QED  BY <1>1, CoroInvAlways, PTL

\* Control is only ever with a coroutine that lives, whose end has a place to
\* return to, and a finished coroutine is alone (112-145, 159-184).
THEOREM OnlyLiveRunsAlways == Spec => []OnlyLiveRuns
<1>1. CoroInv => OnlyLiveRuns
  BY DEF CoroInv
<1> QED  BY <1>1, CoroInvAlways, PTL

\* libcoro implements what its header promises.
THEOREM ServiceImplemented == Spec => IsService
<1>1. Init => Service!Init
  BY DEF Init, Service!Init
<1>2. ASSUME CoroInv, [Next]_coroVars PROVE [Service!Next]_(Service!serviceVars)
  <2>1. CASE Yield
    <3>1. Service!Switch(Successor)
      BY <1>2, <2>1, SuccessorLives DEF Yield, SwitchTo, Service!Switch, Finished
    <3>2. Successor \in Coros \cup {SCHED}
      BY <1>2, <2>1, SuccessorLives
    <3> QED  BY <3>1, <3>2 DEF Service!Next
  <2>2. CASE Finish
    <3>1. life[coro_this] = "ready"
      BY <1>2, <2>2 DEF CoroInv, OnlyLiveRuns, Finish
    <3>2. Service!End
      BY <2>2, <3>1 DEF Finish, Service!End, Service!Move
    <3> QED  BY <3>2 DEF Service!Next
  <2>3. CASE WaitResume
    <3>1. coro_list \in Coros /\ life[coro_list] = "ready"
      BY <1>2, <2>3, HeadLives DEF WaitResume
    <3>2. Service!Switch(coro_list)
      BY <2>3, <3>1 DEF WaitResume, SwitchTo, Service!Switch, Finished
    <3> QED  BY <3>1, <3>2 DEF Service!Next
  <2>4. CASE WaitNone
    BY <2>4 DEF WaitNone, Service!serviceVars
  <2>5. ASSUME NEW c \in Coros, New(c) PROVE Service!Next
    BY <2>5 DEF New, Service!Next, Service!Create, Service!Move
  <2>6. ASSUME NEW c \in Coros, WaitReturn(c) PROVE Service!Next
    BY <2>6 DEF WaitReturn, Finished, Service!Next, Service!HandOut, Service!Move
  <2>7. ASSUME NEW c \in Coros, Delete(c) PROVE Service!Next
    BY <2>7 DEF Delete, Service!Next, Service!Forget, Service!Move
  <2>8. CASE UNCHANGED coroVars
    BY <2>8 DEF coroVars, Service!serviceVars
  <2> QED  BY <1>2, <2>1, <2>2, <2>3, <2>4, <2>5, <2>6, <2>7, <2>8 DEF Next
<1> QED  BY <1>1, <1>2, CoroInvAlways, PTL DEF Spec, IsService, Service!Spec
=============================================================================
