--------------------------- MODULE RecursionProofs ---------------------------
(***************************************************************************)
(* Recursive functions over any set whose elements have a measure, and     *)
(* induction over numbers.  Everything is stated of sets and functions, so *)
(* that the provers can instantiate it: an induction takes the least       *)
(* number of the set of those that are wrong.                              *)
(***************************************************************************)
EXTENDS Integers, SequencesExt, SequenceTheorems, WellFoundedInduction, NaturalsInduction, TLAPS

\* A set of numbers that is not empty has a least element.
LEMMA LeastElement ==
    ASSUME NEW S \in SUBSET Nat, S # {}
    PROVE  \E m \in S : \A k \in S : m <= k
<1>1. PICK m \in S : \A k \in S : ~ (<<k, m>> \in OpToRel(<, Nat))
  BY WFMin, NatLessThanWellFounded
<1>2. \A k \in S : ~ (k < m)
  BY <1>1, Zenon DEF OpToRel
<1> QED  BY <1>2

\* A set that has 0 and with each number the next one has them all.
LEMMA Induction ==
    ASSUME NEW S, 0 \in S, \A n \in Nat : n \in S => n + 1 \in S
    PROVE  Nat \subseteq S
<1> SUFFICES ASSUME Nat \ S # {} PROVE FALSE
  OBVIOUS
<1>1. PICK m \in Nat \ S : \A k \in Nat \ S : m <= k
  BY LeastElement
<1>2. m - 1 \in Nat /\ m - 1 \in S
  <2>1. m # 0
    BY <1>1
  <2> QED  BY <1>1, <2>1
<1> QED  BY <1>1, <1>2

\* A set that has each element below which it has all has every element.
LEMMA MeasureInduction ==
    ASSUME NEW S, NEW m \in [S -> Nat], NEW T,
           \A s \in S : (\A y \in S : m[y] < m[s] => y \in T) => s \in T
    PROVE  S \subseteq T
<1> SUFFICES ASSUME S \ T # {} PROVE FALSE
  OBVIOUS
<1> DEFINE M == {m[s] : s \in S \ T}
<1>1. M \in SUBSET Nat /\ M # {}
  OBVIOUS
<1>2. PICK k \in M : \A l \in M : k <= l
  BY <1>1, LeastElement
<1>3. PICK s \in S \ T : k = m[s]
  BY <1>2
<1>4. ASSUME NEW y \in S, m[y] < m[s] PROVE y \in T
  <2> SUFFICES ASSUME y \notin T PROVE FALSE
    OBVIOUS
  <2>1. m[y] \in Nat /\ m[s] \in Nat /\ m[y] \in M
    OBVIOUS
  <2>2. m[s] <= m[y]
    BY <1>2, <1>3, <2>1
  <2> QED  BY <1>4, <2>1, <2>2
<1> QED  BY <1>3, <1>4

\* A set that has n + 1 and below each number the one before it has them all.
LEMMA BackInduction ==
    ASSUME NEW n \in Nat, NEW T, n + 1 \in T, \A i \in 1 .. n : i + 1 \in T => i \in T
    PROVE  1 .. n + 1 \subseteq T
<1> DEFINE S == 1 .. n + 1
           m == [i \in S |-> n + 1 - i]
<1>1. m \in [S -> Nat] /\ \A i \in S : m[i] = n + 1 - i
  OBVIOUS
<1>2. ASSUME NEW i \in S, \A y \in S : m[y] < m[i] => y \in T PROVE i \in T
  <2>1. CASE i = n + 1
    BY <2>1
  <2>2. CASE i # n + 1
    <3>1. i \in 1 .. n /\ i + 1 \in S /\ m[i + 1] < m[i]
      BY <1>1, <2>2
    <3> QED  BY <1>2, <3>1
  <2> QED  BY <2>1, <2>2
<1> HIDE DEF S, m
<1>3. S \subseteq T
  BY <1>1, <1>2, MeasureInduction
<1> QED  BY <1>3 DEF S

\* g is what F makes of it for all elements whose measure is below n.
Solves(S, m, F, n, g) == \A s \in S : m[s] < n => g[s] = F[s][g]

\* What F makes of g for s depends only on g's values for smaller elements.
LooksBelow(S, V, m, F) ==
    \A s \in S : \A g, h \in [S -> V] :
        (\A y \in S : m[y] < m[s] => g[y] = h[y]) => F[s][g] = F[s][h]

Fixes(S, F, f) == \A s \in S : f[s] = F[s][f]

\* A recursion that looks only at smaller elements has a solution, and TLA+'s
\* f[s \in S] == ... is that.
LEMMA Recursion ==
    ASSUME NEW S, NEW V, V # {}, NEW m \in [S -> Nat], NEW F \in [S -> [[S -> V] -> V]],
           LooksBelow(S, V, m, F)
    PROVE  \E f \in [S -> V] : Fixes(S, F, f)
<1> USE DEF LooksBelow, Fixes
<1>1. CASE S = {}
  <2>1. [s \in S |-> 0] \in [S -> V]
    BY <1>1
  <2> QED  BY <1>1, <2>1
<1>2. CASE S # {}
  <2>1. \A s \in S : m[s] \in Nat
    OBVIOUS
  <2>2. \A s \in S : \A g \in [S -> V] : F[s][g] \in V
    OBVIOUS
  <2> DEFINE P == {n \in Nat : \E g \in [S -> V] : Solves(S, m, F, n, g)}
  <2>3. 0 \in P
    <3>1. PICK v \in V : TRUE
      OBVIOUS
    <3>2. [s \in S |-> v] \in [S -> V] /\ Solves(S, m, F, 0, [s \in S |-> v])
      BY <2>1 DEF Solves
    <3> QED  BY <3>2
  <2>4. ASSUME NEW n \in Nat, n \in P PROVE n + 1 \in P
    <3>1. PICK g \in [S -> V] : Solves(S, m, F, n, g)
      BY <2>4
    <3> DEFINE h == [s \in S |-> IF m[s] < n THEN g[s] ELSE F[s][g]]
    <3>2. h \in [S -> V] /\ \A s \in S : h[s] = F[s][g] \/ (m[s] < n /\ h[s] = g[s])
      BY <2>2
    <3>3. \A s \in S : m[s] < n => h[s] = g[s]
      OBVIOUS
    <3> HIDE DEF h
    <3>4. ASSUME NEW s \in S, m[s] < n + 1 PROVE h[s] = F[s][h]
      <4>1. \A y \in S : m[y] < m[s] => g[y] = h[y]
        BY <2>1, <3>3, <3>4
      <4>2. F[s][g] = F[s][h]
        BY <3>2, <4>1
      <4>3. h[s] = F[s][g]
        BY <3>1, <3>2 DEF Solves
      <4> QED  BY <4>2, <4>3
    <3>5. Solves(S, m, F, n + 1, h)
      BY <3>4 DEF Solves
    <3> QED  BY <3>2, <3>5
  <2>5. Nat \subseteq P
    BY <2>3, <2>4, Induction
  <2>6. ASSUME NEW n \in Nat, NEW k \in Nat, NEW g \in [S -> V], NEW h \in [S -> V],
               Solves(S, m, F, n, g), Solves(S, m, F, k, h)
        PROVE  \A s \in S : m[s] < n /\ m[s] < k => g[s] = h[s]
    <3> DEFINE T == {s \in S : m[s] < n /\ m[s] < k => g[s] = h[s]}
    <3>1. ASSUME NEW s \in S, \A y \in S : m[y] < m[s] => y \in T PROVE s \in T
      <4> SUFFICES ASSUME m[s] < n, m[s] < k PROVE g[s] = h[s]
        OBVIOUS
      <4>1. \A y \in S : m[y] < m[s] => g[y] = h[y]
        BY <2>1, <3>1
      <4>2. F[s][g] = F[s][h]
        BY <4>1
      <4> QED  BY <2>6, <4>2 DEF Solves
    <3>2. S \subseteq T
      <4> HIDE DEF T
      <4> QED  BY <3>1, MeasureInduction
    <3> QED  BY <3>2
  <2> DEFINE Sol(n) == CHOOSE g \in [S -> V] : Solves(S, m, F, n, g)
             f == [s \in S |-> Sol(m[s] + 1)[s]]
  <2>7. \A n \in Nat : Sol(n) \in [S -> V] /\ Solves(S, m, F, n, Sol(n))
    BY <2>5
  <2> HIDE DEF Sol
  <2>8. \A s \in S : m[s] + 1 \in Nat /\ m[s] < m[s] + 1
    BY <2>1
  <2>9. f \in [S -> V]
    BY <2>7, <2>8
  <2>10. \A s \in S : f[s] = Sol(m[s] + 1)[s]
    OBVIOUS
  <2> HIDE DEF f
  <2>11. ASSUME NEW s \in S PROVE f[s] = F[s][f]
    <3> DEFINE g == Sol(m[s] + 1)
    <3>1. g \in [S -> V] /\ g[s] = F[s][g]
      BY <2>7, <2>8 DEF Solves
    <3>2. ASSUME NEW y \in S, m[y] < m[s] PROVE g[y] = f[y]
      <4>1. m[y] < m[s] + 1
        BY <2>1, <3>2
      <4> QED  BY <2>6, <2>7, <2>8, <2>10, <4>1, ZenonT(60)
    <3>3. F[s][g] = F[s][f]
      BY <2>9, <3>1, <3>2
    <3> QED  BY <2>10, <3>1, <3>3
  <2> QED  BY <2>9, <2>11
<1> QED  BY <1>1, <1>2

-----------------------------------------------------------------------------
(* FlattenSeq of the community modules, for sequences of any elements      *)

\* The function it is defined by.
Flattens(seqs, g) ==
    /\ DOMAIN g = 1 .. Len(seqs)
    /\ \A i \in 1 .. Len(seqs) : g[i] = IF i = 1 THEN seqs[i] ELSE g[i - 1] \o seqs[i]

LEMMA FlattenExists ==
    ASSUME NEW X, NEW seqs \in Seq(Seq(X)), seqs # << >>
    PROVE  \E g \in [1 .. Len(seqs) -> Seq(X)] : Flattens(seqs, g) /\ FlattenSeq(seqs) = g[Len(seqs)]
<1> DEFINE S == 1 .. Len(seqs)
           V == Seq(X)
           m == [i \in S |-> i]
           F == [i \in S |-> [g \in [S -> V] |-> IF i = 1 THEN seqs[i] ELSE g[i - 1] \o seqs[i]]]
<1>1. Len(seqs) \in Nat /\ Len(seqs) # 0 /\ m \in [S -> Nat] /\ << >> \in V
  OBVIOUS
<1>2. \A i \in S : m[i] = i /\ (i # 1 => i - 1 \in S /\ i - 1 < i /\ m[i - 1] = i - 1)
  BY <1>1
<1>3. \A i \in S : seqs[i] \in V
  BY ElementOfSeq
<1>4. ASSUME NEW i \in S, NEW g \in [S -> V]
      PROVE  (IF i = 1 THEN seqs[i] ELSE g[i - 1] \o seqs[i]) \in V
  <2>1. i # 1 => g[i - 1] \in V
    BY <1>2
  <2> QED  BY <1>3, <2>1
<1>5. F \in [S -> [[S -> V] -> V]]
  BY <1>4
<1>6. \A i \in S : \A g \in [S -> V] : F[i][g] = IF i = 1 THEN seqs[i] ELSE g[i - 1] \o seqs[i]
  OBVIOUS
<1> HIDE DEF F, m
<1> HIDE DEF V
<1>7. LooksBelow(S, V, m, F)
  <2> SUFFICES ASSUME NEW i \in S, NEW g \in [S -> V], NEW h \in [S -> V],
                      \A y \in S : m[y] < m[i] => g[y] = h[y]
               PROVE  F[i][g] = F[i][h]
    BY DEF LooksBelow
  <2>1. i # 1 => g[i - 1] = h[i - 1]
    BY <1>2
  <2>2. (IF i = 1 THEN seqs[i] ELSE g[i - 1] \o seqs[i])
            = (IF i = 1 THEN seqs[i] ELSE h[i - 1] \o seqs[i])
    BY <2>1
  <2>3. /\ F[i][g] = IF i = 1 THEN seqs[i] ELSE g[i - 1] \o seqs[i]
        /\ F[i][h] = IF i = 1 THEN seqs[i] ELSE h[i - 1] \o seqs[i]
    BY <1>6, Zenon
  <2> QED  BY <2>2, <2>3
<1>8. PICK f \in [S -> V] : Fixes(S, F, f)
  <2> HIDE DEF S
  <2> QED  BY <1>1, <1>5, <1>7, Recursion
<1>9. \A i \in S : f[i] = IF i = 1 THEN seqs[i] ELSE f[i - 1] \o seqs[i]
  BY <1>6, <1>8 DEF Fixes
<1>10. f = [i \in S |-> IF i = 1 THEN seqs[i] ELSE f[i - 1] \o seqs[i]]
  BY <1>9
<1>11. \E g : /\ g = [i \in 1 .. Len(seqs) |-> IF i = 1 THEN seqs[i] ELSE g[i - 1] \o seqs[i]]
              /\ FlattenSeq(seqs) = g[Len(seqs)]
  BY <1>1, <1>10, Zenon DEF FlattenSeq
<1>12. PICK g : /\ g = [i \in 1 .. Len(seqs) |-> IF i = 1 THEN seqs[i] ELSE g[i - 1] \o seqs[i]]
                /\ FlattenSeq(seqs) = g[Len(seqs)]
  BY <1>11
<1>13. Flattens(seqs, g)
  BY <1>12 DEF Flattens
<1>14. ASSUME NEW i \in S PROVE g[i] \in V
  <2> DEFINE T == {j \in S : g[j] \in V}
  <2>1. ASSUME NEW j \in S, \A y \in S : m[y] < m[j] => y \in T PROVE j \in T
    <3>1. CASE j = 1
      BY <1>3, <1>13, <3>1 DEF Flattens
    <3>2. CASE j # 1
      <4>1. j - 1 \in S /\ m[j - 1] < m[j]
        BY <1>2, <3>2
      <4>2. g[j - 1] \in V
        BY <2>1, <4>1
      <4>3. g[j] = g[j - 1] \o seqs[j] /\ seqs[j] \in V
        BY <1>3, <1>13, <3>2 DEF Flattens
      <4>4. \A u, v \in V : u \o v \in V
        BY ConcatProperties DEF V
      <4> QED  BY <4>2, <4>3, <4>4
    <3> QED  BY <3>1, <3>2
  <2>2. S \subseteq T
    <3>1. m \in [S -> Nat] /\ \A j \in S : (\A y \in S : m[y] < m[j] => y \in T) => j \in T
      BY <1>1, <2>1
    <3> HIDE DEF S, T
    <3> QED  BY <3>1, MeasureInduction
  <2> QED  BY <2>2
<1>15. g \in [1 .. Len(seqs) -> Seq(X)]
  BY <1>12, <1>14 DEF V
<1> QED  BY <1>12, <1>13, <1>15

\* There is only one such function.
LEMMA FlattenIs ==
    ASSUME NEW X, NEW seqs \in Seq(Seq(X)), seqs # << >>, NEW g, Flattens(seqs, g)
    PROVE  FlattenSeq(seqs) = g[Len(seqs)] /\ FlattenSeq(seqs) \in Seq(X)
<1> DEFINE S == 1 .. Len(seqs)
           m == [i \in S |-> i]
<1>1. PICK h \in [S -> Seq(X)] : Flattens(seqs, h) /\ FlattenSeq(seqs) = h[Len(seqs)]
  BY FlattenExists
<1>2. /\ Len(seqs) \in S /\ m \in [S -> Nat]
      /\ \A i \in S : m[i] = i /\ (i # 1 => i - 1 \in S /\ i - 1 < i /\ m[i - 1] = i - 1)
  <2>1. Len(seqs) \in Nat \ {0}
    BY EmptySeq
  <2> QED  BY <2>1
<1> HIDE DEF m
<1> DEFINE T == {j \in S : g[j] = h[j]}
<1>3. ASSUME NEW j \in S, \A y \in S : m[y] < m[j] => y \in T PROVE j \in T
  <2>1. CASE j = 1
    BY <1>1, <2>1 DEF Flattens
  <2>2. CASE j # 1
    <3>1. j - 1 \in S /\ m[j - 1] < m[j]
      BY <1>2, <2>2
    <3>2. g[j - 1] = h[j - 1]
      BY <1>3, <3>1
    <3>3. g[j] = g[j - 1] \o seqs[j] /\ h[j] = h[j - 1] \o seqs[j]
      BY <1>1, <2>2 DEF Flattens
    <3> QED  BY <3>2, <3>3
  <2> QED  BY <2>1, <2>2
<1>4. S \subseteq T
  <2>1. m \in [S -> Nat]
    BY <1>2
  <2> HIDE DEF S, T
  <2> QED  BY <2>1, <1>3, MeasureInduction
<1>5. g[Len(seqs)] = h[Len(seqs)]
  BY <1>2, <1>4
<1> QED  BY <1>1, <1>2, <1>5

LEMMA FlattenEmpty == FlattenSeq(<< >>) = << >>
BY DEF FlattenSeq

LEMMA FlattenType ==
    ASSUME NEW X, NEW seqs \in Seq(Seq(X)) PROVE FlattenSeq(seqs) \in Seq(X)
<1>1. CASE seqs = << >>
  BY <1>1, FlattenEmpty, EmptySeq, Zenon
<1>2. CASE seqs # << >>
  BY <1>2, FlattenExists, FlattenIs
<1> QED  BY <1>1, <1>2

\* The first sequence comes first.
LEMMA FlattenCons ==
    ASSUME NEW X, NEW seqs \in Seq(Seq(X)), seqs # << >>
    PROVE  FlattenSeq(seqs) = seqs[1] \o FlattenSeq(Tail(seqs))
<1> DEFINE V == Seq(X)
           t == Tail(seqs)
           n == Len(seqs)
<1>1. /\ n \in Nat \ {0} /\ \A i \in 1 .. n : seqs[i] \in V
      /\ t \in Seq(Seq(X)) /\ Len(t) = n - 1 /\ \A i \in 1 .. n - 1 : t[i] = seqs[i + 1]
  BY EmptySeq, ElementOfSeq, HeadTailProperties
<1>2. PICK g \in [1 .. n -> V] : Flattens(seqs, g) /\ FlattenSeq(seqs) = g[n]
  BY FlattenExists
<1>3. /\ \A u, v, w \in V : (u \o v) \o w = u \o (v \o w)
      /\ \A u \in V : u \o << >> = u
  <2>1. ASSUME NEW u \in V, NEW v \in V, NEW w \in V PROVE (u \o v) \o w = u \o (v \o w)
    BY ConcatAssociative, SMTT(30)
  <2>2. \A u \in V : u \o << >> = u
    BY ConcatEmptySeq, Zenon
  <2> QED  BY <2>1, <2>2
<1>4. \A h : Flattens(t, h) <=>
        DOMAIN h = 1 .. n - 1 /\ \A i \in 1 .. n - 1 : h[i] = IF i = 1 THEN t[i] ELSE h[i - 1] \o t[i]
  BY <1>1 DEF Flattens
<1>5. \A k : Flattens(seqs, k) <=>
        DOMAIN k = 1 .. n /\ \A i \in 1 .. n : k[i] = IF i = 1 THEN seqs[i] ELSE k[i - 1] \o seqs[i]
  BY DEF Flattens
<1>6. \A k : Flattens(seqs, k) => FlattenSeq(seqs) = k[n]
  BY FlattenIs
<1>7. n # 1 => \E h \in [1 .. n - 1 -> V] : Flattens(t, h) /\ FlattenSeq(t) = h[n - 1]
  <2>1. \A q \in Seq(Seq(X)) : q # << >> =>
          \E h \in [1 .. Len(q) -> V] : Flattens(q, h) /\ FlattenSeq(q) = h[Len(q)]
    BY FlattenExists
  <2>2. n # 1 => t # << >>
    <3>1. t = << >> => Len(t) = 0
      BY EmptySeq, Zenon
    <3> QED  BY <1>1, <3>1
  <2> HIDE DEF t, n, V
  <2> QED  BY <1>1, <2>1, <2>2
<1>8. n = 1 => t = << >>
  <2>1. \A q \in Seq(Seq(X)) : Len(q) = 0 => q = << >>
    BY EmptySeq
  <2>2. n = 1 => Len(t) = 0
    BY <1>1
  <2> QED  BY <1>1, <2>1, <2>2, Zenon
<1> HIDE DEF V, t, n
<1>9. 1 \in 1 .. n /\ seqs[1] \in V
  BY <1>1
<1>10. CASE n = 1
  BY <1>2, <1>3, <1>5, <1>8, <1>9, <1>10, FlattenEmpty DEF t
<1>11. CASE n # 1
  <2>1. PICK h \in [1 .. n - 1 -> V] : Flattens(t, h) /\ FlattenSeq(t) = h[n - 1]
    BY <1>7, <1>11
  <2> DEFINE b == seqs[1]
             k == [i \in 1 .. n |-> IF i = 1 THEN b ELSE b \o h[i - 1]]
  <2>2. b \in V /\ b = seqs[1]
    BY <1>9
  <2> HIDE DEF b
  <2>3. /\ DOMAIN k = 1 .. n /\ k[1] = b
        /\ \A i \in 1 .. n : i # 1 => k[i] = b \o h[i - 1]
    BY <1>9
  <2> HIDE DEF k
  <2>4. ASSUME NEW i \in 1 .. n, i # 1 PROVE k[i] = k[i - 1] \o seqs[i]
    <3>1. i - 1 \in 1 .. n /\ i - 1 \in 1 .. n - 1 /\ (i - 1) + 1 = i
      BY <1>1, <2>4
    <3>2. k[i] = b \o h[i - 1] /\ t[i - 1] = seqs[i] /\ seqs[i] \in V
      BY <1>1, <2>3, <2>4, <3>1
    <3>3. CASE i = 2
      <4>1. i - 1 = 1 /\ k[i - 1] = b
        BY <2>3, <3>3
      <4>2. h[i - 1] = t[i - 1]
        BY <1>4, <2>1, <3>1, <4>1
      <4> QED  BY <3>2, <4>1, <4>2
    <3>4. CASE i # 2
      <4>1. i - 2 \in 1 .. n - 1 /\ (i - 1) - 1 = i - 2 /\ i - 1 # 1
        BY <1>1, <2>4, <3>4
      <4>2. h[i - 1] = h[i - 2] \o t[i - 1]
        BY <1>4, <2>1, <3>1, <4>1
      <4>3. k[i - 1] = b \o h[i - 2] /\ h[i - 2] \in V
        BY <2>3, <3>1, <4>1
      <4>4. (b \o h[i - 2]) \o seqs[i] = b \o (h[i - 2] \o seqs[i])
        BY <1>3, <2>2, <3>2, <4>3, Zenon
      <4> QED  BY <3>2, <4>2, <4>3, <4>4
    <3> QED  BY <3>3, <3>4
  <2>5. Flattens(seqs, k)
    BY <1>5, <2>2, <2>3, <2>4
  <2>6. FlattenSeq(seqs) = k[n] /\ k[n] = b \o h[n - 1]
    BY <1>1, <1>6, <1>11, <2>3, <2>5
  <2> QED  BY <2>1, <2>2, <2>6 DEF t
<1> QED  BY <1>10, <1>11
=============================================================================
