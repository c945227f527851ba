--------------------------- MODULE MergeSortProofs ---------------------------
(***************************************************************************)
(* What the pure parts of homework01/solution.c compute, for arrays of any *)
(* length: merge_sorted_arrays, the order in which get_sorted_numbers does *)
(* its work, and the reading of a file into a buffer that grows.           *)
(***************************************************************************)
EXTENDS MergeSort, RecursionProofs, FunctionTheorems, FiniteSetTheorems

-----------------------------------------------------------------------------
(* How often a number is in an array                                       *)

At(s, v) == {i \in DOMAIN s : s[i] = v}

LEMMA CountType ==
    ASSUME NEW X, NEW s \in Seq(X), NEW v
    PROVE  IsFiniteSet(At(s, v)) /\ Count(s, v) \in Nat
<1>1. At(s, v) \in SUBSET (1 .. Len(s)) /\ Len(s) \in Nat
  BY LenProperties DEF At
<1>2. IsFiniteSet(At(s, v))
  <2>1. IsFiniteSet(1 .. Len(s))
    BY <1>1, FS_Interval
  <2> QED  BY <1>1, <2>1, FS_Subset
<1> QED  BY <1>2, FS_CardinalityType DEF Count, At

\* Numbers of one array after those of another.
LEMMA CountConcat ==
    ASSUME NEW X, NEW s \in Seq(X), NEW t \in Seq(X), NEW v
    PROVE  Count(s \o t, v) = Count(s, v) + Count(t, v)
<1> DEFINE n == Len(s)
           w == s \o t
           B == {i \in n + 1 .. n + Len(t) : t[i - n] = v}
           f == [i \in At(t, v) |-> i + n]
<1>1. /\ n \in Nat /\ Len(t) \in Nat /\ DOMAIN s = 1 .. n /\ DOMAIN t = 1 .. Len(t)
      /\ DOMAIN w = 1 .. n + Len(t)
      /\ \A i \in 1 .. n + Len(t) : w[i] = IF i <= n THEN s[i] ELSE t[i - n]
  BY LenProperties, ConcatProperties
<1> HIDE DEF n, w
<1>2. /\ IsFiniteSet(At(s, v)) /\ Count(s, v) \in Nat /\ Count(s, v) = Cardinality(At(s, v))
      /\ IsFiniteSet(At(t, v)) /\ Count(t, v) \in Nat /\ Count(t, v) = Cardinality(At(t, v))
  BY CountType DEF Count, At
<1>3. At(w, v) = At(s, v) \cup B /\ At(s, v) \cap B = {}
  BY <1>1 DEF At
<1>4. f \in [At(t, v) -> B] /\ \A i, j \in At(t, v) : f[i] = f[j] => i = j
  BY <1>1 DEF At
<1>5. \A j \in B : \E i \in At(t, v) : f[i] = j
  <2> SUFFICES ASSUME NEW j \in B PROVE \E i \in At(t, v) : f[i] = j
    OBVIOUS
  <2>1. j - n \in At(t, v) /\ (j - n) + n = j
    BY <1>1 DEF At
  <2>2. f[j - n] = j
    BY <2>1
  <2> QED  BY <2>1, <2>2
<1> HIDE DEF f, B
<1>6. IsFiniteSet(B) /\ Cardinality(B) = Count(t, v)
  <2>1. f \in Bijection(At(t, v), B)
    BY <1>4, <1>5, Fun_IsBij
  <2>2. ExistsBijection(At(t, v), B)
    BY <2>1 DEF ExistsBijection
  <2> QED  BY <1>2, <2>2, FS_Bijection
<1>7. Cardinality(At(w, v)) = Cardinality(At(s, v)) + Cardinality(B) - Cardinality(At(s, v) \cap B)
  BY <1>2, <1>3, <1>6, FS_Union
<1>8. Cardinality(At(s, v) \cap B) = 0
  BY <1>3, FS_EmptySet
<1>9. Count(w, v) = Cardinality(At(w, v))
  BY DEF Count, At
<1>10. Count(w, v) = Count(s, v) + Count(t, v)
  BY <1>2, <1>6, <1>7, <1>8, <1>9
<1> QED  BY <1>10 DEF w

LEMMA CountNone == ASSUME NEW v PROVE Count(<< >>, v) = 0
BY FS_EmptySet DEF Count

LEMMA CountOne ==
    ASSUME NEW x, NEW v
    PROVE  Count(<< x >>, v) = IF x = v THEN 1 ELSE 0
<1>1. DOMAIN << x >> = {1} /\ << x >>[1] = x
  OBVIOUS
<1>2. {i \in DOMAIN << x >> : << x >>[i] = v} = IF x = v THEN {1} ELSE {}
  BY <1>1
<1> QED  BY <1>2, FS_EmptySet, FS_Singleton DEF Count

-----------------------------------------------------------------------------
(* merge_sorted_arrays                                                     *)

\* A number before an array that has none below it.
LEMMA AscendingCons ==
    ASSUME NEW x \in Int, NEW s \in Seq(Int), Ascending(s), \A i \in DOMAIN s : x <= s[i]
    PROVE  /\ << x >> \o s \in Seq(Int) /\ Len(<< x >> \o s) = Len(s) + 1
           /\ Ascending(<< x >> \o s)
           /\ \A k \in Int : k <= x => \A i \in DOMAIN (<< x >> \o s) : k <= (<< x >> \o s)[i]
<1> DEFINE w == << x >> \o s
<1>1. << x >> \in Seq(Int) /\ Len(<< x >>) = 1 /\ << x >>[1] = x
  OBVIOUS
<1>2. /\ w \in Seq(Int) /\ Len(w) = 1 + Len(s) /\ Len(s) \in Nat
      /\ DOMAIN s = 1 .. Len(s) /\ DOMAIN w = 1 .. 1 + Len(s)
      /\ \A i \in 1 .. 1 + Len(s) : w[i] = IF i <= 1 THEN << x >>[i] ELSE s[i - 1]
  BY <1>1, ConcatProperties, LenProperties
<1> HIDE DEF w
<1>3. w[1] = x /\ \A i \in DOMAIN w : i # 1 => i - 1 \in DOMAIN s /\ w[i] = s[i - 1] /\ s[i - 1] \in Int
  <2>1. \A i \in DOMAIN s : s[i] \in Int
    BY <1>2, LenProperties
  <2> QED  BY <1>1, <1>2, <2>1
<1>4. \A k \in Int : k <= x => \A i \in DOMAIN w : k <= w[i]
  BY <1>3
<1>5. Ascending(w)
  <2> SUFFICES ASSUME NEW i \in DOMAIN w, NEW j \in DOMAIN w, i <= j PROVE w[i] <= w[j]
    BY DEF Ascending
  <2>1. CASE i = 1
    BY <1>3, <1>4, <2>1
  <2>2. CASE i # 1
    <3>1. j # 1 /\ i - 1 <= j - 1
      BY <1>2, <2>2
    <3> QED  BY <1>3, <2>2, <3>1 DEF Ascending
  <2> QED  BY <2>1, <2>2
<1> QED  BY <1>2, <1>4, <1>5 DEF w

\* The elements of an array from one position on.
LEMMA Rest ==
    ASSUME NEW s \in Seq(Int), NEW l \in 1 .. Len(s) + 1
    PROVE  /\ SubSeq(s, l, Len(s)) \in Seq(Int)
           /\ Len(SubSeq(s, l, Len(s))) = Len(s) + 1 - l
           /\ \A i \in 1 .. Len(s) + 1 - l : SubSeq(s, l, Len(s))[i] = s[l + i - 1]
           /\ l <= Len(s) => SubSeq(s, l, Len(s)) = << s[l] >> \o SubSeq(s, l + 1, Len(s))
           /\ l > Len(s) => SubSeq(s, l, Len(s)) = << >>
<1>1. Len(s) \in Nat /\ l \in Int /\ \A i \in 1 .. Len(s) : s[i] \in Int
  BY LenProperties
<1>2. /\ SubSeq(s, l, Len(s)) \in Seq(Int)
      /\ Len(SubSeq(s, l, Len(s))) = IF l <= Len(s) THEN Len(s) - l + 1 ELSE 0
      /\ \A i \in 1 .. Len(s) - l + 1 : SubSeq(s, l, Len(s))[i] = s[l + i - 1]
  <2>1. \A i \in l .. Len(s) : s[i] \in Int
    BY <1>1
  <2> QED  BY <1>1, <2>1, SubSeqProperties
<1>3. ASSUME l <= Len(s) PROVE SubSeq(s, l, Len(s)) = << s[l] >> \o SubSeq(s, l + 1, Len(s))
  <2>1. l \in 1 .. Len(s) /\ Len(s) \in l .. Len(s)
    BY <1>1, <1>3
  <2> QED  BY <2>1, SubSeqRecursiveFirst
<1>4. l > Len(s) => SubSeq(s, l, Len(s)) = << >>
  BY <1>1, SubSeqEmpty
<1> QED  BY <1>1, <1>2, <1>3, <1>4

\* What remains of an array in order is in order, and starts with its least number.
LEMMA RestAscending ==
    ASSUME NEW s \in Seq(Int), NEW l \in 1 .. Len(s) + 1, Ascending(s)
    PROVE  /\ Ascending(SubSeq(s, l, Len(s)))
           /\ \A i \in DOMAIN SubSeq(s, l, Len(s)) : l <= Len(s) /\ s[l] <= SubSeq(s, l, Len(s))[i]
<1> DEFINE z == SubSeq(s, l, Len(s))
<1>1. /\ Len(s) \in Nat /\ DOMAIN s = 1 .. Len(s) /\ DOMAIN z = 1 .. Len(s) + 1 - l
      /\ \A i \in 1 .. Len(s) + 1 - l : z[i] = s[l + i - 1]
  BY Rest, LenProperties
<1> HIDE DEF z
<1>2. \A i \in DOMAIN z : l + i - 1 \in DOMAIN s /\ l \in DOMAIN s /\ l <= l + i - 1
  BY <1>1
<1>3. Ascending(z)
  <2> SUFFICES ASSUME NEW i \in DOMAIN z, NEW j \in DOMAIN z, i <= j PROVE z[i] <= z[j]
    BY DEF Ascending
  <2>1. l + i - 1 <= l + j - 1
    BY <1>1
  <2> QED  BY <1>1, <1>2, <2>1 DEF Ascending
<1>4. \A i \in DOMAIN z : l <= Len(s) /\ s[l] <= z[i]
  <2> SUFFICES ASSUME NEW i \in DOMAIN z PROVE l <= Len(s) /\ s[l] <= z[i]
    OBVIOUS
  <2>1. s[l] <= s[l + i - 1] /\ z[i] = s[l + i - 1]
    BY <1>1, <1>2 DEF Ascending
  <2> QED  BY <1>1, <2>1
<1> QED  BY <1>3, <1>4 DEF z
\* One turn of the loop at l and r: g says what comes of the turns after it.
MergeBody(a, b, l, r, g) ==
    IF l > Len(a) THEN SubSeq(b, r, Len(b))
    ELSE IF r > Len(b) THEN SubSeq(a, l, Len(a))
    ELSE IF a[l] <= b[r] THEN << a[l] >> \o g[<<l + 1, r>>]
    ELSE << b[r] >> \o g[<<l, r + 1>>]

LEMMA MergeUnfolds ==
    ASSUME NEW a \in Seq(Int), NEW b \in Seq(Int)
    PROVE  \E g : /\ \A l \in 1 .. Len(a) + 1 : \A r \in 1 .. Len(b) + 1 :
                        g[<<l, r>>] = MergeBody(a, b, l, r, g)
                  /\ Merge(a, b) = g[<<1, 1>>]
<1> DEFINE S == Positions(a, b)
           V == Seq(Int)
           m == [at \in S |-> (Len(a) + 1 - at[1]) + (Len(b) + 1 - at[2])]
           F == [at \in S |-> [g \in [S -> V] |-> MergeBody(a, b, at[1], at[2], g)]]
<1>0. /\ Len(a) \in Nat /\ Len(b) \in Nat
      /\ \A i \in 1 .. Len(a) : a[i] \in Int
      /\ \A i \in 1 .. Len(b) : b[i] \in Int
  BY LenProperties
<1>p. ASSUME NEW at \in S
      PROVE  at[1] \in 1 .. Len(a) + 1 /\ at[2] \in 1 .. Len(b) + 1 /\ at = <<at[1], at[2]>>
  BY DEF Positions
<1>q. \A l \in 1 .. Len(a) + 1 : \A r \in 1 .. Len(b) + 1 :
         <<l, r>> \in S /\ <<l, r>>[1] = l /\ <<l, r>>[2] = r
  BY DEF Positions
<1>1. m \in [S -> Nat]
  <2>1. ASSUME NEW at \in S PROVE (Len(a) + 1 - at[1]) + (Len(b) + 1 - at[2]) \in Nat
    BY <1>0, <1>p
  <2> QED  BY <2>1
<1>2. \A l \in 1 .. Len(a) + 1 : \A r \in 1 .. Len(b) + 1 :
         m[<<l, r>>] = (Len(a) + 1 - l) + (Len(b) + 1 - r)
  BY <1>q
<1>3. \A at \in S : \A g \in [S -> V] : F[at][g] = MergeBody(a, b, at[1], at[2], g)
  OBVIOUS
<1>4. ASSUME NEW at \in S, NEW g \in [S -> V] PROVE MergeBody(a, b, at[1], at[2], g) \in V
  <2>1. PICK l \in 1 .. Len(a) + 1, r \in 1 .. Len(b) + 1 : l = at[1] /\ r = at[2]
    BY <1>p
  <2>2. SubSeq(a, l, Len(a)) \in V /\ SubSeq(b, r, Len(b)) \in V
    BY Rest
  <2>3. ASSUME NEW x \in Int, NEW s \in V PROVE << x >> \o s \in V
    OBVIOUS
  <2>4. ASSUME ~ (l > Len(a)), ~ (r > Len(b))
        PROVE  << a[l] >> \o g[<<l + 1, r>>] \in V /\ << b[r] >> \o g[<<l, r + 1>>] \in V
    <3>1. l + 1 \in 1 .. Len(a) + 1 /\ r + 1 \in 1 .. Len(b) + 1
      BY <1>0, <2>4
    <3>2. <<l + 1, r>> \in S /\ <<l, r + 1>> \in S
      BY <1>q, <3>1
    <3>3. a[l] \in Int /\ b[r] \in Int
      BY <1>0, <2>4
    <3>4. g[<<l + 1, r>>] \in V /\ g[<<l, r + 1>>] \in V
      BY <3>2
    <3> QED  BY <2>3, <3>3, <3>4, Zenon
  <2> QED  BY <2>1, <2>2, <2>4, Zenon DEF MergeBody
<1>5. F \in [S -> [[S -> V] -> V]]
  BY <1>4
<1> HIDE DEF m, F, V
<1>6. LooksBelow(S, V, m, F)
  <2> SUFFICES ASSUME NEW at \in S, NEW g \in [S -> V], NEW h \in [S -> V],
                      \A y \in S : m[y] < m[at] => g[y] = h[y]
               PROVE  F[at][g] = F[at][h]
    BY DEF LooksBelow
  <2>1. PICK l \in 1 .. Len(a) + 1, r \in 1 .. Len(b) + 1 : l = at[1] /\ r = at[2] /\ at = <<l, r>>
    BY <1>p
  <2>2. ASSUME ~ (l > Len(a)) PROVE g[<<l + 1, r>>] = h[<<l + 1, r>>]
    <3>1. l + 1 \in 1 .. Len(a) + 1
      BY <1>0, <2>2
    <3>2. <<l + 1, r>> \in S
      BY <1>q, <3>1
    <3>3. m[<<l + 1, r>>] = (Len(a) + 1 - (l + 1)) + (Len(b) + 1 - r)
      BY <1>2, <3>1
    <3>4. m[at] = (Len(a) + 1 - l) + (Len(b) + 1 - r)
      BY <1>2, <2>1
    <3>5. m[<<l + 1, r>>] < m[at]
      BY <1>0, <3>3, <3>4
    <3> QED  BY <3>2, <3>5
  <2>3. ASSUME ~ (r > Len(b)) PROVE g[<<l, r + 1>>] = h[<<l, r + 1>>]
    <3>1. r + 1 \in 1 .. Len(b) + 1
      BY <1>0, <2>3
    <3>2. <<l, r + 1>> \in S
      BY <1>q, <3>1
    <3>3. m[<<l, r + 1>>] = (Len(a) + 1 - l) + (Len(b) + 1 - (r + 1))
      BY <1>2, <3>1
    <3>4. m[at] = (Len(a) + 1 - l) + (Len(b) + 1 - r)
      BY <1>2, <2>1
    <3>5. m[<<l, r + 1>>] < m[at]
      BY <1>0, <3>3, <3>4
    <3> QED  BY <3>2, <3>5
  <2>4. MergeBody(a, b, l, r, g) = MergeBody(a, b, l, r, h)
    BY <2>2, <2>3, Zenon DEF MergeBody
  <2>5. /\ F[at][g] = MergeBody(a, b, l, r, g)
        /\ F[at][h] = MergeBody(a, b, l, r, h)
    BY <1>3, <2>1, Zenon
  <2> QED  BY <2>4, <2>5, Zenon
<1>7. PICK f \in [S -> V] : Fixes(S, F, f)
  <2>1. V # {}
    BY EmptySeq DEF V
  <2> HIDE DEF S
  <2> QED  BY <1>1, <1>5, <1>6, <2>1, Recursion
<1>8. f = [at \in S |-> MergeBody(a, b, at[1], at[2], f)]
  <2> HIDE DEF S
  <2>1. \A at \in S : f[at] = MergeBody(a, b, at[1], at[2], f)
    BY <1>3, <1>7, Zenon DEF Fixes
  <2> QED  BY <2>1
<1>9. \E g : /\ g = [at \in Positions(a, b) |-> MergeBody(a, b, at[1], at[2], g)]
             /\ Merge(a, b) = g[<<1, 1>>]
  BY <1>8, Zenon DEF Merge, MergeBody
<1>10. PICK g : /\ g = [at \in S |-> MergeBody(a, b, at[1], at[2], g)]
                /\ Merge(a, b) = g[<<1, 1>>]
  BY <1>9
<1>11. ASSUME NEW l \in 1 .. Len(a) + 1, NEW r \in 1 .. Len(b) + 1
       PROVE  g[<<l, r>>] = MergeBody(a, b, l, r, g)
  <2>1. <<l, r>> \in S /\ <<l, r>>[1] = l /\ <<l, r>>[2] = r
    BY <1>q
  <2> HIDE DEF S
  <2>2. g[<<l, r>>] = MergeBody(a, b, <<l, r>>[1], <<l, r>>[2], g)
    BY <1>10, <2>1, Zenon
  <2> QED  BY <2>1, <2>2, Zenon
<1> QED  BY <1>10, <1>11

\* None of s is below k.
Below(k, s) == \A i \in DOMAIN s : k <= s[i]

\* x is in order, and has the numbers of y and of z.
MergeOf(x, y, z) ==
    /\ x \in Seq(Int) /\ Ascending(x)
    /\ Len(x) = Len(y) + Len(z)
    /\ \A v \in Int : Count(x, v) = Count(y, v) + Count(z, v)
    /\ \A k \in Int : Below(k, y) /\ Below(k, z) => Below(k, x)

LEMMA MergeOfNone ==
    ASSUME NEW y \in Seq(Int), Ascending(y)
    PROVE  MergeOf(y, y, << >>) /\ MergeOf(y, << >>, y)
<1>1. \A v \in Int : Count(y, v) \in Nat /\ Count(<< >>, v) = 0
  BY CountType, CountNone
<1>2. Len(y) \in Nat /\ Len(<< >>) = 0
  BY LenProperties
<1> QED  BY <1>1, <1>2 DEF MergeOf

LEMMA MergeOfSwap ==
    ASSUME NEW x, NEW y \in Seq(Int), NEW z \in Seq(Int), MergeOf(x, y, z)
    PROVE  MergeOf(x, z, y)
<1>1. \A v \in Int : Count(y, v) \in Nat /\ Count(z, v) \in Nat
  BY CountType
<1>2. Len(y) \in Nat /\ Len(z) \in Nat
  BY LenProperties
<1> QED  BY <1>1, <1>2 DEF MergeOf

\* The least number of y, and none of z is below it, comes first.
LEMMA MergeOfCons ==
    ASSUME NEW u \in Int, NEW y \in Seq(Int), NEW z \in Seq(Int), NEW x,
           Below(u, y), Below(u, z), MergeOf(x, y, z)
    PROVE  MergeOf(<< u >> \o x, << u >> \o y, z)
<1> DEFINE w == << u >> \o x  t == << u >> \o y
<1>1. x \in Seq(Int) /\ Ascending(x) /\ Below(u, x) /\ << u >> \in Seq(Int)
  BY DEF MergeOf
<1>2. /\ w \in Seq(Int) /\ Len(w) = Len(x) + 1 /\ Ascending(w)
      /\ \A k \in Int : k <= u => Below(k, w)
  BY <1>1, AscendingCons DEF Below
<1>3. Len(x) = Len(y) + Len(z) /\ Len(y) \in Nat /\ Len(z) \in Nat
  BY LenProperties DEF MergeOf
<1>4. Len(t) = Len(y) + 1 /\ t[1] = u /\ 1 \in DOMAIN t
  <2>1. Len(<< u >>) = 1 /\ << u >>[1] = u
    OBVIOUS
  <2> QED  BY <1>1, <1>3, <2>1, ConcatProperties
<1>5. Len(w) = Len(t) + Len(z)
  BY <1>2, <1>3, <1>4
<1>6. ASSUME NEW v \in Int PROVE Count(w, v) = Count(t, v) + Count(z, v)
  <2>1. Count(w, v) = Count(<< u >>, v) + Count(x, v) /\ Count(t, v) = Count(<< u >>, v) + Count(y, v)
    BY <1>1, CountConcat
  <2>2. Count(x, v) = Count(y, v) + Count(z, v)
    BY DEF MergeOf
  <2>3. Count(<< u >>, v) \in Nat /\ Count(y, v) \in Nat /\ Count(z, v) \in Nat
    BY <1>1, CountType
  <2> QED  BY <2>1, <2>2, <2>3
<1>7. ASSUME NEW k \in Int, Below(k, t), Below(k, z) PROVE Below(k, w)
  <2>1. k <= u
    BY <1>4, <1>7 DEF Below
  <2> QED  BY <1>2, <2>1
<1> QED  BY <1>2, <1>5, <1>6, <1>7, Zenon DEF MergeOf

From(s, l) == SubSeq(s, l, Len(s))

\* merge_sorted_arrays (236-267) makes of two arrays in order one in order, that has
\* the numbers of both, each as often.
THEOREM MergeIs ==
    ASSUME NEW a \in Seq(Int), NEW b \in Seq(Int), Ascending(a), Ascending(b)
    PROVE  MergeOf(Merge(a, b), a, b)
<1>1. PICK g : /\ \A l \in 1 .. Len(a) + 1 : \A r \in 1 .. Len(b) + 1 :
                      g[<<l, r>>] = MergeBody(a, b, l, r, g)
               /\ Merge(a, b) = g[<<1, 1>>]
  BY MergeUnfolds
<1> DEFINE x(l, r) == g[<<l, r>>]
<1>2. \A l \in 1 .. Len(a) + 1 : \A r \in 1 .. Len(b) + 1 :
         x(l, r) = IF l > Len(a) THEN From(b, r)
                   ELSE IF r > Len(b) THEN From(a, l)
                   ELSE IF a[l] <= b[r] THEN << a[l] >> \o x(l + 1, r)
                   ELSE << b[r] >> \o x(l, r + 1)
  BY <1>1, Zenon DEF MergeBody, From
<1>3. Merge(a, b) = x(1, 1)
  BY <1>1
<1> HIDE DEF x
<1>4. /\ Len(a) \in Nat /\ Len(b) \in Nat
      /\ \A i \in 1 .. Len(a) : a[i] \in Int
      /\ \A i \in 1 .. Len(b) : b[i] \in Int
  BY LenProperties
<1>5. ASSUME NEW s \in Seq(Int), NEW l \in 1 .. Len(s) + 1, Ascending(s)
      PROVE  /\ From(s, l) \in Seq(Int) /\ Ascending(From(s, l))
             /\ l > Len(s) => From(s, l) = << >>
             /\ l <= Len(s) => /\ From(s, l) = << s[l] >> \o From(s, l + 1)
                               /\ \A k \in Int : k <= s[l] => Below(k, From(s, l))
                               /\ Below(s[l], From(s, l + 1))
  <2>1. /\ From(s, l) \in Seq(Int) /\ Ascending(From(s, l))
        /\ l > Len(s) => From(s, l) = << >>
        /\ l <= Len(s) => From(s, l) = << s[l] >> \o From(s, l + 1)
    BY <1>5, Rest, RestAscending DEF From
  <2>2. ASSUME l <= Len(s), NEW k \in Int, k <= s[l] PROVE Below(k, From(s, l))
    <3>1. s[l] \in Int /\ \A i \in DOMAIN From(s, l) : s[l] <= From(s, l)[i] /\ From(s, l)[i] \in Int
      <4>1. \A i \in DOMAIN From(s, l) : s[l] <= From(s, l)[i]
        BY <1>5, RestAscending DEF From
      <4>2. l \in 1 .. Len(s) /\ \A i \in 1 .. Len(s) : s[i] \in Int
        BY <2>2, LenProperties
      <4>3. \A i \in DOMAIN From(s, l) : From(s, l)[i] \in Int
        BY <2>1, LenProperties
      <4> QED  BY <4>1, <4>2, <4>3
    <3> QED  BY <2>2, <3>1 DEF Below
  <2>3. ASSUME l <= Len(s) PROVE Below(s[l], From(s, l + 1))
    <3>1. l + 1 \in 1 .. Len(s) + 1 /\ l \in DOMAIN s /\ Len(s) \in Nat
      BY <2>3, LenProperties
    <3>2. \A i \in DOMAIN From(s, l + 1) :
             /\ l + 1 <= Len(s) /\ s[l + 1] <= From(s, l + 1)[i] /\ From(s, l + 1)[i] \in Int
      <4>1. From(s, l + 1) \in Seq(Int)
        BY <3>1, Rest, Zenon DEF From
      <4>2. \A i \in DOMAIN From(s, l + 1) : From(s, l + 1)[i] \in Int
        BY <4>1, LenProperties
      <4>3. \A i \in DOMAIN From(s, l + 1) : l + 1 <= Len(s) /\ s[l + 1] <= From(s, l + 1)[i]
        BY <1>5, <3>1, RestAscending, Zenon DEF From
      <4> QED  BY <4>2, <4>3
    <3>3. l + 1 <= Len(s) => s[l] <= s[l + 1] /\ s[l] \in Int /\ s[l + 1] \in Int
      BY <1>5, <3>1, LenProperties DEF Ascending
    <3> QED  BY <3>2, <3>3 DEF Below
  <2> QED  BY <2>1, <2>2, <2>3
<1> DEFINE T == {k \in Nat : \A i \in 1 .. Len(a) + 1 : \A j \in 1 .. Len(b) + 1 :
                               (Len(a) + 1 - i) + (Len(b) + 1 - j) = k
                               => MergeOf(x(i, j), From(a, i), From(b, j))}
<1>6. ASSUME NEW l \in 1 .. Len(a) + 1, NEW r \in 1 .. Len(b) + 1, l > Len(a) \/ r > Len(b)
      PROVE  MergeOf(x(l, r), From(a, l), From(b, r))
  <2>1. CASE l > Len(a)
    <3>1. x(l, r) = From(b, r) /\ From(a, l) = << >>
      BY <1>2, <1>5, <2>1
    <3>2. From(b, r) \in Seq(Int) /\ Ascending(From(b, r))
      BY <1>5
    <3> QED  BY <3>1, <3>2, MergeOfNone
  <2>2. CASE ~ (l > Len(a))
    <3>1. x(l, r) = From(a, l) /\ From(b, r) = << >>
      BY <1>2, <1>5, <1>6, <2>2
    <3>2. From(a, l) \in Seq(Int) /\ Ascending(From(a, l))
      BY <1>5
    <3> QED  BY <3>1, <3>2, MergeOfNone
  <2> QED  BY <2>1, <2>2
<1>7. 0 \in T
  <2>1. ASSUME NEW l \in 1 .. Len(a) + 1, NEW r \in 1 .. Len(b) + 1,
               (Len(a) + 1 - l) + (Len(b) + 1 - r) = 0
        PROVE  l > Len(a)
    BY <1>4, <2>1
  <2> QED  BY <1>6, <2>1
<1>8. ASSUME NEW n \in Nat, n \in T PROVE n + 1 \in T
  <2> SUFFICES ASSUME NEW l \in 1 .. Len(a) + 1, NEW r \in 1 .. Len(b) + 1,
                      (Len(a) + 1 - l) + (Len(b) + 1 - r) = n + 1
               PROVE  MergeOf(x(l, r), From(a, l), From(b, r))
    OBVIOUS
  <2>1. CASE l > Len(a) \/ r > Len(b)
    BY <1>6, <2>1
  <2>2. CASE ~ (l > Len(a)) /\ ~ (r > Len(b))
    <3>1. /\ l + 1 \in 1 .. Len(a) + 1 /\ r + 1 \in 1 .. Len(b) + 1
          /\ l <= Len(a) /\ r <= Len(b) /\ a[l] \in Int /\ b[r] \in Int
          /\ (Len(a) + 1 - (l + 1)) + (Len(b) + 1 - r) = n
          /\ (Len(a) + 1 - l) + (Len(b) + 1 - (r + 1)) = n
      <4>1. l \in 1 .. Len(a) /\ r \in 1 .. Len(b)
        BY <1>4, <2>2
      <4>2. a[l] \in Int /\ b[r] \in Int
        BY <1>4, <4>1
      <4>3. /\ (Len(a) + 1 - (l + 1)) + (Len(b) + 1 - r) = n
            /\ (Len(a) + 1 - l) + (Len(b) + 1 - (r + 1)) = n
        <5>1. Len(a) \in Nat /\ Len(b) \in Nat /\ l \in Nat /\ r \in Nat
          BY <1>4, <4>1
        <5>2. PICK p \in Nat, q \in Nat : p = Len(a) /\ q = Len(b)
          BY <5>1
        <5>3. (p + 1 - l) + (q + 1 - r) = n + 1
          BY <5>2, Zenon
        <5>4. (p + 1 - (l + 1)) + (q + 1 - r) = n
          BY <5>1, <5>3
        <5>5. (p + 1 - l) + (q + 1 - (r + 1)) = n
          BY <5>1, <5>3
        <5> QED  BY <5>2, <5>4, <5>5, Zenon
      <4> QED  BY <1>4, <4>1, <4>2, <4>3
    <3>2. /\ MergeOf(x(l + 1, r), From(a, l + 1), From(b, r))
          /\ MergeOf(x(l, r + 1), From(a, l), From(b, r + 1))
      BY <1>8, <3>1
    <3>3. /\ From(a, l) = << a[l] >> \o From(a, l + 1) /\ Below(a[l], From(a, l + 1))
          /\ From(a, l) \in Seq(Int) /\ From(a, l + 1) \in Seq(Int)
          /\ \A k \in Int : k <= a[l] => Below(k, From(a, l))
      BY <1>5, <3>1
    <3>4. /\ From(b, r) = << b[r] >> \o From(b, r + 1) /\ Below(b[r], From(b, r + 1))
          /\ From(b, r) \in Seq(Int) /\ From(b, r + 1) \in Seq(Int)
          /\ \A k \in Int : k <= b[r] => Below(k, From(b, r))
      BY <1>5, <3>1
    <3>5. CASE a[l] <= b[r]
      <4>1. x(l, r) = << a[l] >> \o x(l + 1, r)
        BY <1>2, <2>2, <3>5
      <4>2. Below(a[l], From(b, r))
        BY <3>1, <3>4, <3>5
      <4>3. MergeOf(<< a[l] >> \o x(l + 1, r), << a[l] >> \o From(a, l + 1), From(b, r))
        BY <3>1, <3>2, <3>3, <3>4, <4>2, MergeOfCons
      <4> QED  BY <3>3, <4>1, <4>3
    <3>6. CASE ~ (a[l] <= b[r])
      <4>1. x(l, r) = << b[r] >> \o x(l, r + 1)
        BY <1>2, <2>2, <3>6
      <4>2. Below(b[r], From(a, l))
        <5>1. b[r] <= a[l]
          BY <3>1, <3>6
        <5> QED  BY <3>1, <3>3, <5>1
      <4>3. MergeOf(x(l, r + 1), From(b, r + 1), From(a, l))
        BY <3>2, <3>3, <3>4, MergeOfSwap
      <4>4. MergeOf(<< b[r] >> \o x(l, r + 1), << b[r] >> \o From(b, r + 1), From(a, l))
        BY <3>1, <3>3, <3>4, <4>2, <4>3, MergeOfCons
      <4>5. MergeOf(x(l, r), From(a, l), From(b, r))
        BY <3>3, <3>4, <4>1, <4>4, MergeOfSwap
      <4> QED  BY <4>5
    <3> QED  BY <3>5, <3>6
  <2> QED  BY <2>1, <2>2
<1>9. Nat \subseteq T
  <2> HIDE DEF T
  <2> QED  BY <1>7, <1>8, Induction
<1>10. MergeOf(x(1, 1), From(a, 1), From(b, 1))
  <2>1. 1 \in 1 .. Len(a) + 1 /\ 1 \in 1 .. Len(b) + 1 /\ Len(a) + Len(b) \in Nat
        /\ (Len(a) + 1 - 1) + (Len(b) + 1 - 1) = Len(a) + Len(b)
    BY <1>4
  <2>2. Len(a) + Len(b) \in T
    BY <1>9, <2>1
  <2> QED  BY <2>1, <2>2
<1>11. From(a, 1) = a /\ From(b, 1) = b
  BY SubSeqFull DEF From
<1> QED  BY <1>3, <1>10, <1>11

-----------------------------------------------------------------------------
(* get_sorted_numbers                                                      *)

\* x is in order and has the numbers of y.
Arranges(x, y) ==
    /\ x \in Seq(Int) /\ Ascending(x)
    /\ Len(x) = Len(y)
    /\ \A v \in Int : Count(x, v) = Count(y, v)

\* An array of one or two numbers (197-212).
LEMMA LeafIs ==
    ASSUME NEW part \in Seq(Int), Len(part) \in 1 .. 2
    PROVE  Arranges(SortedLeaf(part), part)
<1>1. part \in [1 .. Len(part) -> Int]
  BY LenProperties
<1>2. CASE Len(part) = 2 /\ part[1] > part[2]
  <2>1. SortedLeaf(part) = << part[2], part[1] >>
    BY <1>2 DEF SortedLeaf
  <2>2. part[1] \in Int /\ part[2] \in Int
    BY <1>1, <1>2
  <2> DEFINE one == << part[1] >>  two == << part[2] >>
  <2>3. one \in Seq(Int) /\ two \in Seq(Int) /\ << part[2], part[1] >> \in Seq(Int)
    BY <2>2
  <2>4. << part[2], part[1] >> = two \o one /\ part = one \o two
    <3>1. << part[2], part[1] >> = two \o one
      OBVIOUS
    <3>2. one \o two \in Seq(Int) /\ Len(one \o two) = 2
          /\ (one \o two)[1] = part[1] /\ (one \o two)[2] = part[2]
      BY <2>2
    <3>3. \A i \in 1 .. Len(part) : part[i] = (one \o two)[i]
      BY <1>2, <3>2
    <3> HIDE DEF one, two
    <3>4. part = one \o two
      BY <1>2, <3>2, <3>3, SeqEqual
    <3> QED  BY <3>1, <3>4
  <2>5. ASSUME NEW v \in Int PROVE Count(<< part[2], part[1] >>, v) = Count(part, v)
    <3> HIDE DEF one, two
    <3>1. Count(two \o one, v) = Count(two, v) + Count(one, v)
          /\ Count(one \o two, v) = Count(one, v) + Count(two, v)
      BY <2>3, CountConcat
    <3>2. Count(one, v) \in Nat /\ Count(two, v) \in Nat
      BY <2>3, CountType
    <3>3. Count(two \o one, v) = Count(one \o two, v)
      BY <3>1, <3>2
    <3> QED  BY <2>4, <3>3, Zenon
  <2>6. Ascending(<< part[2], part[1] >>) /\ Len(<< part[2], part[1] >>) = 2
    BY <1>2, <2>2 DEF Ascending
  <2> QED  BY <1>2, <2>1, <2>3, <2>5, <2>6, Zenon DEF Arranges
<1>3. CASE ~ (Len(part) = 2 /\ part[1] > part[2])
  <2>1. SortedLeaf(part) = part
    BY <1>3 DEF SortedLeaf
  <2>2. Ascending(part)
    BY <1>1, <1>3 DEF Ascending
  <2> QED  BY <2>1, <2>2, Zenon DEF Arranges
<1> QED  BY <1>2, <1>3

\* The merge of two arrays that were sorted has what both had before.
LEMMA MergeArranges ==
    ASSUME NEW x, NEW y, NEW s \in Seq(Int), NEW t \in Seq(Int), Arranges(x, s), Arranges(y, t)
    PROVE  Arranges(Merge(x, y), s \o t)
<1>1. MergeOf(Merge(x, y), x, y)
  BY MergeIs DEF Arranges
<1>2. Len(s \o t) = Len(s) + Len(t)
  BY ConcatProperties
<1>3. \A v \in Int : Count(s \o t, v) = Count(s, v) + Count(t, v)
  BY CountConcat
<1> QED  BY <1>1, <1>2, <1>3 DEF Arranges, MergeOf

Arrays == Seq(Int)
Calls  == [at : Nat, len : Nat \ {0}]

\* A call finds the arrays it needs.
Step(call, array, s, t) ==
    /\ s \in Seq(Arrays) /\ (IsLeaf(call) \/ Len(s) >= 2)
    /\ t = SortedBy(call, array, s)

\* The calls todo make t of the arrays s: h is what there is after each of them.
Turns(todo, array, s, t) ==
    \E h : /\ h[0] = s /\ h[Len(todo)] = t
           /\ \A i \in 1 .. Len(todo) : Step(todo[i], array, h[i - 1], h[i])

LEMMA TurnsNone ==
    ASSUME NEW array, NEW s, NEW t, Turns(<< >>, array, s, t) PROVE t = s
BY DEF Turns

LEMMA TurnsOne ==
    ASSUME NEW call, NEW array, NEW s, NEW t, Step(call, array, s, t)
    PROVE  Turns(<< call >>, array, s, t)
<1> DEFINE h == [i \in 0 .. 1 |-> IF i = 0 THEN s ELSE t]
<1>1. h[0] = s /\ h[1] = t /\ Len(<< call >>) = 1 /\ << call >>[1] = call
  OBVIOUS
<1> HIDE DEF h
<1>2. \A i \in 1 .. 1 : i = 1 /\ i - 1 = 0
  OBVIOUS
<1>3. \A i \in 1 .. Len(<< call >>) : Step(<< call >>[i], array, h[i - 1], h[i])
  BY <1>1, <1>2
<1> QED  BY <1>1, <1>3 DEF Turns

LEMMA TurnsConcat ==
    ASSUME NEW a \in Seq(Calls), NEW b \in Seq(Calls), NEW array, NEW s, NEW t, NEW u,
           Turns(a, array, s, t), Turns(b, array, t, u)
    PROVE  Turns(a \o b, array, s, u)
<1>1. PICK f : /\ f[0] = s /\ f[Len(a)] = t
               /\ \A i \in 1 .. Len(a) : Step(a[i], array, f[i - 1], f[i])
  BY Zenon DEF Turns
<1>2. PICK g : /\ g[0] = t /\ g[Len(b)] = u
               /\ \A i \in 1 .. Len(b) : Step(b[i], array, g[i - 1], g[i])
  BY Zenon DEF Turns
<1> DEFINE c == a \o b
           n == Len(a)
           p == Len(b)
           h == [i \in 0 .. n + p |-> IF i <= n THEN f[i] ELSE g[i - n]]
<1>3. /\ n \in Nat /\ p \in Nat /\ Len(c) = n + p
      /\ \A i \in 1 .. n + p : c[i] = IF i <= n THEN a[i] ELSE b[i - n]
  BY ConcatProperties, LenProperties
<1>4. /\ \A i \in 0 .. n : h[i] = f[i]
      /\ \A i \in n .. n + p : h[i] = g[i - n]
  <2>1. \A i \in 0 .. n : h[i] = f[i]
    BY <1>3
  <2>2. ASSUME NEW i \in n .. n + p PROVE h[i] = g[i - n]
    <3>1. CASE i = n
      <4>1. h[i] = f[n] /\ i - n = 0
        BY <1>3, <3>1
      <4> QED  BY <1>1, <1>2, <4>1
    <3>2. CASE i # n
      BY <1>3, <3>2
    <3> QED  BY <3>1, <3>2
  <2> QED  BY <2>1, <2>2
<1> HIDE DEF h, c
<1>5. h[0] = s /\ h[n + p] = u
  <2>1. h[0] = f[0]
    BY <1>3, <1>4
  <2>2. h[n + p] = g[p]
    <3>1. n + p \in n .. n + p /\ (n + p) - n = p
      BY <1>3
    <3>2. h[n + p] = g[(n + p) - n]
      BY <1>4, <3>1, Zenon
    <3> QED  BY <3>1, <3>2
  <2> QED  BY <1>1, <1>2, <2>1, <2>2
<1>6. ASSUME NEW i \in 1 .. n + p PROVE Step(c[i], array, h[i - 1], h[i])
  <2>1. CASE i <= n
    <3>1. i \in 1 .. n /\ i \in 0 .. n /\ i - 1 \in 0 .. n
      BY <1>3, <2>1
    <3>2. c[i] = a[i] /\ h[i] = f[i] /\ h[i - 1] = f[i - 1]
      BY <1>3, <1>4, <2>1, <3>1
    <3> QED  BY <1>1, <3>1, <3>2
  <2>2. CASE ~ (i <= n)
    <3>1. i - n \in 1 .. p /\ i \in n .. n + p /\ i - 1 \in n .. n + p /\ (i - 1) - n = (i - n) - 1
      BY <1>3, <2>2
    <3>2. h[i] = g[i - n] /\ h[i - 1] = g[(i - 1) - n]
      BY <1>4, <3>1
    <3>3. c[i] = b[i - n]
      BY <1>3, <2>2
    <3>4. Step(b[i - n], array, g[(i - n) - 1], g[i - n])
      BY <1>2, <3>1
    <3> QED  BY <3>1, <3>2, <3>3, <3>4
  <2> QED  BY <2>1, <2>2
<1> QED  BY <1>3, <1>5, <1>6 DEF Turns, c

\* The first of the calls is finished.
LEMMA TurnsFirst ==
    ASSUME NEW todo \in Seq(Calls), todo # << >>, NEW array, NEW s, NEW t,
           Turns(todo, array, s, t)
    PROVE  /\ Step(Head(todo), array, s, SortedBy(Head(todo), array, s))
           /\ Turns(Tail(todo), array, SortedBy(Head(todo), array, s), t)
<1>1. PICK h : /\ h[0] = s /\ h[Len(todo)] = t
               /\ \A i \in 1 .. Len(todo) : Step(todo[i], array, h[i - 1], h[i])
  BY Zenon DEF Turns
<1> DEFINE n == Len(todo)
           q == Tail(todo)
           g == [i \in 0 .. n - 1 |-> h[i + 1]]
<1>2. /\ n \in Nat \ {0} /\ Len(q) = n - 1 /\ Head(todo) = todo[1]
      /\ \A i \in 1 .. n - 1 : q[i] = todo[i + 1]
  BY EmptySeq, HeadTailProperties
<1>3. Step(todo[1], array, s, h[1]) /\ h[1] = SortedBy(todo[1], array, s)
  <2>1. 1 \in 1 .. n /\ 1 - 1 = 0
    BY <1>2
  <2>2. Step(todo[1], array, h[1 - 1], h[1])
    BY <1>1, <2>1, Zenon
  <2> QED  BY <1>1, <2>1, <2>2 DEF Step
<1>4. \A i \in 0 .. n - 1 : g[i] = h[i + 1]
  OBVIOUS
<1> HIDE DEF g, q, n
<1>5. g[0] = h[1] /\ g[n - 1] = t
  BY <1>1, <1>2, <1>4 DEF n
<1>6. ASSUME NEW i \in 1 .. n - 1 PROVE Step(q[i], array, g[i - 1], g[i])
  <2>1. i \in 0 .. n - 1 /\ i - 1 \in 0 .. n - 1 /\ (i - 1) + 1 = (i + 1) - 1 /\ i + 1 \in 1 .. n
    BY <1>2
  <2>2. g[i] = h[i + 1] /\ g[i - 1] = h[(i - 1) + 1] /\ q[i] = todo[i + 1]
    BY <1>2, <1>4, <2>1
  <2>3. Step(todo[i + 1], array, h[(i + 1) - 1], h[i + 1])
    BY <1>1, <2>1, Zenon DEF n
  <2> QED  BY <2>1, <2>2, <2>3
<1>7. Turns(q, array, h[1], t)
  BY <1>2, <1>5, <1>6, Zenon DEF Turns
<1> QED  BY <1>2, <1>3, <1>7 DEF q

\* The calls a call makes and itself: g has the calls of shorter arrays.
OrderBody(len, g) ==
    IF len <= 2 THEN << [at |-> 0, len |-> len] >>
    ELSE LET left  == len \div 2
             right == g[len - left]
         IN g[left] \o [i \in DOMAIN right |-> [right[i] EXCEPT !.at = @ + left]]
                    \o << [at |-> 0, len |-> len] >>

Moved(todo, by) == [i \in DOMAIN todo |-> [todo[i] EXCEPT !.at = @ + by]]

LEMMA MovedType ==
    ASSUME NEW todo \in Seq(Calls), NEW by \in Nat
    PROVE  /\ Moved(todo, by) \in Seq(Calls) /\ Len(Moved(todo, by)) = Len(todo)
           /\ \A i \in 1 .. Len(todo) :
                 Moved(todo, by)[i] = [at |-> todo[i].at + by, len |-> todo[i].len]
<1>1. Len(todo) \in Nat /\ DOMAIN todo = 1 .. Len(todo) /\ \A i \in 1 .. Len(todo) : todo[i] \in Calls
  BY LenProperties
<1>2. \A c \in Calls : /\ [c EXCEPT !.at = @ + by] = [at |-> c.at + by, len |-> c.len]
                       /\ [at |-> c.at + by, len |-> c.len] \in Calls
  BY DEF Calls
<1>3. /\ DOMAIN Moved(todo, by) = 1 .. Len(todo)
      /\ \A i \in 1 .. Len(todo) : /\ Moved(todo, by)[i] = [at |-> todo[i].at + by, len |-> todo[i].len]
                                   /\ Moved(todo, by)[i] \in Calls
  BY <1>1, <1>2 DEF Moved
<1>4. Moved(todo, by) = [i \in 1 .. Len(todo) |-> Moved(todo, by)[i]]
  BY <1>1 DEF Moved
<1>5. Moved(todo, by) \in [1 .. Len(todo) -> Calls]
  BY <1>3, <1>4
<1>6. Moved(todo, by) \in Seq(Calls)
  BY <1>1, <1>5, SeqDef
<1> QED  BY <1>1, <1>3, <1>6, LenProperties

LEMMA Halves ==
    ASSUME NEW n \in Nat \ {0}, n > 2
    PROVE  n \div 2 \in Nat \ {0} /\ n - (n \div 2) \in Nat \ {0} /\ n \div 2 < n /\ n - (n \div 2) < n
OBVIOUS

LEMMA OrderBodyIs ==
    ASSUME NEW n \in Nat \ {0}, NEW g \in [Nat \ {0} -> Seq(Calls)]
    PROVE  /\ OrderBody(n, g) \in Seq(Calls)
           /\ OrderBody(n, g) = IF n <= 2 THEN << [at |-> 0, len |-> n] >>
                                ELSE g[n \div 2] \o Moved(g[n - (n \div 2)], n \div 2)
                                                 \o << [at |-> 0, len |-> n] >>
<1>1. << [at |-> 0, len |-> n] >> \in Seq(Calls)
  BY DEF Calls
<1>2. ASSUME n > 2
      PROVE g[n \div 2] \o Moved(g[n - (n \div 2)], n \div 2) \o << [at |-> 0, len |-> n] >> \in Seq(Calls)
  <2>1. n \div 2 \in Nat \ {0} /\ n \div 2 \in Nat /\ n - (n \div 2) \in Nat \ {0}
    BY <1>2, Halves
  <2>2. g[n \div 2] \in Seq(Calls) /\ Moved(g[n - (n \div 2)], n \div 2) \in Seq(Calls)
    BY <2>1, MovedType
  <2>3. \A s, t \in Seq(Calls) : s \o t \in Seq(Calls)
    BY ConcatProperties
  <2> QED  BY <1>1, <2>2, <2>3
<1>3. n > 2 \/ n <= 2
  OBVIOUS
<1>4. OrderBody(n, g) = IF n <= 2 THEN << [at |-> 0, len |-> n] >>
                        ELSE g[n \div 2] \o Moved(g[n - (n \div 2)], n \div 2)
                                         \o << [at |-> 0, len |-> n] >>
  BY DEF OrderBody, Moved
<1> QED  BY <1>1, <1>2, <1>3, <1>4

LEMMA OrderUnfolds ==
    /\ PostOrder \in [Nat \ {0} -> Seq(Calls)]
    /\ \A n \in Nat \ {0} : PostOrder[n] = OrderBody(n, PostOrder)
<1> DEFINE S == Nat \ {0}
           V == Seq(Calls)
           m == [n \in S |-> n]
           F == [n \in S |-> [g \in [S -> V] |-> OrderBody(n, g)]]
<1>1. m \in [S -> Nat] /\ \A n \in S : m[n] = n
  OBVIOUS
<1>2. \A n \in S : \A g \in [S -> V] : F[n][g] = OrderBody(n, g)
  OBVIOUS
<1>3. F \in [S -> [[S -> V] -> V]]
  BY OrderBodyIs
<1>4. \A n \in S : \A g \in [S -> V] :
         F[n][g] = IF n <= 2 THEN << [at |-> 0, len |-> n] >>
                   ELSE g[n \div 2] \o Moved(g[n - (n \div 2)], n \div 2)
                                    \o << [at |-> 0, len |-> n] >>
  BY <1>2, OrderBodyIs
<1> HIDE DEF m, F
<1>5. LooksBelow(S, V, m, F)
  <2> SUFFICES ASSUME NEW n \in S, NEW g \in [S -> V], NEW h \in [S -> V],
                      \A y \in S : m[y] < m[n] => g[y] = h[y]
               PROVE  F[n][g] = F[n][h]
    BY DEF LooksBelow
  <2>1. CASE n <= 2
    <3>1. OrderBody(n, g) = OrderBody(n, h)
      BY <2>1 DEF OrderBody
    <3> QED  BY <1>2, <3>1
  <2>2. CASE ~ (n <= 2)
    <3>1. n \div 2 \in S /\ n - (n \div 2) \in S /\ n \div 2 < n /\ n - (n \div 2) < n
      BY <2>2, Halves
    <3>2. g[n \div 2] = h[n \div 2] /\ g[n - (n \div 2)] = h[n - (n \div 2)]
      BY <1>1, <3>1
    <3> HIDE DEF S, V
    <3> QED  BY <1>4, <2>2, <3>2, Zenon
  <2> QED  BY <2>1, <2>2
<1>6. PICK f \in [S -> V] : Fixes(S, F, f)
  <2>1. V # {}
    BY EmptySeq
  <2> HIDE DEF S, V
  <2> QED  BY <1>1, <1>3, <1>5, <2>1, Recursion
<1>7. f = [n \in S |-> OrderBody(n, f)]
  <2> HIDE DEF S, V
  <2>1. \A n \in S : f[n] = OrderBody(n, f)
    BY <1>2, <1>6, Zenon DEF Fixes
  <2> QED  BY <2>1
<1>8. PostOrder = [n \in Nat \ {0} |-> OrderBody(n, PostOrder)]
  BY <1>7, Zenon DEF PostOrder, OrderBody
<1> DEFINE O == PostOrder
<1>9. O = [n \in S |-> OrderBody(n, O)]
  BY <1>8, Zenon
<1> HIDE DEF O
<1>10. \A n \in S : O[n] = OrderBody(n, O)
  BY <1>9
<1>11. \A n \in S : O[n] \in V
  <2> DEFINE T == {n \in S : O[n] \in V}
  <2>1. ASSUME NEW n \in S, \A y \in S : m[y] < m[n] => y \in T PROVE n \in T
    <3> DEFINE g == [y \in S |-> IF y < n THEN O[y] ELSE << >>]
    <3>1. \A y \in S : y < n => y \in T
      BY <1>1, <2>1
    <3>2. << >> \in V
      BY EmptySeq
    <3>3. g \in [S -> V]
      BY <3>1, <3>2
    <3>4. \A y \in S : y < n => g[y] = O[y]
      OBVIOUS
    <3> HIDE DEF g
    <3>5. OrderBody(n, g) \in V
      BY <3>3, OrderBodyIs
    <3>6. OrderBody(n, g) = OrderBody(n, O)
      <4>1. CASE n <= 2
        BY <4>1 DEF OrderBody
      <4>2. CASE ~ (n <= 2)
        <5>1. n \div 2 \in S /\ n - (n \div 2) \in S /\ n \div 2 < n /\ n - (n \div 2) < n
          BY <4>2, Halves
        <5>2. g[n \div 2] = O[n \div 2] /\ g[n - (n \div 2)] = O[n - (n \div 2)]
          BY <3>4, <5>1
        <5> QED  BY <4>2, <5>2, Zenon DEF OrderBody
      <4> QED  BY <4>1, <4>2
    <3> QED  BY <1>10, <3>5, <3>6
  <2>2. S \subseteq T
    <3> HIDE DEF S, T
    <3> QED  BY <1>1, <2>1, MeasureInduction
  <2> QED  BY <2>2
<1>12. O \in [S -> V]
  <2> HIDE DEF S, V
  <2> QED  BY <1>9, <1>11
<1> QED  BY <1>10, <1>12 DEF O

\* What the calls of an array of n numbers do, from lo on in the array at hand.
SortsFrom(n, lo, array) ==
    \A s \in Seq(Arrays) : \E x \in Arrays :
        /\ Arranges(x, SubSeq(array, lo + 1, lo + n))
        /\ Turns(Moved(PostOrder[n], lo), array, s, Append(s, x))

LEMMA StepLeaf ==
    ASSUME NEW array \in Arrays, NEW call \in Calls, IsLeaf(call),
           call.at + call.len <= Len(array), NEW s \in Seq(Arrays)
    PROVE  \E x \in Arrays :
              /\ Arranges(x, SubSeq(array, call.at + 1, call.at + call.len))
              /\ Step(call, array, s, Append(s, x))
<1> DEFINE part == SubSeq(array, call.at + 1, call.at + call.len)
<1>1. call.at \in Nat /\ call.len \in 1 .. 2 /\ Len(array) \in Nat
      /\ \A i \in 1 .. Len(array) : array[i] \in Int
  BY LenProperties DEF Calls, IsLeaf, Arrays
<1>2. part \in Seq(Int) /\ Len(part) = call.len
  <2>1. \A i \in call.at + 1 .. call.at + call.len : array[i] \in Int
    BY <1>1
  <2>2. call.at + 1 \in Int /\ call.at + call.len \in Int /\ call.at + 1 <= call.at + call.len
        /\ (call.at + call.len) - (call.at + 1) + 1 = call.len
    BY <1>1
  <2> QED  BY <2>1, <2>2, SubSeqProperties
<1>3. Arranges(SortedLeaf(part), part)
  BY <1>1, <1>2, LeafIs
<1>4. SortedLeaf(part) \in Arrays
  BY <1>3 DEF Arranges, Arrays
<1>5. Step(call, array, s, Append(s, SortedLeaf(part)))
  BY DEF Step, SortedBy
<1> QED  BY <1>3, <1>4, <1>5

LEMMA StepMerge ==
    ASSUME NEW array, NEW call, ~IsLeaf(call), NEW s \in Seq(Arrays),
           NEW x \in Arrays, NEW y \in Arrays
    PROVE  Step(call, array, Append(Append(s, x), y), Append(s, Merge(x, y)))
<1> DEFINE t == Append(Append(s, x), y)
           n == Len(s)
<1>1. Append(s, x) \in Seq(Arrays) /\ Len(Append(s, x)) = n + 1 /\ n \in Nat
      /\ Append(s, x)[n + 1] = x /\ \A i \in 1 .. n : Append(s, x)[i] = s[i]
  BY AppendProperties, LenProperties
<1>2. /\ t \in Seq(Arrays) /\ Len(t) = n + 2
      /\ t[n + 2] = y /\ t[n + 1] = x /\ \A i \in 1 .. n : t[i] = s[i]
  BY <1>1, AppendProperties
<1> HIDE DEF t
<1>3. SubSeq(t, 1, n) = s
  <2>1. \A i \in 1 .. n : t[i] \in Arrays /\ t[i] = s[i]
    BY <1>2, LenProperties
  <2>2. /\ SubSeq(t, 1, n) \in Seq(Arrays) /\ Len(SubSeq(t, 1, n)) = n
        /\ \A i \in 1 .. n : SubSeq(t, 1, n)[i] = t[i]
    <3>1. /\ SubSeq(t, 1, n) \in Seq(Arrays)
          /\ Len(SubSeq(t, 1, n)) = IF 1 <= n THEN n - 1 + 1 ELSE 0
          /\ \A i \in 1 .. n - 1 + 1 : SubSeq(t, 1, n)[i] = t[1 + i - 1]
      BY <1>1, <2>1, SubSeqProperties
    <3>2. \A i \in 1 .. n : i \in 1 .. n - 1 + 1 /\ 1 + i - 1 = i
      BY <1>1
    <3> QED  BY <1>1, <3>1, <3>2
  <2> QED  BY <2>1, <2>2, SeqEqual
<1>4. Len(t) - 2 = n /\ Len(t) - 1 = n + 1 /\ Len(t) >= 2
  BY <1>1, <1>2
<1>5. SortedBy(call, array, t) = Append(s, Merge(x, y))
  BY <1>2, <1>3, <1>4 DEF SortedBy
<1> QED  BY <1>2, <1>4, <1>5 DEF Step, t

LEMMA MovedTwice ==
    ASSUME NEW todo \in Seq(Calls), NEW i \in Nat, NEW j \in Nat
    PROVE  Moved(Moved(todo, i), j) = Moved(todo, i + j)
<1>1. i + j \in Nat
  OBVIOUS
<1>2. /\ Moved(todo, i) \in Seq(Calls) /\ Moved(todo, i + j) \in Seq(Calls)
      /\ Moved(Moved(todo, i), j) \in Seq(Calls)
      /\ Len(Moved(todo, i + j)) = Len(todo) /\ Len(Moved(Moved(todo, i), j)) = Len(todo)
      /\ Len(Moved(todo, i)) = Len(todo)
  BY <1>1, MovedType
<1>3. ASSUME NEW k \in 1 .. Len(todo) PROVE Moved(Moved(todo, i), j)[k] = Moved(todo, i + j)[k]
  <2>1. Moved(todo, i)[k] = [at |-> todo[k].at + i, len |-> todo[k].len]
    BY MovedType
  <2>2. Moved(Moved(todo, i), j)[k] = [at |-> Moved(todo, i)[k].at + j, len |-> Moved(todo, i)[k].len]
    BY <1>2, MovedType
  <2>3. Moved(todo, i + j)[k] = [at |-> todo[k].at + (i + j), len |-> todo[k].len]
    BY <1>1, MovedType
  <2>4. todo[k].at \in Nat
    <3>1. todo[k] \in Calls
      BY LenProperties
    <3> QED  BY <3>1 DEF Calls
  <2>5. (todo[k].at + i) + j = todo[k].at + (i + j)
    BY <2>4
  <2> QED  BY <2>1, <2>2, <2>3, <2>5
<1> QED  BY <1>2, <1>3, SeqEqual

LEMMA MovedConcat ==
    ASSUME NEW a \in Seq(Calls), NEW b \in Seq(Calls), NEW by \in Nat
    PROVE  Moved(a \o b, by) = Moved(a, by) \o Moved(b, by)
<1>1. /\ a \o b \in Seq(Calls) /\ Len(a \o b) = Len(a) + Len(b) /\ Len(a) \in Nat /\ Len(b) \in Nat
      /\ \A i \in 1 .. Len(a) + Len(b) : (a \o b)[i] = IF i <= Len(a) THEN a[i] ELSE b[i - Len(a)]
  BY ConcatProperties, LenProperties
<1>2. /\ Moved(a, by) \in Seq(Calls) /\ Len(Moved(a, by)) = Len(a)
      /\ Moved(b, by) \in Seq(Calls) /\ Len(Moved(b, by)) = Len(b)
      /\ Moved(a \o b, by) \in Seq(Calls) /\ Len(Moved(a \o b, by)) = Len(a) + Len(b)
  BY <1>1, MovedType
<1>3. /\ Moved(a, by) \o Moved(b, by) \in Seq(Calls)
      /\ Len(Moved(a, by) \o Moved(b, by)) = Len(a) + Len(b)
      /\ \A i \in 1 .. Len(a) + Len(b) :
            (Moved(a, by) \o Moved(b, by))[i]
               = IF i <= Len(a) THEN Moved(a, by)[i] ELSE Moved(b, by)[i - Len(a)]
  <2> DEFINE u == Moved(a, by)  w == Moved(b, by)
  <2>1. u \in Seq(Calls) /\ w \in Seq(Calls) /\ Len(u) = Len(a) /\ Len(w) = Len(b)
    BY <1>2
  <2> HIDE DEF u, w
  <2>2. /\ u \o w \in Seq(Calls) /\ Len(u \o w) = Len(u) + Len(w)
        /\ \A i \in 1 .. Len(u) + Len(w) : (u \o w)[i] = IF i <= Len(u) THEN u[i] ELSE w[i - Len(u)]
    BY <2>1, ConcatProperties
  <2>3. /\ u \o w \in Seq(Calls) /\ Len(u \o w) = Len(a) + Len(b)
        /\ \A i \in 1 .. Len(a) + Len(b) : (u \o w)[i] = IF i <= Len(a) THEN u[i] ELSE w[i - Len(a)]
    BY <2>1, <2>2
  <2> QED  BY <2>3 DEF u, w
<1>4. ASSUME NEW i \in 1 .. Len(a) + Len(b)
      PROVE  Moved(a \o b, by)[i] = (Moved(a, by) \o Moved(b, by))[i]
  <2>1. Moved(a \o b, by)[i] = [at |-> (a \o b)[i].at + by, len |-> (a \o b)[i].len]
    <3>1. i \in 1 .. Len(a \o b) /\ a \o b \in Seq(Calls)
      BY <1>1
    <3> QED  BY <3>1, MovedType
  <2>2. CASE i <= Len(a)
    <3>1. i \in 1 .. Len(a)
      BY <1>1, <2>2
    <3>2. Moved(a, by)[i] = [at |-> a[i].at + by, len |-> a[i].len]
      BY <3>1, MovedType
    <3> QED  BY <1>1, <1>3, <2>1, <2>2, <3>2
  <2>3. CASE ~ (i <= Len(a))
    <3>1. i - Len(a) \in 1 .. Len(b)
      BY <1>1, <2>3
    <3>2. Moved(b, by)[i - Len(a)] = [at |-> b[i - Len(a)].at + by, len |-> b[i - Len(a)].len]
      BY <3>1, MovedType
    <3> QED  BY <1>1, <1>3, <2>1, <2>3, <3>2
  <2> QED  BY <2>2, <2>3
<1> QED  BY <1>2, <1>3, <1>4, SeqEqual

\* The calls of an array, moved to where that is a part of another: those of its left
\* half, of its right half, and its own.
LEMMA OrderSplit ==
    ASSUME NEW n \in Nat \ {0}, n > 2, NEW lo \in Nat
    PROVE  /\ PostOrder[n \div 2] \in Seq(Calls) /\ PostOrder[n - (n \div 2)] \in Seq(Calls)
           /\ Moved(PostOrder[n], lo) = (Moved(PostOrder[n \div 2], lo)
                                         \o Moved(PostOrder[n - (n \div 2)], lo + (n \div 2)))
                                        \o << [at |-> lo, len |-> n] >>
<1> DEFINE l == n \div 2
           r == n - (n \div 2)
           a == PostOrder[l]
           b == PostOrder[r]
           own == << [at |-> 0, len |-> n] >>
<1>1. l \in Nat \ {0} /\ r \in Nat \ {0} /\ l \in Nat /\ l + lo \in Nat /\ l + lo = lo + l
  BY Halves
<1>2. a \in Seq(Calls) /\ b \in Seq(Calls)
  BY <1>1, OrderUnfolds
<1>3. PostOrder[n] = a \o Moved(b, l) \o own
  <2>1. PostOrder[n] = OrderBody(n, PostOrder)
    BY OrderUnfolds
  <2>2. ~ (n <= 2)
    OBVIOUS
  <2> QED  BY <2>1, <2>2, OrderUnfolds, OrderBodyIs
<1>4. Moved(b, l) \in Seq(Calls) /\ own \in Seq(Calls)
  <2>1. own \in Seq(Calls)
    BY DEF Calls
  <2> QED  BY <1>1, <1>2, <2>1, MovedType
<1>5. Moved(own, lo) = << [at |-> lo, len |-> n] >>
  BY DEF Moved
<1> HIDE DEF a, b, own, l, r
<1>6. Moved(a \o Moved(b, l) \o own, lo) = (Moved(a, lo) \o Moved(Moved(b, l), lo)) \o Moved(own, lo)
  <2>1. a \o Moved(b, l) \in Seq(Calls)
    BY <1>2, <1>4, ConcatProperties
  <2>2. Moved((a \o Moved(b, l)) \o own, lo) = Moved(a \o Moved(b, l), lo) \o Moved(own, lo)
    BY <1>4, <2>1, MovedConcat
  <2>3. Moved(a \o Moved(b, l), lo) = Moved(a, lo) \o Moved(Moved(b, l), lo)
    BY <1>2, <1>4, MovedConcat
  <2> QED  BY <2>2, <2>3, Zenon
<1>7. Moved(Moved(b, l), lo) = Moved(b, lo + l)
  BY <1>1, <1>2, MovedTwice
<1> QED  BY <1>2, <1>3, <1>5, <1>6, <1>7 DEF a, b, l, r

\* The recursion of get_sorted_numbers (213-222), taken in the order in which its
\* calls finish, leaves one array more: the part it is about, in order.
THEOREM OrderSorts ==
    ASSUME NEW array \in Arrays
    PROVE  \A n \in Nat \ {0} : \A lo \in Nat : lo + n <= Len(array) => SortsFrom(n, lo, array)
<1> DEFINE S == Nat \ {0}
           m == [n \in S |-> n]
           T == {n \in S : \A lo \in Nat : lo + n <= Len(array) => SortsFrom(n, lo, array)}
<1>1. m \in [S -> Nat] /\ \A n \in S : m[n] = n
  OBVIOUS
<1>2. ASSUME NEW n \in S, \A y \in S : m[y] < m[n] => y \in T PROVE n \in T
  <2> SUFFICES ASSUME NEW lo \in Nat, lo + n <= Len(array) PROVE SortsFrom(n, lo, array)
    OBVIOUS
  <2>0. Len(array) \in Nat
    BY LenProperties DEF Arrays
  <2> DEFINE own == [at |-> lo, len |-> n]
  <2>1. own \in Calls /\ own.at = lo /\ own.len = n /\ (IsLeaf(own) <=> n <= 2)
    BY DEF Calls, IsLeaf
  <2> HIDE DEF own
  <2>2. CASE n <= 2
    <3>1. PostOrder[n] = << [at |-> 0, len |-> n] >>
      BY <2>2, OrderUnfolds DEF OrderBody
    <3>2. Moved(PostOrder[n], lo) = << own >>
      BY <3>1 DEF Moved, own
    <3>3. ASSUME NEW s \in Seq(Arrays)
          PROVE  \E x \in Arrays : /\ Arranges(x, SubSeq(array, lo + 1, lo + n))
                                   /\ Turns(<< own >>, array, s, Append(s, x))
      <4>1. PICK x \in Arrays : /\ Arranges(x, SubSeq(array, lo + 1, lo + n))
                                /\ Step(own, array, s, Append(s, x))
        BY <2>1, <2>2, StepLeaf
      <4>2. Turns(<< own >>, array, s, Append(s, x))
        BY <4>1, TurnsOne
      <4> QED  BY <4>1, <4>2
    <3> QED  BY <3>2, <3>3 DEF SortsFrom
  <2>3. CASE ~ (n <= 2)
    <3> DEFINE l == n \div 2
               r == n - (n \div 2)
               a == Moved(PostOrder[l], lo)
               b == Moved(PostOrder[r], lo + l)
    <3>1. /\ l \in S /\ r \in S /\ l < n /\ r < n /\ l + r = n /\ lo + l \in Nat
          /\ lo + l <= Len(array) /\ (lo + l) + r = lo + n
      BY <2>0, <2>3, Halves
    <3>2. /\ Moved(PostOrder[n], lo) = (a \o b) \o << own >>
          /\ a \in Seq(Calls) /\ b \in Seq(Calls) /\ << own >> \in Seq(Calls)
      <4>1. << own >> \in Seq(Calls)
        BY <2>1
      <4>2. n > 2
        BY <2>3
      <4> QED  BY <3>1, <4>1, <4>2, OrderSplit, MovedType DEF own
    <3>3. l \in T /\ r \in T
      BY <1>1, <1>2, <3>1
    <3>4. SortsFrom(l, lo, array) /\ SortsFrom(r, lo + l, array)
      BY <3>1, <3>3
    <3> HIDE DEF l, r
    <3>5. \A s \in Seq(Arrays) : \E x \in Arrays :
             /\ Arranges(x, SubSeq(array, lo + 1, lo + l))
             /\ Turns(a, array, s, Append(s, x))
      BY <3>4 DEF SortsFrom
    <3>6. \A s \in Seq(Arrays) : \E x \in Arrays :
             /\ Arranges(x, SubSeq(array, (lo + l) + 1, lo + n))
             /\ Turns(b, array, s, Append(s, x))
      BY <3>1, <3>4 DEF SortsFrom
    <3> HIDE DEF a, b
    <3>7. /\ SubSeq(array, lo + 1, lo + l) \in Seq(Int)
          /\ SubSeq(array, (lo + l) + 1, lo + n) \in Seq(Int)
          /\ SubSeq(array, lo + 1, lo + l) \o SubSeq(array, (lo + l) + 1, lo + n)
                = SubSeq(array, lo + 1, lo + n)
      <4>1. /\ lo + 1 \in 1 .. Len(array) + 1 /\ lo + l \in (lo + 1) - 1 .. Len(array)
            /\ lo + n \in lo + l .. Len(array)
        BY <2>0, <3>1
      <4>2. SubSeq(array, lo + 1, lo + l) \o SubSeq(array, (lo + l) + 1, lo + n)
                = SubSeq(array, lo + 1, lo + n)
        BY <4>1, ConcatAdjacentSubSeq DEF Arrays
      <4>3. \A i \in 1 .. Len(array) : array[i] \in Int
        BY LenProperties DEF Arrays
      <4>4. /\ \A i \in lo + 1 .. lo + l : array[i] \in Int
            /\ \A i \in (lo + l) + 1 .. lo + n : array[i] \in Int
        BY <2>0, <3>1, <4>3
      <4>5. lo + 1 \in Int /\ lo + l \in Int /\ (lo + l) + 1 \in Int /\ lo + n \in Int
        BY <3>1
      <4> QED  BY <4>2, <4>4, <4>5, SubSeqProperties
    <3>8. ASSUME NEW s \in Seq(Arrays)
          PROVE  \E z \in Arrays : /\ Arranges(z, SubSeq(array, lo + 1, lo + n))
                                   /\ Turns((a \o b) \o << own >>, array, s, Append(s, z))
      <4>1. PICK x \in Arrays : /\ Arranges(x, SubSeq(array, lo + 1, lo + l))
                                /\ Turns(a, array, s, Append(s, x))
        BY <3>5
      <4>2. Append(s, x) \in Seq(Arrays)
        BY AppendProperties
      <4>3. PICK y \in Arrays : /\ Arranges(y, SubSeq(array, (lo + l) + 1, lo + n))
                                /\ Turns(b, array, Append(s, x), Append(Append(s, x), y))
        BY <3>6, <4>2
      <4>4. Arranges(Merge(x, y), SubSeq(array, lo + 1, lo + n))
        BY <3>7, <4>1, <4>3, MergeArranges
      <4>5. Merge(x, y) \in Arrays
        BY <4>4 DEF Arranges, Arrays
      <4>6. Turns(<< own >>, array, Append(Append(s, x), y), Append(s, Merge(x, y)))
        BY <2>1, <2>3, StepMerge, TurnsOne
      <4>7. Turns(a \o b, array, s, Append(Append(s, x), y))
        BY <3>2, <4>1, <4>3, TurnsConcat
      <4>8. a \o b \in Seq(Calls)
        BY <3>2, ConcatProperties
      <4>9. Turns((a \o b) \o << own >>, array, s, Append(s, Merge(x, y)))
        BY <3>2, <4>6, <4>7, <4>8, TurnsConcat
      <4> QED  BY <4>4, <4>5, <4>9
    <3> QED  BY <3>2, <3>8 DEF SortsFrom
  <2> QED  BY <2>2, <2>3
<1>3. S \subseteq T
  <2> HIDE DEF S, T
  <2> QED  BY <1>1, <1>2, MeasureInduction
<1> QED  BY <1>3

\* The calls that are left, after some, for an array that is not empty.
Sorting(todo, array, sorted) ==
    \E x \in Arrays : Arranges(x, array) /\ Turns(todo, array, sorted, << x >>)

LEMMA SortingBegins ==
    ASSUME NEW array \in Arrays, Len(array) # 0
    PROVE  /\ PostOrder[Len(array)] \in Seq(Calls) /\ PostOrder[Len(array)] # << >>
           /\ Sorting(PostOrder[Len(array)], array, << >>)
<1> DEFINE n == Len(array)
           o == PostOrder[n]
<1>1. n \in Nat \ {0} /\ 0 + n <= Len(array)
  BY LenProperties DEF Arrays
<1>2. o \in Seq(Calls) /\ 0 \in Nat
  BY <1>1, OrderUnfolds
<1>3. Moved(o, 0) = o
  <2> HIDE DEF o
  <2>1. /\ Moved(o, 0) \in Seq(Calls) /\ Len(Moved(o, 0)) = Len(o)
        /\ \A i \in 1 .. Len(o) : Moved(o, 0)[i] = [at |-> o[i].at + 0, len |-> o[i].len]
    BY <1>2, MovedType
  <2>2. \A c \in Calls : [at |-> c.at + 0, len |-> c.len] = c
    BY DEF Calls
  <2>3. \A i \in 1 .. Len(o) : o[i] \in Calls
    BY <1>2, LenProperties
  <2>4. \A i \in 1 .. Len(o) : o[i] = Moved(o, 0)[i]
    BY <2>1, <2>2, <2>3
  <2> QED  BY <1>2, <2>1, <2>4, SeqEqual
<1>4. << >> \in Seq(Arrays) /\ SortsFrom(n, 0, array)
  BY <1>1, <1>2, OrderSorts, EmptySeq
<1>5. PICK x \in Arrays : /\ Arranges(x, SubSeq(array, 0 + 1, 0 + n))
                          /\ Turns(Moved(o, 0), array, << >>, Append(<< >>, x))
  BY <1>4 DEF SortsFrom
<1>6. SubSeq(array, 0 + 1, 0 + n) = array
  <2>1. 0 + 1 = 1 /\ 0 + n = n
    BY <1>1
  <2> QED  BY <2>1, SubSeqFull DEF Arrays
<1>7. Append(<< >>, x) = << x >>
  OBVIOUS
<1> HIDE DEF o, n
<1>8. Sorting(o, array, << >>)
  BY <1>3, <1>5, <1>6, <1>7, Zenon DEF Sorting
<1>9. o # << >>
  BY <1>3, <1>5, <1>7, TurnsNone
<1> QED  BY <1>2, <1>8, <1>9 DEF o, n

LEMMA SortingEnds ==
    ASSUME NEW array, NEW sorted, Sorting(<< >>, array, sorted)
    PROVE  \E x \in Arrays : sorted = << x >> /\ Arranges(x, array)
BY TurnsNone DEF Sorting

LEMMA SortingGoes ==
    ASSUME NEW array, NEW sorted, NEW todo \in Seq(Calls), todo # << >>,
           Sorting(todo, array, sorted)
    PROVE  /\ Tail(todo) \in Seq(Calls)
           /\ sorted \in Seq(Arrays) /\ (IsLeaf(Head(todo)) \/ Len(sorted) >= 2)
           /\ Sorting(Tail(todo), array, SortedBy(Head(todo), array, sorted))
<1>1. PICK x \in Arrays : Arranges(x, array) /\ Turns(todo, array, sorted, << x >>)
  BY DEF Sorting
<1>2. /\ Step(Head(todo), array, sorted, SortedBy(Head(todo), array, sorted))
      /\ Turns(Tail(todo), array, SortedBy(Head(todo), array, sorted), << x >>)
  BY <1>1, TurnsFirst
<1>3. Tail(todo) \in Seq(Calls)
  BY HeadTailProperties
<1> QED  BY <1>1, <1>2, <1>3 DEF Step, Sorting

-----------------------------------------------------------------------------
(* read_numbers_from_file                                                  *)

\* One number is read: before is the buffer till then.
BufferBody(f, garbage, i, before) ==
    LET buffer == [before EXCEPT ![i] = f[i]]
    IN IF i = Len(buffer) THEN Grow(buffer, garbage) ELSE buffer

LEMMA FreshType ==
    ASSUME NEW X, NEW garbage \in X, NEW n \in Nat
    PROVE  Fresh(n, garbage) \in Seq(X) /\ Len(Fresh(n, garbage)) = n
<1>1. Fresh(n, garbage) \in [1 .. n -> X]
  BY DEF Fresh
<1>2. Fresh(n, garbage) \in Seq(X)
  BY <1>1, SeqDef
<1> QED  BY <1>1, <1>2, LenProperties

LEMMA BufferBodyIs ==
    ASSUME NEW X, NEW f \in Seq(X), NEW garbage \in X, NEW i \in 1 .. Len(f), NEW before \in Seq(X)
    PROVE  /\ BufferBody(f, garbage, i, before) \in Seq(X)
           /\ Len(before) >= i =>
                 /\ Len(BufferBody(f, garbage, i, before)) > i
                 /\ \A j \in 1 .. i - 1 : BufferBody(f, garbage, i, before)[j] = before[j]
                 /\ BufferBody(f, garbage, i, before)[i] = f[i]
<1> DEFINE buffer == [before EXCEPT ![i] = f[i]]
<1>0. /\ before \in [1 .. Len(before) -> X] /\ Len(before) \in Nat /\ DOMAIN before = 1 .. Len(before)
      /\ i \in Nat \ {0} /\ f[i] \in X
  BY LenProperties
<1>1. /\ buffer \in Seq(X) /\ Len(buffer) = Len(before)
      /\ \A j \in 1 .. Len(before) : buffer[j] = IF j = i THEN f[i] ELSE before[j]
  <2>1. CASE i \in 1 .. Len(before)
    <3>1. buffer \in Seq(X) /\ Len(buffer) = Len(before)
      BY <1>0, <2>1, ExceptSeq
    <3> QED  BY <1>0, <3>1
  <2>2. CASE i \notin 1 .. Len(before)
    <3>1. buffer = before
      BY <1>0, <2>2
    <3> QED  BY <2>2, <3>1
  <2> QED  BY <2>1, <2>2
<1>2. BufferBody(f, garbage, i, before) = IF i = Len(buffer) THEN Grow(buffer, garbage) ELSE buffer
  BY DEF BufferBody
<1> HIDE DEF buffer
<1>3. /\ Grow(buffer, garbage) \in Seq(X)
      /\ Len(Grow(buffer, garbage)) = Len(buffer) + Len(buffer)
      /\ \A j \in 1 .. Len(buffer) : Grow(buffer, garbage)[j] = buffer[j]
  <2> DEFINE g == Fresh(Len(buffer), garbage)
  <2>1. g \in Seq(X) /\ Len(g) = Len(buffer)
    BY <1>0, <1>1, FreshType
  <2> HIDE DEF g
  <2>2. /\ buffer \o g \in Seq(X) /\ Len(buffer \o g) = Len(buffer) + Len(g)
        /\ \A j \in 1 .. Len(buffer) + Len(g) :
              (buffer \o g)[j] = IF j <= Len(buffer) THEN buffer[j] ELSE g[j - Len(buffer)]
    BY <1>1, <2>1, ConcatProperties
  <2>3. \A j \in 1 .. Len(buffer) : (buffer \o g)[j] = buffer[j]
    BY <1>0, <1>1, <2>1, <2>2
  <2> QED  BY <2>1, <2>2, <2>3 DEF Grow, g
<1>4. CASE i = Len(buffer)
  <2>1. BufferBody(f, garbage, i, before) = Grow(buffer, garbage)
    BY <1>2, <1>4
  <2>2. \A j \in 1 .. i : Grow(buffer, garbage)[j] = IF j = i THEN f[i] ELSE before[j]
    BY <1>1, <1>3, <1>4
  <2> QED  BY <1>0, <1>3, <1>4, <2>1, <2>2
<1>5. CASE i # Len(buffer)
  <2>1. BufferBody(f, garbage, i, before) = buffer
    BY <1>2, <1>5
  <2>2. ASSUME Len(before) >= i
        PROVE  Len(buffer) > i /\ i \in 1 .. Len(before) /\ \A j \in 1 .. i - 1 : j \in 1 .. Len(before) /\ j # i
    BY <1>0, <1>1, <1>5, <2>2
  <2>3. Len(before) >= i => /\ Len(buffer) > i /\ buffer[i] = f[i]
                            /\ \A j \in 1 .. i - 1 : buffer[j] = before[j]
    BY <1>1, <2>2
  <2> QED  BY <1>1, <2>1, <2>3
<1> QED  BY <1>4, <1>5

LEMMA BuffersUnfold ==
    ASSUME NEW X, NEW f \in Seq(X), NEW garbage \in X
    PROVE  /\ Buffers(f, garbage)[0] = Fresh(MAX_LENGTH, garbage)
           /\ \A i \in 1 .. Len(f) :
                 Buffers(f, garbage)[i] = BufferBody(f, garbage, i, Buffers(f, garbage)[i - 1])
<1> DEFINE S == 0 .. Len(f)
           V == Seq(X)
           Body(i, g) == IF i = 0 THEN Fresh(MAX_LENGTH, garbage)
                         ELSE BufferBody(f, garbage, i, g[i - 1])
           m == [i \in S |-> i]
           F == [i \in S |-> [g \in [S -> V] |-> Body(i, g)]]
<1>0. Len(f) \in Nat /\ MAX_LENGTH \in Nat
  BY LenProperties, MergeSortAssumption
<1>1. m \in [S -> Nat] /\ \A i \in S : m[i] = i
  OBVIOUS
<1>2. \A i \in S : i # 0 => i \in 1 .. Len(f) /\ i - 1 \in S /\ i - 1 < i
  BY <1>0
<1>3. \A i \in S : \A g \in [S -> V] : F[i][g] = Body(i, g)
  OBVIOUS
<1>4. ASSUME NEW i \in S, NEW g \in [S -> V] PROVE Body(i, g) \in V
  <2>1. CASE i = 0
    BY <1>0, <2>1, FreshType
  <2>2. CASE i # 0
    <3>1. i \in 1 .. Len(f) /\ g[i - 1] \in V
      BY <1>2, <2>2
    <3> QED  BY <2>2, <3>1, BufferBodyIs
  <2> QED  BY <2>1, <2>2
<1>5. F \in [S -> [[S -> V] -> V]]
  BY <1>4
<1> HIDE DEF m, F
<1>6. LooksBelow(S, V, m, F)
  <2> SUFFICES ASSUME NEW i \in S, NEW g \in [S -> V], NEW h \in [S -> V],
                      \A y \in S : m[y] < m[i] => g[y] = h[y]
               PROVE  F[i][g] = F[i][h]
    BY DEF LooksBelow
  <2>1. i # 0 => g[i - 1] = h[i - 1]
    BY <1>1, <1>2
  <2>2. Body(i, g) = Body(i, h)
    BY <2>1
  <2> QED  BY <1>3, <2>2
<1>7. PICK e \in [S -> V] : Fixes(S, F, e)
  <2>1. V # {}
    BY EmptySeq
  <2> HIDE DEF S, V
  <2> QED  BY <1>1, <1>5, <1>6, <2>1, Recursion
<1>8. e = [i \in S |-> Body(i, e)]
  <2> HIDE DEF S, V, Body
  <2>1. \A i \in S : e[i] = Body(i, e)
    BY <1>3, <1>7, Zenon DEF Fixes
  <2> QED  BY <2>1
<1>9. Buffers(f, garbage) = [i \in 0 .. Len(f) |->
         IF i = 0 THEN Fresh(MAX_LENGTH, garbage)
         ELSE BufferBody(f, garbage, i, Buffers(f, garbage)[i - 1])]
  BY <1>8, Zenon DEF Buffers, BufferBody
<1> DEFINE B == Buffers(f, garbage)
<1>10. B = [i \in S |-> Body(i, B)]
  BY <1>9, Zenon
<1> HIDE DEF B
<1>11. \A i \in S : B[i] = Body(i, B)
  BY <1>10
<1>12. 0 \in S /\ \A i \in 1 .. Len(f) : i \in S /\ i # 0
  BY <1>0
<1> HIDE DEF S
<1> QED  BY <1>11, <1>12 DEF B

\* What is read is the file and one number that was in the buffer, which was
\* allocated again whenever it was full (156-179).
THEOREM ReadNumbersIs ==
    ASSUME NEW X, NEW f \in Seq(X), NEW garbage \in X
    PROVE  \E x \in X : ReadNumbers(f, garbage) = f \o << x >>
<1> DEFINE B == Buffers(f, garbage)
           n == Len(f)
           T == {i \in Nat : i <= n => /\ B[i] \in Seq(X) /\ Len(B[i]) > i
                                       /\ \A j \in 1 .. i : B[i][j] = f[j]}
<1>0. n \in Nat /\ MAX_LENGTH \in Nat \ {0}
  BY LenProperties, MergeSortAssumption
<1>1. /\ B[0] = Fresh(MAX_LENGTH, garbage)
      /\ \A i \in 1 .. n : B[i] = BufferBody(f, garbage, i, B[i - 1])
  BY BuffersUnfold
<1> HIDE DEF B
<1>2. 0 \in T
  <2>1. B[0] \in Seq(X) /\ Len(B[0]) = MAX_LENGTH
    BY <1>0, <1>1, FreshType
  <2>2. Len(B[0]) > 0 /\ \A j \in 1 .. 0 : B[0][j] = f[j]
    BY <1>0, <2>1
  <2> QED  BY <2>1, <2>2
<1>3. ASSUME NEW i \in Nat, i \in T PROVE i + 1 \in T
  <2> SUFFICES ASSUME i + 1 <= n
               PROVE  /\ B[i + 1] \in Seq(X) /\ Len(B[i + 1]) > i + 1
                      /\ \A j \in 1 .. i + 1 : B[i + 1][j] = f[j]
    OBVIOUS
  <2>1. i <= n /\ i + 1 \in 1 .. n /\ (i + 1) - 1 = i /\ i + 1 \in 1 .. Len(f)
    BY <1>0
  <2>2. B[i] \in Seq(X) /\ Len(B[i]) > i /\ \A j \in 1 .. i : B[i][j] = f[j]
    BY <1>3, <2>1
  <2>3. B[i + 1] = BufferBody(f, garbage, i + 1, B[i])
    BY <1>1, <2>1
  <2>4. Len(B[i]) >= i + 1
    <3>1. Len(B[i]) \in Nat
      BY <2>2, LenProperties
    <3> QED  BY <2>2, <3>1
  <2>5. /\ B[i + 1] \in Seq(X) /\ Len(B[i + 1]) > i + 1
        /\ \A j \in 1 .. (i + 1) - 1 : B[i + 1][j] = B[i][j]
        /\ B[i + 1][i + 1] = f[i + 1]
    BY <2>1, <2>2, <2>3, <2>4, BufferBodyIs
  <2>6. ASSUME NEW j \in 1 .. i + 1 PROVE B[i + 1][j] = f[j]
    <3>1. CASE j = i + 1
      BY <2>5, <3>1
    <3>2. CASE j # i + 1
      <4>1. j \in 1 .. i /\ j \in 1 .. (i + 1) - 1
        BY <3>2
      <4> QED  BY <2>2, <2>5, <4>1
    <3> QED  BY <3>1, <3>2
  <2> QED  BY <2>5, <2>6
<1>4. Nat \subseteq T
  <2> HIDE DEF T
  <2> QED  BY <1>2, <1>3, Induction
<1>5. B[n] \in Seq(X) /\ Len(B[n]) > n /\ \A j \in 1 .. n : B[n][j] = f[j]
  BY <1>0, <1>4
<1> DEFINE b == B[n]
<1>6. b \in Seq(X) /\ Len(b) \in Nat /\ Len(b) > n /\ \A j \in 1 .. n : b[j] = f[j]
  BY <1>5, LenProperties
<1>7. ReadNumbers(f, garbage) = SubSeq(b, 1, n + 1)
  BY DEF ReadNumbers, B
<1> HIDE DEF b, n
<1>8. b[n + 1] \in X /\ \A i \in 1 .. n + 1 : b[i] \in X
  <2>1. \A i \in 1 .. Len(b) : b[i] \in X
    BY <1>6, LenProperties
  <2> QED  BY <1>0, <1>6, <2>1
<1>9. /\ SubSeq(b, 1, n + 1) \in Seq(X) /\ Len(SubSeq(b, 1, n + 1)) = n + 1
      /\ \A i \in 1 .. n + 1 : SubSeq(b, 1, n + 1)[i] = b[i]
  <2>1. /\ SubSeq(b, 1, n + 1) \in Seq(X)
        /\ Len(SubSeq(b, 1, n + 1)) = IF 1 <= n + 1 THEN (n + 1) - 1 + 1 ELSE 0
        /\ \A i \in 1 .. (n + 1) - 1 + 1 : SubSeq(b, 1, n + 1)[i] = b[1 + i - 1]
    BY <1>0, <1>8, SubSeqProperties
  <2>2. \A i \in 1 .. n + 1 : i \in 1 .. (n + 1) - 1 + 1 /\ 1 + i - 1 = i
    BY <1>0
  <2> QED  BY <1>0, <2>1, <2>2
<1> DEFINE w == f \o << b[n + 1] >>
<1>10. w \in Seq(X) /\ Len(w) = n + 1 /\ w[n + 1] = b[n + 1] /\ \A i \in 1 .. n : w[i] = f[i]
  <2> DEFINE one == << b[n + 1] >>
  <2>1. one \in Seq(X) /\ Len(one) = 1 /\ one[1] = b[n + 1]
    BY <1>8
  <2> HIDE DEF one
  <2>2. /\ f \o one \in Seq(X) /\ Len(f \o one) = n + 1
        /\ \A i \in 1 .. n + 1 : (f \o one)[i] = IF i <= n THEN f[i] ELSE one[i - n]
    <3>1. /\ f \o one \in Seq(X) /\ Len(f \o one) = Len(f) + Len(one)
          /\ \A i \in 1 .. Len(f) + Len(one) :
                (f \o one)[i] = IF i <= Len(f) THEN f[i] ELSE one[i - Len(f)]
      BY <2>1, ConcatProperties
    <3> QED  BY <2>1, <3>1 DEF n
  <2>3. (f \o one)[n + 1] = b[n + 1] /\ \A i \in 1 .. n : (f \o one)[i] = f[i]
    <3>1. n + 1 \in 1 .. n + 1 /\ ~ (n + 1 <= n) /\ (n + 1) - n = 1 /\ \A i \in 1 .. n : i \in 1 .. n + 1 /\ i <= n
      BY <1>0
    <3> QED  BY <2>1, <2>2, <3>1
  <2> QED  BY <2>2, <2>3 DEF one
<1> HIDE DEF w
<1>11. ASSUME NEW i \in 1 .. n + 1 PROVE SubSeq(b, 1, n + 1)[i] = w[i]
  <2>1. CASE i = n + 1
    BY <1>0, <1>9, <1>10, <2>1
  <2>2. CASE i # n + 1
    <3>1. i \in 1 .. n
      BY <1>0, <2>2
    <3> QED  BY <1>6, <1>9, <1>10, <3>1
  <2> QED  BY <2>1, <2>2
<1>12. SubSeq(b, 1, n + 1) = w
  <2> DEFINE u == SubSeq(b, 1, n + 1)
  <2>1. u \in Seq(X) /\ Len(u) = Len(w) /\ \A i \in 1 .. Len(u) : u[i] = w[i]
    BY <1>9, <1>10, <1>11
  <2> HIDE DEF u
  <2>2. u = w
    BY <1>10, <2>1, SeqEqual
  <2> QED  BY <2>2 DEF u
<1> QED  BY <1>7, <1>8, <1>12 DEF w

-----------------------------------------------------------------------------
(* Many arrays, one after the other                                        *)

\* Each of the arrays has all numbers of its file, and one more.
Exceeds(arrays, files) ==
    /\ Len(arrays) = Len(files)
    /\ \A f \in 1 .. Len(files) :
          /\ Len(arrays[f]) = Len(files[f]) + 1
          /\ \A v \in Int : Count(arrays[f], v) >= Count(files[f], v)

LEMMA FlattenExceeds ==
    ASSUME NEW arrays \in Seq(Arrays), NEW files \in Seq(Arrays), Exceeds(arrays, files)
    PROVE  /\ FlattenSeq(arrays) \in Arrays
           /\ Len(FlattenSeq(arrays)) = Len(FlattenSeq(files)) + Len(files)
           /\ \A v \in Int : Count(FlattenSeq(arrays), v) >= Count(FlattenSeq(files), v)
<1> DEFINE Right(a, s) ==
               /\ Len(FlattenSeq(a)) = Len(FlattenSeq(s)) + Len(s)
               /\ \A v \in Int : Count(FlattenSeq(a), v) >= Count(FlattenSeq(s), v)
           T == {n \in Nat : \A a, s \in Seq(Arrays) : Exceeds(a, s) /\ Len(s) = n => Right(a, s)}
<1>1. 0 \in T
  <2> SUFFICES ASSUME NEW a \in Seq(Arrays), NEW s \in Seq(Arrays), Exceeds(a, s), Len(s) = 0
               PROVE  Right(a, s)
    OBVIOUS
  <2>1. a = << >> /\ s = << >>
    BY EmptySeq DEF Exceeds
  <2>2. FlattenSeq(a) = << >> /\ FlattenSeq(s) = << >>
    BY <2>1, FlattenEmpty
  <2>3. \A v \in Int : Count(<< >>, v) = 0
    BY CountNone
  <2> QED  BY <2>2, <2>3
<1>2. ASSUME NEW n \in Nat, n \in T PROVE n + 1 \in T
  <2> SUFFICES ASSUME NEW a \in Seq(Arrays), NEW s \in Seq(Arrays), Exceeds(a, s), Len(s) = n + 1
               PROVE  Right(a, s)
    OBVIOUS
  <2> DEFINE p == Tail(a)  q == Tail(s)
  <2>1. a # << >> /\ s # << >> /\ Len(a) = n + 1
    <3>1. Len(a) = n + 1 /\ n + 1 # 0
      BY DEF Exceeds
    <3> QED  BY <3>1, EmptySeq
  <2>2. /\ p \in Seq(Arrays) /\ Len(p) = n /\ \A i \in 1 .. n : p[i] = a[i + 1]
        /\ q \in Seq(Arrays) /\ Len(q) = n /\ \A i \in 1 .. n : q[i] = s[i + 1]
    BY <2>1, HeadTailProperties
  <2>3. /\ FlattenSeq(a) = a[1] \o FlattenSeq(p) /\ FlattenSeq(s) = s[1] \o FlattenSeq(q)
        /\ FlattenSeq(p) \in Arrays /\ FlattenSeq(q) \in Arrays
    BY <2>1, <2>2, FlattenCons, FlattenType DEF Arrays
  <2> HIDE DEF p, q
  <2>4. Exceeds(p, q)
    <3>1. \A i \in 1 .. n : i + 1 \in 1 .. Len(s)
      OBVIOUS
    <3>2. \A f \in 1 .. n : /\ Len(p[f]) = Len(q[f]) + 1
                            /\ \A v \in Int : Count(p[f], v) >= Count(q[f], v)
      BY <2>2, <3>1 DEF Exceeds
    <3> QED  BY <2>2, <3>2 DEF Exceeds
  <2>5. Right(p, q)
    BY <1>2, <2>2, <2>4
  <2>6. /\ a[1] \in Arrays /\ s[1] \in Arrays /\ Len(a[1]) = Len(s[1]) + 1
        /\ \A v \in Int : Count(a[1], v) >= Count(s[1], v)
    <3>1. 1 \in 1 .. Len(a) /\ 1 \in 1 .. Len(s)
      BY <2>1
    <3> QED  BY <3>1, ElementOfSeq DEF Exceeds
  <2> DEFINE x == a[1]  y == s[1]  z == FlattenSeq(p)  w == FlattenSeq(q)
  <2>7. /\ x \in Seq(Int) /\ y \in Seq(Int) /\ z \in Seq(Int) /\ w \in Seq(Int)
        /\ Len(x) = Len(y) + 1 /\ Len(z) = Len(w) + n
        /\ FlattenSeq(a) = x \o z /\ FlattenSeq(s) = y \o w
        /\ \A v \in Int : Count(x, v) >= Count(y, v) /\ Count(z, v) >= Count(w, v)
    BY <2>2, <2>3, <2>5, <2>6 DEF Arrays
  <2> HIDE DEF x, y, z, w
  <2>8. Len(x \o z) = Len(y \o w) + (n + 1)
    <3>1. Len(x \o z) = Len(x) + Len(z) /\ Len(y \o w) = Len(y) + Len(w)
      BY <2>7, ConcatProperties
    <3>2. Len(y) \in Nat /\ Len(w) \in Nat
      BY <2>7, LenProperties
    <3> QED  BY <2>7, <3>1, <3>2
  <2>9. ASSUME NEW v \in Int PROVE Count(x \o z, v) >= Count(y \o w, v)
    <3>1. Count(x \o z, v) = Count(x, v) + Count(z, v) /\ Count(y \o w, v) = Count(y, v) + Count(w, v)
      BY <2>7, CountConcat
    <3>2. /\ Count(x, v) \in Nat /\ Count(y, v) \in Nat /\ Count(z, v) \in Nat /\ Count(w, v) \in Nat
          /\ Count(x, v) >= Count(y, v) /\ Count(z, v) >= Count(w, v)
      BY <2>7, CountType
    <3> QED  BY <3>1, <3>2
  <2> QED  BY <2>7, <2>8, <2>9
<1>3. Nat \subseteq T
  <2> HIDE DEF T
  <2> QED  BY <1>1, <1>2, Induction
<1>4. Len(files) \in T
  <2>1. Len(files) \in Nat
    BY LenProperties
  <2> QED  BY <1>3, <2>1
<1>5. Right(arrays, files)
  BY <1>4
<1>6. FlattenSeq(arrays) \in Arrays
  BY FlattenType DEF Arrays
<1> QED  BY <1>5, <1>6
=============================================================================
