----------------------------- MODULE BlocksProofs -----------------------------
(***************************************************************************)
(* What the loops of ufs_write, ufs_read and ufs_resize compute, for every *)
(* list of blocks and every BLOCK_SIZE: each is a recursion that comes to  *)
(* an end, and does to the blocks what the call does to the bytes of the   *)
(* file.                                                                   *)
(***************************************************************************)
EXTENDS Blocks, RecursionProofs

USE BlocksAssumption

-----------------------------------------------------------------------------
(* Strings of bytes, given by their length and their bytes                 *)

Str == Seq(Bytes)

LEMMA StrType == /\ \A u \in Str : Len(u) \in Nat
                 /\ << >> \in Str /\ Len(<< >>) = 0
                 /\ \A u \in Str : Len(u) = 0 => u = << >>
BY EmptySeq, LenProperties DEF Str

LEMMA StrEqual ==
    \A u, v \in Str : Len(u) = Len(v) /\ (\A i \in 1 .. Len(u) : u[i] = v[i]) => u = v
BY SeqEqual DEF Str

LEMMA StrConcat ==
    \A u, v \in Str :
        /\ u \o v \in Str
        /\ Len(u \o v) = Len(u) + Len(v)
        /\ \A i \in 1 .. Len(u) + Len(v) :
              (u \o v)[i] = IF i <= Len(u) THEN u[i] ELSE v[i - Len(u)]
BY ConcatProperties DEF Str

LEMMA StrConcatEmpty == \A u \in Str : u \o << >> = u /\ << >> \o u = u
BY ConcatEmptySeq DEF Str

LEMMA StrConcatAssoc == \A u, v, w \in Str : (u \o v) \o w = u \o (v \o w)
BY ConcatAssociative DEF Str

LEMMA StrSub ==
    ASSUME NEW u \in Str, NEW m \in Nat \ {0}, NEW n \in 0 .. Len(u)
    PROVE  /\ SubSeq(u, m, n) \in Str
           /\ m <= n => Len(SubSeq(u, m, n)) = n - m + 1
           /\ m > n => Len(SubSeq(u, m, n)) = 0
           /\ \A i \in 1 .. n - m + 1 : SubSeq(u, m, n)[i] = u[m + i - 1]
<1>1. \A i \in m .. n : u[i] \in Bytes
  BY StrType, ElementOfSeq DEF Str
<1>2. n \in Int /\ m \in Int
  BY StrType
<1> QED  BY <1>1, <1>2, SubSeqProperties DEF Str

\* Overwrite puts new over what there is from a place on, and behind it.
LEMMA OverwriteIs ==
    ASSUME NEW a \in Str, NEW from \in 0 .. Len(a), NEW new \in Str
    PROVE  /\ Overwrite(a, from, new) \in Str
           /\ from + Len(new) >= Len(a) => Len(Overwrite(a, from, new)) = from + Len(new)
           /\ from + Len(new) < Len(a) => Len(Overwrite(a, from, new)) = Len(a)
           /\ \A i \in 1 .. Len(Overwrite(a, from, new)) :
                 Overwrite(a, from, new)[i] =
                     IF i <= from THEN a[i] ELSE IF i <= from + Len(new) THEN new[i - from] ELSE a[i]
<1> DEFINE u == SubSeq(a, 1, from)
           w == SubSeq(a, from + Len(new) + 1, Len(a))
<1>1. Len(a) \in Nat /\ Len(new) \in Nat /\ from \in Nat /\ from <= Len(a)
  BY StrType
<1>2. u \in Str /\ Len(u) = from /\ \A i \in 1 .. from : u[i] = a[i]
  BY <1>1, StrSub
<1>3. /\ w \in Str
      /\ from + Len(new) >= Len(a) => Len(w) = 0
      /\ from + Len(new) < Len(a) => Len(w) = Len(a) - (from + Len(new))
      /\ \A i \in 1 .. Len(a) - (from + Len(new)) : w[i] = a[from + Len(new) + i]
  BY <1>1, StrSub
<1>4. Overwrite(a, from, new) = (u \o new) \o w
  BY DEF Overwrite
<1> HIDE DEF u, w
<1>5. /\ u \o new \in Str /\ Len(u \o new) = from + Len(new)
      /\ \A i \in 1 .. from + Len(new) : (u \o new)[i] = IF i <= from THEN a[i] ELSE new[i - from]
  <2>1. /\ u \o new \in Str /\ Len(u \o new) = Len(u) + Len(new)
        /\ \A i \in 1 .. Len(u) + Len(new) :
              (u \o new)[i] = IF i <= Len(u) THEN u[i] ELSE new[i - Len(u)]
    BY <1>2, StrConcat, Zenon
  <2> QED  BY <1>1, <1>2, <2>1
<1> DEFINE x == u \o new
<1> HIDE DEF x
<1>6. /\ x \o w \in Str /\ Len(x \o w) = Len(x) + Len(w)
      /\ \A i \in 1 .. Len(x) + Len(w) : (x \o w)[i] = IF i <= Len(x) THEN x[i] ELSE w[i - Len(x)]
  BY <1>3, <1>5, StrConcat DEF x
<1>7. ASSUME NEW i \in 1 .. Len(x) + Len(w)
      PROVE  (x \o w)[i] = IF i <= from THEN a[i] ELSE IF i <= from + Len(new) THEN new[i - from] ELSE a[i]
  <2>1. CASE i <= from + Len(new)
    BY <1>1, <1>5, <1>6, <2>1 DEF x
  <2>2. CASE i > from + Len(new)
    <3>1. Len(x) = from + Len(new)
      BY <1>5 DEF x
    <3>2. Len(w) = Len(a) - (from + Len(new))
      BY <1>1, <1>3, <2>2, <3>1
    <3>3. i - Len(x) \in 1 .. Len(a) - (from + Len(new)) /\ from + Len(new) + (i - Len(x)) = i
      BY <1>1, <2>2, <3>1, <3>2
    <3> QED  BY <1>1, <1>3, <1>6, <2>2, <3>1, <3>3
  <2> QED  BY <1>1, <2>1, <2>2
<1>8. /\ from + Len(new) >= Len(a) => Len(x) + Len(w) = from + Len(new)
      /\ from + Len(new) < Len(a) => Len(x) + Len(w) = Len(a)
  <2>1. Len(x) = from + Len(new)
    BY <1>5 DEF x
  <2>2. CASE from + Len(new) >= Len(a)
    <3>1. Len(w) = 0
      BY <1>3, <2>2
    <3> QED  BY <1>1, <2>1, <2>2, <3>1
  <2>3. CASE from + Len(new) < Len(a)
    <3>1. Len(w) = Len(a) - (from + Len(new))
      BY <1>3, <2>3
    <3> QED  BY <1>1, <2>1, <2>3, <3>1
  <2> QED  BY <1>1, <2>2, <2>3
<1> QED  BY <1>4, <1>6, <1>7, <1>8 DEF x

\* Data in two parts over a block, as far as it goes, and over what follows.
Splits(a, c, from, d, e) ==
    \/ from + Len(d) <= Len(a) /\ Len(e) = 0
    \/ from + Len(d) = Len(a)
    \/ from + Len(d) >= Len(a) /\ Len(c) = 0

LEMMA OverwriteSplit ==
    ASSUME NEW a \in Str, NEW c \in Str, NEW from \in 0 .. Len(a), NEW d \in Str, NEW e \in Str,
           Splits(a, c, from, d, e)
    PROVE  Overwrite(a, from, d) \o Overwrite(c, 0, e) = Overwrite(a \o c, from, d \o e)
<1> DEFINE x == Overwrite(a, from, d)
           y == Overwrite(c, 0, e)
           ac == a \o c
           de == d \o e
           z == Overwrite(ac, from, de)
<1> USE DEF Splits
<1>1. Len(a) \in Nat /\ Len(c) \in Nat /\ Len(d) \in Nat /\ Len(e) \in Nat
      /\ from \in Nat /\ from <= Len(a) /\ 0 \in 0 .. Len(c)
  BY StrType
<1>2. /\ x \in Str
      /\ from + Len(d) >= Len(a) => Len(x) = from + Len(d)
      /\ from + Len(d) < Len(a) => Len(x) = Len(a)
      /\ \A i \in 1 .. Len(x) :
            x[i] = IF i <= from THEN a[i] ELSE IF i <= from + Len(d) THEN d[i - from] ELSE a[i]
  BY OverwriteIs
<1>3. /\ y \in Str
      /\ 0 + Len(e) >= Len(c) => Len(y) = 0 + Len(e)
      /\ 0 + Len(e) < Len(c) => Len(y) = Len(c)
      /\ \A i \in 1 .. Len(y) :
            y[i] = IF i <= 0 THEN c[i] ELSE IF i <= 0 + Len(e) THEN e[i - 0] ELSE c[i]
  BY <1>1, OverwriteIs
<1>4. /\ ac \in Str /\ Len(ac) = Len(a) + Len(c)
      /\ \A i \in 1 .. Len(a) + Len(c) : ac[i] = IF i <= Len(a) THEN a[i] ELSE c[i - Len(a)]
  BY StrConcat
<1>5. /\ de \in Str /\ Len(de) = Len(d) + Len(e)
      /\ \A i \in 1 .. Len(d) + Len(e) : de[i] = IF i <= Len(d) THEN d[i] ELSE e[i - Len(d)]
  BY StrConcat
<1> HIDE DEF ac, de
<1>6. from \in 0 .. Len(ac)
  BY <1>1, <1>4
<1>7. /\ z \in Str
      /\ from + Len(de) >= Len(ac) => Len(z) = from + Len(de)
      /\ from + Len(de) < Len(ac) => Len(z) = Len(ac)
      /\ \A i \in 1 .. Len(z) :
            z[i] = IF i <= from THEN ac[i] ELSE IF i <= from + Len(de) THEN de[i - from] ELSE ac[i]
  <2>1. ac \in Str /\ de \in Str
    BY <1>4, <1>5
  <2> QED  BY <1>6, <2>1, OverwriteIs
<1> HIDE DEF x, y, z
<1>8. /\ x \o y \in Str /\ Len(x \o y) = Len(x) + Len(y)
      /\ \A i \in 1 .. Len(x) + Len(y) : (x \o y)[i] = IF i <= Len(x) THEN x[i] ELSE y[i - Len(x)]
  BY <1>2, <1>3, StrConcat
<1>9. Len(z) = Len(x) + Len(y)
  <2>1. CASE from + Len(d) <= Len(a) /\ Len(e) = 0
    BY <1>1, <1>2, <1>3, <1>4, <1>5, <1>7, <2>1
  <2>2. CASE from + Len(d) = Len(a)
    BY <1>1, <1>2, <1>3, <1>4, <1>5, <1>7, <2>2
  <2>3. CASE from + Len(d) >= Len(a) /\ Len(c) = 0
    BY <1>1, <1>2, <1>3, <1>4, <1>5, <1>7, <2>3
  <2> QED  BY <2>1, <2>2, <2>3
<1>10. ASSUME NEW i \in 1 .. Len(z) PROVE (x \o y)[i] = z[i]
  <2>1. i \in Nat \ {0} /\ i <= Len(z) /\ Len(x) \in Nat /\ Len(y) \in Nat
    BY <1>1, <1>2, <1>3, <1>9, StrType
  <2>2. CASE i <= Len(x)
    <3>1. i \in 1 .. Len(x) /\ i \in 1 .. Len(x) + Len(y) /\ (x \o y)[i] = x[i]
      BY <1>8, <2>1, <2>2
    <3>2. x[i] = IF i <= from THEN a[i] ELSE IF i <= from + Len(d) THEN d[i - from] ELSE a[i]
      BY <1>2, <3>1
    <3>3. z[i] = IF i <= from THEN ac[i] ELSE IF i <= from + Len(de) THEN de[i - from] ELSE ac[i]
      BY <1>7
    <3>4. CASE i <= from
      <4>1. ac[i] = a[i]
        BY <1>1, <1>4, <2>1, <3>4
      <4> QED  BY <3>1, <3>2, <3>3, <3>4, <4>1
    <3>5. CASE i > from /\ i <= from + Len(d)
      <4>1. i <= from + Len(de) /\ ~ (i <= from) /\ de[i - from] = d[i - from]
        BY <1>1, <1>5, <2>1, <3>5
      <4> QED  BY <3>1, <3>2, <3>3, <3>5, <4>1
    <3>6. CASE i > from + Len(d)
      <4>1. from + Len(d) < Len(a) /\ i <= Len(a) /\ Len(e) = 0
        BY <1>1, <1>2, <2>1, <2>2, <3>6
      <4>2. ac[i] = a[i]
        BY <1>1, <1>4, <2>1, <4>1
      <4>3. ~ (i <= from) /\ ~ (i <= from + Len(d)) /\ ~ (i <= from + Len(de))
        BY <1>1, <1>5, <2>1, <3>6, <4>1
      <4> QED  BY <3>1, <3>2, <3>3, <4>2, <4>3
    <3>7. i <= from \/ (i > from /\ i <= from + Len(d)) \/ i > from + Len(d)
      BY <1>1, <2>1
    <3> QED  BY <3>4, <3>5, <3>6, <3>7
  <2>3. CASE i > Len(x)
    <3> DEFINE j == i - Len(x)
    <3>1. j \in 1 .. Len(y) /\ i \in 1 .. Len(x) + Len(y) /\ (x \o y)[i] = y[j] /\ j \in Nat \ {0}
      BY <1>8, <1>9, <2>1, <2>3
    <3>2. Len(x) >= from + Len(d) /\ Len(x) >= Len(a)
      BY <1>1, <1>2
    <3>3. y[j] = IF j <= Len(e) THEN e[j] ELSE c[j]
      <4>1. j - 0 = j /\ 0 + Len(e) = Len(e) /\ ~ (j <= 0)
        BY <1>1, <3>1
      <4> HIDE DEF j
      <4> QED  BY <1>3, <3>1, <4>1
    <3>4. z[i] = IF i <= from + Len(de) THEN de[i - from] ELSE ac[i]
      <4>1. ~ (i <= from)
        BY <1>1, <2>1, <2>3, <3>2
      <4> QED  BY <1>7, <4>1
    <3>5. CASE j <= Len(e)
      <4>1. Len(x) = from + Len(d)
        BY <1>1, <1>2, <3>1, <3>5
      <4>2. i - from = Len(d) + j
        BY <1>1, <2>1, <4>1
      <4>3. Len(d) + j \in 1 .. Len(d) + Len(e) /\ ~ (Len(d) + j <= Len(d)) /\ (Len(d) + j) - Len(d) = j
        <5>1. j \in Nat \ {0}
          BY <3>1
        <5> HIDE DEF j
        <5> QED  BY <1>1, <3>5, <5>1
      <4>4. de[Len(d) + j] = e[j]
        <5> HIDE DEF j
        <5> QED  BY <1>5, <4>3
      <4>5. i <= from + Len(de)
        <5>1. Len(de) = Len(d) + Len(e)
          BY <1>5
        <5>2. j \in Nat
          BY <3>1
        <5> HIDE DEF j
        <5> QED  BY <1>1, <2>1, <3>5, <4>2, <5>1, <5>2
      <4>6. de[i - from] = e[j]
        BY <4>2, <4>4
      <4> QED  BY <3>1, <3>3, <3>4, <3>5, <4>5, <4>6
    <3>6. CASE j > Len(e)
      <4>1. Len(y) = Len(c) /\ Len(c) > 0
        BY <1>1, <1>3, <3>1, <3>6
      <4>2. Len(x) = Len(a)
        BY <1>1, <1>2, <4>1
      <4>3. ~ (i <= from + Len(de)) /\ i \in 1 .. Len(a) + Len(c) /\ ~ (i <= Len(a)) /\ i - Len(a) = j
        BY <1>1, <1>5, <2>1, <2>3, <3>1, <3>6, <4>1, <4>2
      <4>4. ac[i] = c[j]
        BY <1>4, <4>3
      <4>5. ~ (j <= Len(e))
        BY <1>1, <3>1, <3>6
      <4> QED  BY <3>1, <3>3, <3>4, <4>3, <4>4, <4>5
    <3> QED  BY <1>1, <3>1, <3>5, <3>6
  <2>4. i <= Len(x) \/ i > Len(x)
    BY <2>1
  <2> QED  BY <2>2, <2>3, <2>4
<1>11. x \o y = z
  BY <1>7, <1>8, <1>9, <1>10, StrEqual
<1> QED  BY <1>11 DEF x, y, z, ac, de

\* What a part of a string in two pieces is: of the first, of the second, or of both.
LEMMA SubHere ==
    ASSUME NEW a \in Str, NEW c \in Str, NEW m \in Nat \ {0}, NEW k \in 0 .. Len(a)
    PROVE  SubSeq(a \o c, m, k) = SubSeq(a, m, k)
<1> DEFINE ac == a \o c
           x == SubSeq(ac, m, k)
           y == SubSeq(a, m, k)
<1>1. Len(a) \in Nat /\ Len(c) \in Nat /\ k \in Nat /\ k <= Len(a) /\ m \in Nat /\ m >= 1
  BY StrType
<1>2. /\ ac \in Str /\ Len(ac) = Len(a) + Len(c)
      /\ \A i \in 1 .. Len(a) + Len(c) : ac[i] = IF i <= Len(a) THEN a[i] ELSE c[i - Len(a)]
  BY StrConcat
<1> HIDE DEF ac
<1>3. k \in 0 .. Len(ac)
  BY <1>1, <1>2
<1>4. /\ x \in Str /\ (m <= k => Len(x) = k - m + 1) /\ (m > k => Len(x) = 0)
      /\ \A i \in 1 .. k - m + 1 : x[i] = ac[m + i - 1]
  BY <1>2, <1>3, StrSub
<1>5. /\ y \in Str /\ (m <= k => Len(y) = k - m + 1) /\ (m > k => Len(y) = 0)
      /\ \A i \in 1 .. k - m + 1 : y[i] = a[m + i - 1]
  BY StrSub
<1> HIDE DEF x, y
<1>6. Len(x) = Len(y)
  BY <1>1, <1>4, <1>5
<1>7. ASSUME NEW i \in 1 .. Len(x) PROVE x[i] = y[i]
  <2>1. m <= k /\ i \in 1 .. k - m + 1 /\ m + i - 1 \in 1 .. Len(a) + Len(c) /\ m + i - 1 <= Len(a)
    BY <1>1, <1>4
  <2> QED  BY <1>2, <1>4, <1>5, <2>1
<1>8. x = y
  BY <1>4, <1>5, <1>6, <1>7, StrEqual
<1> QED  BY <1>8 DEF x, y, ac

LEMMA SubInto ==
    ASSUME NEW a \in Str, NEW c \in Str, NEW m \in Nat \ {0}, NEW k \in 0 .. Len(c)
    PROVE  SubSeq(a \o c, Len(a) + m, Len(a) + k) = SubSeq(c, m, k)
<1> DEFINE ac == a \o c
           p == Len(a) + m
           q == Len(a) + k
           x == SubSeq(ac, p, q)
           y == SubSeq(c, m, k)
<1>1. Len(a) \in Nat /\ Len(c) \in Nat /\ k \in Nat /\ k <= Len(c) /\ m \in Nat /\ m >= 1
      /\ p \in Nat \ {0} /\ q - p + 1 = k - m + 1 /\ (p <= q <=> m <= k) /\ (p > q <=> m > k)
  BY StrType
<1>2. /\ ac \in Str /\ Len(ac) = Len(a) + Len(c)
      /\ \A i \in 1 .. Len(a) + Len(c) : ac[i] = IF i <= Len(a) THEN a[i] ELSE c[i - Len(a)]
  BY StrConcat
<1> HIDE DEF ac
<1>3. q \in 0 .. Len(ac)
  BY <1>1, <1>2
<1> HIDE DEF p, q
<1>4. /\ x \in Str /\ (p <= q => Len(x) = q - p + 1) /\ (p > q => Len(x) = 0)
      /\ \A i \in 1 .. q - p + 1 : x[i] = ac[p + i - 1]
  BY <1>1, <1>2, <1>3, StrSub
<1>5. /\ y \in Str /\ (m <= k => Len(y) = k - m + 1) /\ (m > k => Len(y) = 0)
      /\ \A i \in 1 .. k - m + 1 : y[i] = c[m + i - 1]
  BY StrSub
<1> HIDE DEF x, y
<1>6. Len(x) = Len(y)
  BY <1>1, <1>4, <1>5
<1>7. ASSUME NEW i \in 1 .. Len(x) PROVE x[i] = y[i]
  <2>1. m <= k /\ i \in 1 .. k - m + 1 /\ i \in 1 .. q - p + 1
    BY <1>1, <1>4
  <2>2. /\ p + i - 1 \in 1 .. Len(a) + Len(c) /\ ~ (p + i - 1 <= Len(a))
        /\ (p + i - 1) - Len(a) = m + i - 1
    BY <1>1, <2>1 DEF p
  <2>3. ac[p + i - 1] = c[m + i - 1]
    BY <1>2, <2>2
  <2> QED  BY <1>4, <1>5, <2>1, <2>3
<1>8. x = y
  BY <1>4, <1>5, <1>6, <1>7, StrEqual
<1> QED  BY <1>8 DEF x, y, ac, p, q

LEMMA SubAcross ==
    ASSUME NEW a \in Str, NEW c \in Str, NEW m \in 1 .. Len(a) + 1, NEW k \in 0 .. Len(c)
    PROVE  SubSeq(a \o c, m, Len(a) + k) = SubSeq(a, m, Len(a)) \o SubSeq(c, 1, k)
<1> DEFINE ac == a \o c
           q == Len(a) + k
           l == Len(a)
           x == SubSeq(ac, m, q)
           u == SubSeq(a, m, l)
           w == SubSeq(c, 1, k)
<1>1. Len(a) \in Nat /\ l \in Nat /\ Len(c) \in Nat /\ k \in Nat /\ k <= Len(c) /\ m \in Nat /\ m >= 1
      /\ m <= l + 1 /\ m \in Nat \ {0} /\ 1 \in Nat \ {0} /\ l = Len(a) /\ l \in 0 .. Len(a)
  BY StrType
<1>2. /\ ac \in Str /\ Len(ac) = l + Len(c)
      /\ \A i \in 1 .. l + Len(c) : ac[i] = IF i <= l THEN a[i] ELSE c[i - l]
  BY StrConcat
<1> HIDE DEF ac
<1>3. q \in 0 .. Len(ac) /\ q = l + k
  BY <1>1, <1>2
<1> HIDE DEF q, l
<1>4. /\ x \in Str /\ (m <= q => Len(x) = q - m + 1) /\ (m > q => Len(x) = 0)
      /\ \A i \in 1 .. q - m + 1 : x[i] = ac[m + i - 1]
  BY <1>1, <1>2, <1>3, StrSub
<1>5. /\ u \in Str /\ (m <= l => Len(u) = l - m + 1) /\ (m > l => Len(u) = 0)
      /\ \A i \in 1 .. l - m + 1 : u[i] = a[m + i - 1]
  BY <1>1, StrSub
<1>6. /\ w \in Str /\ (1 <= k => Len(w) = k - 1 + 1) /\ (1 > k => Len(w) = 0)
      /\ \A i \in 1 .. k - 1 + 1 : w[i] = c[1 + i - 1]
  BY <1>1, StrSub
<1> HIDE DEF x, u, w
<1>7. /\ u \o w \in Str /\ Len(u \o w) = Len(u) + Len(w)
      /\ \A i \in 1 .. Len(u) + Len(w) : (u \o w)[i] = IF i <= Len(u) THEN u[i] ELSE w[i - Len(u)]
  BY <1>5, <1>6, StrConcat
<1>8. Len(x) = q - m + 1 /\ Len(u) = l - m + 1 /\ Len(w) = k /\ Len(x) = Len(u) + Len(w)
  BY <1>1, <1>3, <1>4, <1>5, <1>6
<1>9. ASSUME NEW i \in 1 .. Len(x) PROVE x[i] = (u \o w)[i]
  <2>1. i \in Nat /\ i >= 1 /\ i <= q - m + 1 /\ i \in 1 .. q - m + 1 /\ i \in 1 .. Len(u) + Len(w)
    BY <1>1, <1>3, <1>8
  <2>2. x[i] = ac[m + i - 1] /\ (u \o w)[i] = IF i <= Len(u) THEN u[i] ELSE w[i - Len(u)]
    BY <1>4, <1>7, <2>1
  <2>3. m + i - 1 \in 1 .. l + Len(c)
    BY <1>1, <1>3, <2>1
  <2>4. CASE i <= Len(u)
    <3>1. i \in 1 .. l - m + 1 /\ m + i - 1 <= l
      BY <1>1, <1>8, <2>1, <2>4
    <3> QED  BY <1>2, <1>5, <2>2, <2>3, <2>4, <3>1
  <2>5. CASE ~ (i <= Len(u))
    <3>1. /\ i - Len(u) \in 1 .. k - 1 + 1 /\ ~ (m + i - 1 <= l)
          /\ 1 + (i - Len(u)) - 1 = (m + i - 1) - l
      BY <1>1, <1>3, <1>8, <2>1, <2>5
    <3> QED  BY <1>2, <1>6, <2>2, <2>3, <2>5, <3>1
  <2> QED  BY <2>4, <2>5
<1>10. x = u \o w
  BY <1>4, <1>7, <1>8, <1>9, StrEqual
<1> QED  BY <1>10 DEF x, u, w, ac, q, l

LEMMA SubFull == \A u \in Str : SubSeq(u, 1, Len(u)) = u
BY SubSeqFull DEF Str

LEMMA SubEmpty == \A u \in Str : \A m, n \in Nat : n < m => SubSeq(u, m, n) = << >>
BY SubSeqEmpty

LEMMA OverwriteBehind ==
    ASSUME NEW a \in Str, NEW c \in Str, NEW d \in Str, NEW off \in Nat, off >= Len(a)
    PROVE  Overwrite(a \o c, StartIn(off, a \o c), d) = a \o Overwrite(c, StartIn(off - Len(a), c), d)
<1> DEFINE k == StartIn(off - Len(a), c)
           u == SubSeq(c, 1, k)
           w == SubSeq(c, k + Len(d) + 1, Len(c))
<1>1. Len(a) \in Nat /\ Len(c) \in Nat /\ Len(d) \in Nat /\ Len(a \o c) = Len(a) + Len(c)
  BY StrType, StrConcat
<1>2. k \in 0 .. Len(c) /\ StartIn(off, a \o c) = Len(a) + k
  BY <1>1 DEF StartIn, Least
<1> HIDE DEF k
<1>3. k + Len(d) + 1 \in Nat \ {0} /\ 1 \in Nat \ {0} /\ 1 \in 1 .. Len(a) + 1 /\ Len(c) \in 0 .. Len(c)
  BY <1>1, <1>2
<1>4. u \in Str /\ w \in Str
  BY <1>2, <1>3, StrSub
<1>5. SubSeq(a \o c, 1, Len(a) + k) = a \o u
  <2>1. SubSeq(a \o c, 1, Len(a) + k) = SubSeq(a, 1, Len(a)) \o SubSeq(c, 1, k)
    BY <1>2, <1>3, SubAcross
  <2>2. SubSeq(a, 1, Len(a)) = a
    BY SubFull
  <2> QED  BY <2>1, <2>2
<1>6. SubSeq(a \o c, Len(a) + (k + Len(d) + 1), Len(a) + Len(c)) = w
  BY <1>3, SubInto
<1>7. Len(a) + (k + Len(d) + 1) = (Len(a) + k) + Len(d) + 1
  BY <1>1, <1>2
<1> HIDE DEF u, w
<1>8. Overwrite(a \o c, Len(a) + k, d) = ((a \o u) \o d) \o w
  BY <1>1, <1>5, <1>6, <1>7 DEF Overwrite
<1>9. ((a \o u) \o d) \o w = a \o ((u \o d) \o w)
  <2>1. u \o d \in Str
    BY <1>4, StrConcat, Zenon
  <2>2. (a \o u) \o d = a \o (u \o d)
    BY <1>4, StrConcatAssoc, ZenonT(40)
  <2>3. ASSUME NEW v \in Str PROVE (a \o v) \o w = a \o (v \o w)
    BY <1>4, StrConcatAssoc, ZenonT(60)
  <2>4. (a \o (u \o d)) \o w = a \o ((u \o d) \o w)
    BY <2>1, <2>3, Zenon
  <2> QED  BY <2>2, <2>4, Zenon
<1>10. Overwrite(c, k, d) = (u \o d) \o w
  BY DEF Overwrite, u, w
<1> QED  BY <1>2, <1>8, <1>9, <1>10 DEF k

-----------------------------------------------------------------------------
(* Lists of blocks                                                         *)

LEMMA BlocksType ==
    \A blocks \in BlockList :
        /\ Len(blocks) \in Nat /\ DOMAIN blocks = 1 .. Len(blocks)
        /\ \A i \in 1 .. Len(blocks) :
              blocks[i] \in Block /\ blocks[i] \in Str /\ Len(blocks[i]) \in 0 .. BLOCK_SIZE
<1>1. \A b \in Block : b \in Str /\ Len(b) \in 0 .. BLOCK_SIZE
  BY StrType DEF Block, Str
<1> SUFFICES ASSUME NEW blocks \in BlockList
             PROVE  /\ Len(blocks) \in Nat /\ DOMAIN blocks = 1 .. Len(blocks)
                    /\ \A i \in 1 .. Len(blocks) : blocks[i] \in Block
  BY <1>1
<1> QED  BY ElementOfSeq, LenProperties DEF BlockList

LEMMA BlockStr == Block \subseteq Str /\ << >> \in Block
BY StrType DEF Block, Str

LEMMA BlocksAppend ==
    ASSUME NEW blocks \in BlockList
    PROVE  /\ Append(blocks, << >>) \in BlockList
           /\ Len(Append(blocks, << >>)) = Len(blocks) + 1
           /\ \A i \in 1 .. Len(blocks) : Append(blocks, << >>)[i] = blocks[i]
           /\ Append(blocks, << >>)[Len(blocks) + 1] = << >>
BY BlockStr, AppendProperties DEF BlockList

LEMMA BlocksExcept ==
    ASSUME NEW blocks \in BlockList, NEW k \in 1 .. Len(blocks), NEW b \in Block
    PROVE  /\ [blocks EXCEPT ![k] = b] \in BlockList
           /\ Len([blocks EXCEPT ![k] = b]) = Len(blocks)
           /\ \A i \in 1 .. Len(blocks) : [blocks EXCEPT ![k] = b][i] = IF i = k THEN b ELSE blocks[i]
BY ExceptSeq DEF BlockList

LEMMA BlocksCut ==
    ASSUME NEW blocks \in BlockList, NEW k \in 0 .. Len(blocks)
    PROVE  /\ SubSeq(blocks, 1, k) \in BlockList
           /\ Len(SubSeq(blocks, 1, k)) = k
           /\ \A i \in 1 .. k : SubSeq(blocks, 1, k)[i] = blocks[i]
<1>1. Len(blocks) \in Nat /\ k \in Int /\ \A i \in 1 .. k : blocks[i] \in Block
  BY BlocksType
<1> QED  BY <1>1, SubSeqProperties DEF BlockList

\* The bytes from block i on.
Rest(blocks, i) == Flat(SubSeq(blocks, i, Len(blocks)))

\* The part of the list, as a list of strings.
LEMMA RestList ==
    ASSUME NEW blocks \in BlockList, NEW i \in Nat \ {0}
    PROVE  /\ SubSeq(blocks, i, Len(blocks)) \in Seq(Str)
           /\ i <= Len(blocks) => Len(SubSeq(blocks, i, Len(blocks))) = Len(blocks) - i + 1
           /\ i > Len(blocks) => SubSeq(blocks, i, Len(blocks)) = << >>
           /\ \A j \in 1 .. Len(blocks) - i + 1 : SubSeq(blocks, i, Len(blocks))[j] = blocks[i + j - 1]
<1>1. Len(blocks) \in Int /\ i \in Int /\ \A j \in i .. Len(blocks) : blocks[j] \in Str
  BY BlocksType
<1> QED  BY <1>1, SubSeqProperties, SubSeqEmpty

LEMMA RestType == \A blocks \in BlockList : \A i \in Nat \ {0} : Rest(blocks, i) \in Str
BY RestList, FlattenType DEF Rest, Flat, Str

LEMMA RestBehind == \A blocks \in BlockList : \A i \in Nat \ {0} : i > Len(blocks) => Rest(blocks, i) = << >>
BY RestList, FlattenEmpty DEF Rest, Flat

LEMMA RestWhole == \A blocks \in BlockList : Rest(blocks, 1) = Flat(blocks)
BY SubSeqFull DEF Rest, BlockList

LEMMA RestHere ==
    ASSUME NEW blocks \in BlockList, NEW i \in 1 .. Len(blocks)
    PROVE  Rest(blocks, i) = blocks[i] \o Rest(blocks, i + 1)
<1> DEFINE q == SubSeq(blocks, i, Len(blocks))
<1>1. Len(blocks) \in Nat /\ i \in Nat \ {0} /\ i <= Len(blocks) /\ Len(blocks) \in i .. Len(blocks)
  BY BlocksType
<1>2. Tail(q) = SubSeq(blocks, i + 1, Len(blocks)) /\ Head(q) = blocks[i]
  BY <1>1, HeadTailOfSubSeq DEF BlockList
<1>3. q \in Seq(Seq(Bytes)) /\ Len(q) = Len(blocks) - i + 1
  BY <1>1, RestList DEF Str
<1> HIDE DEF q
<1>4. q # << >> /\ q[1] = Head(q)
  <2>1. Len(q) # 0
    BY <1>1, <1>3
  <2>2. q # << >>
    BY <2>1, EmptySeq
  <2> QED  BY <1>3, <2>2, HeadTailProperties
<1> QED  BY <1>2, <1>3, <1>4, FlattenCons DEF Rest, Flat, q

LEMMA RestSame ==
    ASSUME NEW b \in BlockList, NEW c \in BlockList, Len(b) = Len(c), NEW i \in Nat \ {0},
           \A j \in i .. Len(b) : b[j] = c[j]
    PROVE  Rest(b, i) = Rest(c, i)
<1> DEFINE x == SubSeq(b, i, Len(b))
           y == SubSeq(c, i, Len(b))
<1>1. CASE i > Len(b)
  BY <1>1, RestBehind
<1>2. CASE i <= Len(b)
  <2>1. Len(b) \in Nat
    BY BlocksType
  <2>2. /\ x \in Seq(Str) /\ Len(x) = Len(b) - i + 1
        /\ \A j \in 1 .. Len(b) - i + 1 : x[j] = b[i + j - 1]
    BY <1>2, RestList
  <2>3. /\ y \in Seq(Str) /\ Len(y) = Len(b) - i + 1
        /\ \A j \in 1 .. Len(b) - i + 1 : y[j] = c[i + j - 1]
    BY <1>2, RestList
  <2> HIDE DEF x, y
  <2>4. \A j \in 1 .. Len(x) : x[j] = y[j]
    <3> SUFFICES ASSUME NEW j \in 1 .. Len(x) PROVE x[j] = y[j]
      OBVIOUS
    <3>1. j \in 1 .. Len(b) - i + 1 /\ i + j - 1 \in i .. Len(b)
      BY <1>2, <2>1, <2>2
    <3> QED  BY <2>2, <2>3, <3>1
  <2>5. x = y
    BY <2>2, <2>3, <2>4, SeqEqual
  <2> QED  BY <2>5 DEF Rest, x, y
<1>3. Len(b) \in Nat
  BY BlocksType
<1> QED  BY <1>1, <1>2, <1>3

\* Blocks are filled in order.
Packed(blocks) ==
    \A i, j \in DOMAIN blocks : i < j /\ blocks[j] # << >> => Len(blocks[i]) = BLOCK_SIZE

\* Empty blocks add no bytes, ...
LEMMA RestEmpty ==
    ASSUME NEW blocks \in BlockList, NEW k \in Nat \ {0}, \A j \in k .. Len(blocks) : blocks[j] = << >>
    PROVE  Rest(blocks, k) = << >>
<1> DEFINE n == Len(blocks)
           T == {i \in 1 .. n + 1 : i >= k => Rest(blocks, i) = << >>}
<1>1. n \in Nat /\ n + 1 > n /\ n + 1 \in Nat \ {0}
  BY BlocksType
<1>2. n + 1 \in T
  BY <1>1, RestBehind
<1>3. ASSUME NEW i \in 1 .. n, i + 1 \in T PROVE i \in T
  <2>1. CASE i >= k
    <3>1. Rest(blocks, i + 1) = << >>
      BY <1>1, <1>3, <2>1
    <3>2. blocks[i] = << >>
      BY <1>1, <2>1, BlocksType
    <3>3. << >> \o << >> = << >>
      BY StrType, StrConcatEmpty
    <3>4. Rest(blocks, i) = blocks[i] \o Rest(blocks, i + 1)
      BY RestHere
    <3>5. Rest(blocks, i) = << >>
      BY <3>1, <3>2, <3>3, <3>4, Zenon
    <3> QED  BY <1>1, <3>5
  <2>2. CASE ~ (i >= k)
    BY <1>1, <2>2
  <2> QED  BY <2>1, <2>2
<1>4. 1 .. n + 1 \subseteq T
  <2> HIDE DEF T, n
  <2> QED  BY <1>1, <1>2, <1>3, BackInduction
<1>5. CASE k <= n + 1
  BY <1>1, <1>4, <1>5
<1>6. CASE k > n + 1
  BY <1>1, <1>6, RestBehind
<1> QED  BY <1>1, <1>5, <1>6

\* ... so that nothing comes behind a block with room.
LEMMA RestOfRoom ==
    ASSUME NEW blocks \in BlockList, Packed(blocks), NEW i \in 1 .. Len(blocks),
           Len(blocks[i]) < BLOCK_SIZE
    PROVE  Rest(blocks, i + 1) = << >>
<1>1. Len(blocks) \in Nat /\ DOMAIN blocks = 1 .. Len(blocks) /\ i + 1 \in Nat \ {0} /\ Len(blocks[i]) \in Nat
  BY BlocksType
<1>2. \A j \in i + 1 .. Len(blocks) : blocks[j] = << >>
  BY <1>1 DEF Packed
<1> QED  BY <1>1, <1>2, RestEmpty

\* Full blocks before the last one make the size.
LEMMA RestFull ==
    ASSUME NEW blocks \in BlockList, blocks # << >>,
           \A j \in 1 .. Len(blocks) - 1 : Len(blocks[j]) = BLOCK_SIZE
    PROVE  Size(blocks) = (Len(blocks) - 1) * BLOCK_SIZE + Len(blocks[Len(blocks)])
<1> DEFINE n == Len(blocks)
           l == Len(blocks[n])
           T == {i \in 1 .. n : Len(Rest(blocks, i)) = (n - i) * BLOCK_SIZE + l}
<1>1. n \in Nat \ {0} /\ n \in 1 .. n /\ l \in Nat
  <2>1. n # 0
    BY EmptySeq DEF BlockList
  <2> QED  BY <2>1, BlocksType
<1>2. \A i \in 1 .. n : Len(Rest(blocks, i)) = Len(blocks[i]) + Len(Rest(blocks, i + 1))
  <2> SUFFICES ASSUME NEW i \in 1 .. n PROVE Len(Rest(blocks, i)) = Len(blocks[i]) + Len(Rest(blocks, i + 1))
    OBVIOUS
  <2>1. blocks[i] \in Str /\ Rest(blocks, i + 1) \in Str
    BY <1>1, BlocksType, RestType
  <2> QED  BY <2>1, RestHere, StrConcat
<1>3. n \in T
  <2>1. Rest(blocks, n + 1) = << >>
    BY <1>1, RestBehind
  <2>2. Len(Rest(blocks, n)) = l + 0
    BY <1>1, <1>2, <2>1, StrType
  <2> HIDE DEF l, n
  <2>3. n - n = 0 /\ 0 * BLOCK_SIZE = 0 /\ l + 0 = l /\ 0 + l = l
    BY <1>1
  <2>4. (n - n) * BLOCK_SIZE + l = l
    BY <2>3
  <2>5. Len(Rest(blocks, n)) = (n - n) * BLOCK_SIZE + l
    BY <2>2, <2>3, <2>4
  <2> QED  BY <1>1, <2>5
<1>4. ASSUME NEW i \in 1 .. n - 1, i + 1 \in T PROVE i \in T
  <2>1. i \in 1 .. n /\ Len(blocks[i]) = BLOCK_SIZE
    BY <1>1
  <2>2. Len(Rest(blocks, i + 1)) = (n - (i + 1)) * BLOCK_SIZE + l
    BY <1>4
  <2>3. n \in Nat /\ i \in Nat /\ l \in Nat
    BY <1>1
  <2>4. BLOCK_SIZE + ((n - (i + 1)) * BLOCK_SIZE + l) = (n - i) * BLOCK_SIZE + l
    <3> HIDE DEF n, l
    <3> QED  BY <2>3
  <2> QED  BY <1>2, <2>1, <2>2, <2>4
<1>5. 1 .. (n - 1) + 1 \subseteq T
  <2> DEFINE p == n - 1
  <2>1. p \in Nat /\ p + 1 = n
    BY <1>1
  <2>2. p + 1 \in T
    BY <1>3, <2>1
  <2>3. \A i \in 1 .. p : i + 1 \in T => i \in T
    BY <1>4
  <2> HIDE DEF T, n, p
  <2>4. 1 .. p + 1 \subseteq T
    BY <2>1, <2>2, <2>3, BackInduction
  <2> QED  BY <2>4 DEF p
<1>6. 1 \in T
  <2>1. 1 \in 1 .. (n - 1) + 1
    BY <1>1
  <2> QED  BY <1>5, <2>1
<1> QED  BY <1>6, RestWhole DEF Size

-----------------------------------------------------------------------------
(* ufs_read: one turn of the loop, and the measure that falls              *)

ReadFrom(s) == Least(s.offset, BLOCK_SIZE)
ReadTook(s) == Take(s.blocks[s.at], ReadFrom(s), s.size)
ReadSkip(s) == [s EXCEPT !.at = @ + 1, !.offset = @ - BLOCK_SIZE]
ReadOn(s) == [s EXCEPT !.at = @ + 1, !.offset = 0, !.size = @ - ReadTook(s),
                       !.out = @ \o SubSeq(s.blocks[s.at], ReadFrom(s) + 1, ReadFrom(s) + ReadTook(s))]

ReadBody(s, g) ==
    IF s.at > Len(s.blocks) \/ s.size = 0 THEN s.out
    ELSE IF ReadFrom(s) = BLOCK_SIZE THEN g[ReadSkip(s)]
         ELSE IF ReadTook(s) < 0 THEN s.out ELSE g[ReadOn(s)]

\* The four ways a turn goes.
ReadDone(s) == s.at > Len(s.blocks) \/ s.size = 0
ReadSkips(s) == ~ReadDone(s) /\ ReadFrom(s) = BLOCK_SIZE
ReadPast(s) == ~ReadDone(s) /\ ReadFrom(s) # BLOCK_SIZE /\ ReadTook(s) < 0
ReadTakes(s) == ~ReadDone(s) /\ ReadFrom(s) # BLOCK_SIZE /\ ~ (ReadTook(s) < 0)

LEMMA ReadTurn ==
    \A s : /\ ReadDone(s) \/ ReadSkips(s) \/ ReadPast(s) \/ ReadTakes(s)
          /\ \A g : /\ ReadDone(s) \/ ReadPast(s) => ReadBody(s, g) = s.out
                    /\ ReadSkips(s) => ReadBody(s, g) = g[ReadSkip(s)]
                    /\ ReadTakes(s) => ReadBody(s, g) = g[ReadOn(s)]
BY Zenon DEF ReadBody, ReadDone, ReadSkips, ReadPast, ReadTakes

BlocksLeft(s) == IF s.at <= Len(s.blocks) THEN Len(s.blocks) - s.at + 1 ELSE 0

\* The fields of a state, and of the states the loop goes to.
LEMMA ReadFields ==
    \A s \in ReadState : /\ s.blocks \in BlockList /\ s.at \in Nat \ {0} /\ s.offset \in Nat
                         /\ s.size \in Int /\ s.out \in Str /\ Len(s.blocks) \in Nat
                         /\ BlocksLeft(s) \in Nat
<1> SUFFICES ASSUME NEW s \in ReadState
             PROVE  /\ s.blocks \in BlockList /\ s.at \in Nat \ {0} /\ s.offset \in Nat
                    /\ s.size \in Int /\ s.out \in Str /\ Len(s.blocks) \in Nat
                    /\ BlocksLeft(s) \in Nat
  OBVIOUS
<1>1. s.blocks \in BlockList /\ s.at \in Nat \ {0} /\ s.offset \in Nat /\ s.size \in Int /\ s.out \in Str
  BY DEF ReadState, Str
<1>2. Len(s.blocks) \in Nat
  BY <1>1, BlocksType
<1> QED  BY <1>1, <1>2 DEF BlocksLeft

LEMMA ReadSkipTo ==
    ASSUME NEW s \in ReadState, ReadSkips(s)
    PROVE  /\ s.at \in 1 .. Len(s.blocks)
           /\ ReadSkip(s) \in ReadState /\ BlocksLeft(ReadSkip(s)) < BlocksLeft(s)
           /\ ReadSkip(s).blocks = s.blocks /\ ReadSkip(s).at = s.at + 1
           /\ ReadSkip(s).offset = s.offset - BLOCK_SIZE /\ s.offset >= BLOCK_SIZE
           /\ ReadSkip(s).size = s.size /\ ReadSkip(s).out = s.out
<1>1. s.at \in Nat \ {0} /\ s.offset \in Nat /\ Len(s.blocks) \in Nat /\ ReadFrom(s) = BLOCK_SIZE
      /\ ~ (s.at > Len(s.blocks))
  BY ReadFields DEF ReadSkips, ReadDone
<1>2. s.offset >= BLOCK_SIZE /\ s.offset - BLOCK_SIZE \in Nat /\ s.at + 1 \in Nat \ {0}
      /\ s.at \in 1 .. Len(s.blocks)
  BY <1>1 DEF ReadFrom, Least
<1>3. /\ ReadSkip(s) \in ReadState
      /\ ReadSkip(s).blocks = s.blocks /\ ReadSkip(s).at = s.at + 1
      /\ ReadSkip(s).offset = s.offset - BLOCK_SIZE
      /\ ReadSkip(s).size = s.size /\ ReadSkip(s).out = s.out
  BY <1>2 DEF ReadSkip, ReadState
<1>4. BlocksLeft(ReadSkip(s)) < BlocksLeft(s)
  BY <1>1, <1>3 DEF BlocksLeft
<1> QED  BY <1>2, <1>3, <1>4

LEMMA ReadTakesTo ==
    ASSUME NEW s \in ReadState, ReadTakes(s)
    PROVE  /\ s.at \in 1 .. Len(s.blocks)
           /\ ReadOn(s) \in ReadState /\ BlocksLeft(ReadOn(s)) < BlocksLeft(s)
           /\ ReadOn(s).blocks = s.blocks /\ ReadOn(s).at = s.at + 1 /\ ReadOn(s).offset = 0
           /\ ReadOn(s).size = s.size - ReadTook(s)
           /\ ReadOn(s).out = s.out \o SubSeq(s.blocks[s.at], ReadFrom(s) + 1, ReadFrom(s) + ReadTook(s))
           /\ SubSeq(s.blocks[s.at], ReadFrom(s) + 1, ReadFrom(s) + ReadTook(s)) \in Str
           /\ ReadFrom(s) = s.offset /\ ReadTook(s) \in Nat
           /\ s.offset + ReadTook(s) <= Len(s.blocks[s.at])
<1>1. s.at \in 1 .. Len(s.blocks) /\ s.offset \in Nat /\ Len(s.blocks) \in Nat /\ s.size \in Int
      /\ s.blocks \in BlockList /\ s.out \in Str
  <2>1. ~ (s.at > Len(s.blocks)) /\ s.at \in Nat \ {0} /\ Len(s.blocks) \in Nat
    BY ReadFields DEF ReadTakes, ReadDone
  <2> QED  BY <2>1, ReadFields
<1>0. ReadFrom(s) # BLOCK_SIZE /\ ~ (ReadTook(s) < 0)
  BY DEF ReadTakes
<1> DEFINE b == s.blocks[s.at]
           from == ReadFrom(s)
           n == ReadTook(s)
           piece == SubSeq(b, from + 1, from + n)
<1>2. b \in Str /\ Len(b) \in Nat
  BY <1>1, BlocksType
<1>3. from = s.offset /\ from \in Nat
  BY <1>0, <1>1 DEF ReadFrom, Least
<1>4. n \in Nat /\ from + n <= Len(b)
  <2>1. n = IF Len(b) - from < s.size THEN Len(b) - from ELSE s.size
    BY DEF ReadTook, Take, Least
  <2> DEFINE l == Len(b)
             size == s.size
  <2>2. /\ l \in Nat /\ size \in Int /\ from \in Nat /\ ~ (n < 0)
        /\ l - from < size => n = l - from
        /\ ~ (l - from < size) => n = size
    BY <1>0, <1>1, <1>2, <1>3, <2>1
  <2> HIDE DEF b, from, n, l, size
  <2>3. n \in Nat /\ from + n <= l
    BY <2>2
  <2> QED  BY <2>3 DEF l
<1>5. piece \in Str
  <2>1. from + 1 \in Nat \ {0} /\ from + n \in 0 .. Len(b)
    BY <1>2, <1>3, <1>4
  <2> QED  BY <1>2, <2>1, StrSub
<1>6. s.out \o piece \in Str
  BY <1>1, <1>5, StrConcat
<1>7. s.at + 1 \in Nat \ {0} /\ s.size - n \in Int /\ 0 \in Nat
  BY <1>1, <1>4
<1>8. ReadOn(s) = [s EXCEPT !.at = s.at + 1, !.offset = 0, !.size = s.size - n, !.out = s.out \o piece]
  BY DEF ReadOn, ReadState
<1> HIDE DEF n, piece
<1>9. /\ ReadOn(s) \in ReadState
      /\ ReadOn(s).blocks = s.blocks /\ ReadOn(s).at = s.at + 1 /\ ReadOn(s).offset = 0
      /\ ReadOn(s).size = s.size - n /\ ReadOn(s).out = s.out \o piece
  BY <1>6, <1>7, <1>8 DEF ReadState, Str
<1>10. BlocksLeft(ReadOn(s)) < BlocksLeft(s)
  BY <1>1, <1>9 DEF BlocksLeft
<1> QED  BY <1>1, <1>3, <1>4, <1>5, <1>9, <1>10 DEF n, piece

\* ReadLoop is one turn of the loop and the rest of it.
LEMMA ReadUnfolds == \A s \in ReadState : ReadLoop[s] = ReadBody(s, ReadLoop)
<1> DEFINE m == [s \in ReadState |-> BlocksLeft(s)]
           F == [s \in ReadState |-> [g \in [ReadState -> Str] |-> ReadBody(s, g)]]
<1>1. m \in [ReadState -> Nat] /\ \A s \in ReadState : m[s] = BlocksLeft(s)
  BY ReadFields
<1>2. ASSUME NEW s \in ReadState, NEW g \in [ReadState -> Str] PROVE ReadBody(s, g) \in Str
  <2>1. CASE ReadDone(s) \/ ReadPast(s)
    BY <2>1, ReadTurn, ReadFields
  <2>2. CASE ReadSkips(s)
    BY <2>2, ReadTurn, ReadSkipTo
  <2>3. CASE ReadTakes(s)
    BY <2>3, ReadTurn, ReadTakesTo
  <2> QED  BY <2>1, <2>2, <2>3, ReadTurn
<1>3. F \in [ReadState -> [[ReadState -> Str] -> Str]]
  BY <1>2
<1>4. \A s \in ReadState : \A g \in [ReadState -> Str] : F[s][g] = ReadBody(s, g)
  OBVIOUS
<1> HIDE DEF m, F
<1>5. LooksBelow(ReadState, Str, m, F)
  <2> SUFFICES ASSUME NEW s \in ReadState, NEW g \in [ReadState -> Str], NEW h \in [ReadState -> Str],
                      \A y \in ReadState : m[y] < m[s] => g[y] = h[y]
               PROVE  ReadBody(s, g) = ReadBody(s, h)
    BY <1>4 DEF LooksBelow
  <2>1. CASE ReadDone(s) \/ ReadPast(s)
    BY <2>1, ReadTurn
  <2>2. CASE ReadSkips(s)
    <3>1. g[ReadSkip(s)] = h[ReadSkip(s)]
      BY <1>1, <2>2, ReadSkipTo
    <3> QED  BY <2>2, <3>1, ReadTurn
  <2>3. CASE ReadTakes(s)
    <3>1. g[ReadOn(s)] = h[ReadOn(s)]
      BY <1>1, <2>3, ReadTakesTo
    <3> QED  BY <2>3, <3>1, ReadTurn
  <2> QED  BY <2>1, <2>2, <2>3, ReadTurn
<1>6. PICK f \in [ReadState -> Str] : Fixes(ReadState, F, f)
  <2>1. Str # {}
    BY StrType
  <2> HIDE DEF Str
  <2> QED  BY <1>1, <1>3, <1>5, <2>1, Recursion
<1>7. f = [s \in ReadState |-> ReadBody(s, f)]
  BY <1>4, <1>6 DEF Fixes
<1>8. ReadLoop = [s \in ReadState |-> ReadBody(s, ReadLoop)]
  <2>1. \E g : g = [s \in ReadState |-> ReadBody(s, g)]
    BY <1>7
  <2> QED  BY <2>1, Zenon DEF ReadLoop, ReadBody, ReadFrom, ReadTook, ReadSkip, ReadOn
<1> QED  BY <1>8

\* What is left to read: from an offset in the bytes from here on, some more.
LeftToRead(s) ==
    LET r == Rest(s.blocks, s.at) IN SubSeq(r, s.offset + 1, Least(Len(r), s.offset + s.size))

\* The loop reads the bytes of the file, wherever the blocks end.
LEMMA ReadIs ==
    \A s \in ReadState : Packed(s.blocks) /\ s.size >= 0 => ReadLoop[s] = s.out \o LeftToRead(s)
<1> DEFINE m == [s \in ReadState |-> BlocksLeft(s)]
           T == {s \in ReadState : Packed(s.blocks) /\ s.size >= 0 => ReadLoop[s] = s.out \o LeftToRead(s)}
<1>1. m \in [ReadState -> Nat] /\ \A s \in ReadState : m[s] = BlocksLeft(s)
  BY ReadFields
<1> HIDE DEF m
<1>2. ASSUME NEW s \in ReadState, \A y \in ReadState : m[y] < m[s] => y \in T,
             Packed(s.blocks), s.size >= 0
      PROVE  ReadLoop[s] = s.out \o LeftToRead(s)
  <2> DEFINE r == Rest(s.blocks, s.at)
             off == s.offset
             size == s.size
  <2>1. /\ s.blocks \in BlockList /\ s.at \in Nat \ {0} /\ off \in Nat /\ size \in Nat /\ s.out \in Str
        /\ Len(s.blocks) \in Nat /\ r \in Str /\ Len(r) \in Nat
    BY <1>2, ReadFields, RestType, StrType
  <2>2. LeftToRead(s) = SubSeq(r, off + 1, Least(Len(r), off + size))
    BY DEF LeftToRead
  <2>3. \A k \in Nat \ {0}, l \in Nat : l < k => SubSeq(r, k, l) = << >>
    BY <2>1, SubEmpty
  <2>4. s.out \o << >> = s.out
    BY <2>1, StrConcatEmpty
  <2>5. CASE ReadDone(s)
    <3>1. Least(Len(r), off + size) < off + 1 /\ Least(Len(r), off + size) \in Nat
      <4>1. CASE s.at > Len(s.blocks)
        <5>1. Len(r) = 0
          BY <2>1, <4>1, RestBehind, StrType
        <5> QED  BY <2>1, <5>1 DEF Least
      <4>2. CASE size = 0
        BY <2>1, <4>2 DEF Least
      <4> QED  BY <2>5, <4>1, <4>2 DEF ReadDone
    <3>2. LeftToRead(s) = << >>
      BY <2>1, <2>2, <2>3, <3>1
    <3>3. ReadLoop[s] = s.out
      BY <2>5, ReadUnfolds, ReadTurn
    <3> QED  BY <2>4, <3>2, <3>3
  <2> DEFINE b == s.blocks[s.at]
             c == Rest(s.blocks, s.at + 1)
  <2>6. ASSUME ~ReadDone(s)
        PROVE  /\ s.at \in 1 .. Len(s.blocks) /\ b \in Str /\ Len(b) \in 0 .. BLOCK_SIZE
               /\ c \in Str /\ Len(c) \in Nat /\ r = b \o c /\ Len(r) = Len(b) + Len(c)
               /\ Len(b) < BLOCK_SIZE => c = << >> /\ Len(c) = 0
    <3>1. s.at \in 1 .. Len(s.blocks) /\ s.at + 1 \in Nat \ {0}
      BY <2>1, <2>6 DEF ReadDone
    <3>2. b \in Str /\ Len(b) \in 0 .. BLOCK_SIZE /\ c \in Str /\ Len(c) \in Nat
      BY <2>1, <3>1, BlocksType, RestType, StrType
    <3>3. r = b \o c
      BY <2>1, <3>1, RestHere
    <3>4. Len(r) = Len(b) + Len(c)
      BY <3>2, <3>3, StrConcat
    <3>5. Len(b) < BLOCK_SIZE => c = << >>
      BY <1>2, <2>1, <3>1, RestOfRoom
    <3> QED  BY <3>1, <3>2, <3>3, <3>4, <3>5, StrType
  <2>7. CASE ReadSkips(s)
    <3> DEFINE t == ReadSkip(s)
    <3>1. /\ t \in ReadState /\ m[t] < m[s] /\ t.blocks = s.blocks /\ t.at = s.at + 1
          /\ t.offset = off - BLOCK_SIZE /\ off >= BLOCK_SIZE /\ t.size = size /\ t.out = s.out
      BY <1>1, <2>7, ReadSkipTo
    <3>2. ReadLoop[s] = ReadLoop[t]
      BY <2>7, ReadUnfolds, ReadTurn
    <3> HIDE DEF t
    <3>3. ReadLoop[t] = s.out \o LeftToRead(t)
      BY <1>2, <3>1
    <3> DEFINE k == Least(Len(c), t.offset + size)
    <3>4. LeftToRead(t) = SubSeq(c, t.offset + 1, k)
      BY <3>1 DEF LeftToRead
    <3>5. SubSeq(c, t.offset + 1, k) = SubSeq(r, off + 1, Least(Len(r), off + size))
      <4> HIDE DEF b, c, r, off, size
      <4>1. /\ b \in Str /\ Len(b) \in 0 .. BLOCK_SIZE /\ c \in Str /\ Len(c) \in Nat
            /\ r = b \o c /\ Len(r) = Len(b) + Len(c) /\ (Len(b) < BLOCK_SIZE => Len(c) = 0)
        BY <2>6, <2>7 DEF ReadSkips
      <4>2. CASE Len(b) = BLOCK_SIZE
        <5>1. k \in 0 .. Len(c) /\ t.offset + 1 \in Nat \ {0} /\ off = BLOCK_SIZE + t.offset
              /\ Least(Len(r), off + size) = Len(b) + k /\ off + 1 = Len(b) + (t.offset + 1)
          BY <2>1, <3>1, <4>1, <4>2 DEF Least
        <5> HIDE DEF k
        <5>2. SubSeq(b \o c, Len(b) + (t.offset + 1), Len(b) + k) = SubSeq(c, t.offset + 1, k)
          BY <4>1, <5>1, SubInto
        <5> QED  BY <4>1, <5>1, <5>2
      <4>3. CASE Len(b) < BLOCK_SIZE
        <5>1. k \in Nat /\ k < t.offset + 1 /\ t.offset + 1 \in Nat \ {0} /\ off + 1 \in Nat \ {0}
              /\ Least(Len(r), off + size) \in Nat /\ Least(Len(r), off + size) < off + 1
          BY <2>1, <3>1, <4>1, <4>3 DEF Least
        <5> HIDE DEF k
        <5>2. SubSeq(c, t.offset + 1, k) = << >>
          BY <4>1, <5>1, SubEmpty
        <5> QED  BY <2>3, <5>1, <5>2
      <4>4. Len(b) = BLOCK_SIZE \/ Len(b) < BLOCK_SIZE
        BY <4>1
      <4> QED  BY <4>2, <4>3, <4>4
    <3>6. LeftToRead(t) = LeftToRead(s)
      BY <2>2, <3>4, <3>5
    <3> QED  BY <3>2, <3>3, <3>6, Zenon
  <2>8. CASE ReadPast(s)
    <3>1. ReadLoop[s] = s.out
      BY <2>8, ReadUnfolds, ReadTurn
    <3>2. /\ s.at \in 1 .. Len(s.blocks) /\ Len(b) \in 0 .. BLOCK_SIZE
          /\ Len(r) = Len(b) + Len(c) /\ (Len(b) < BLOCK_SIZE => Len(c) = 0)
      BY <2>6, <2>8 DEF ReadPast
    <3>3. ReadFrom(s) # BLOCK_SIZE /\ ReadTook(s) < 0
      BY <2>8 DEF ReadPast
    <3> HIDE DEF b, c, r, off, size
    <3>4. ReadFrom(s) = off /\ off < BLOCK_SIZE
      BY <2>1, <3>3 DEF ReadFrom, Least, off
    <3>5. Len(b) < off
      <4>1. ReadTook(s) = IF Len(b) - off < size THEN Len(b) - off ELSE size
        BY <3>4 DEF ReadTook, Take, Least, b, size
      <4> QED  BY <2>1, <3>2, <3>3, <4>1
    <3>6. Least(Len(r), off + size) < off + 1 /\ Least(Len(r), off + size) \in Nat /\ off + 1 \in Nat \ {0}
      BY <2>1, <3>2, <3>4, <3>5 DEF Least
    <3>7. LeftToRead(s) = << >>
      BY <2>2, <2>3, <3>6
    <3> QED  BY <2>4, <3>1, <3>7
  <2>9. CASE ReadTakes(s)
    <3> DEFINE t == ReadOn(s)
               n == ReadTook(s)
               piece == SubSeq(b, off + 1, off + n)
    <3>1. /\ t \in ReadState /\ m[t] < m[s] /\ t.blocks = s.blocks /\ t.at = s.at + 1
          /\ t.offset = 0 /\ t.size = size - n /\ t.out = s.out \o piece
          /\ piece \in Str /\ n \in Nat /\ off + n <= Len(b)
      BY <1>1, <2>9, ReadTakesTo
    <3>2. ReadLoop[s] = ReadLoop[t]
      BY <2>9, ReadUnfolds, ReadTurn
    <3>3. n = IF Len(b) - off < size THEN Len(b) - off ELSE size
      <4>1. ReadFrom(s) = off
        BY <2>9, ReadTakesTo
      <4> QED  BY <4>1 DEF ReadTook, Take, Least
    <3>4. /\ b \in Str /\ Len(b) \in 0 .. BLOCK_SIZE /\ c \in Str /\ Len(c) \in Nat
          /\ r = b \o c /\ Len(r) = Len(b) + Len(c)
      BY <2>6, <2>9 DEF ReadTakes
    <3> HIDE DEF t, n, piece, b, c, r, off, size
    <3>5. size - n \in Nat /\ n <= size
      BY <2>1, <3>1, <3>3, <3>4
    <3>6. ReadLoop[t] = t.out \o LeftToRead(t)
      <4>1. t \in T
        BY <1>2, <3>1
      <4>2. Packed(t.blocks) /\ t.size >= 0
        BY <1>2, <3>1, <3>5
      <4> QED  BY <4>1, <4>2
    <3> DEFINE k == Least(Len(c), size - n)
    <3>7. LeftToRead(t) = SubSeq(c, 1, k)
      <4>1. LeftToRead(t) = SubSeq(c, 0 + 1, Least(Len(c), 0 + (size - n)))
        BY <3>1 DEF LeftToRead, c
      <4>2. 0 + 1 = 1 /\ 0 + (size - n) = size - n
        BY <3>5
      <4> QED  BY <4>1, <4>2
    <3>8. k \in 0 .. Len(c) /\ off + 1 \in 1 .. Len(b) + 1 /\ off + 1 \in Nat \ {0}
      BY <2>1, <3>1, <3>4, <3>5 DEF Least
    <3>9. LeftToRead(s) = piece \o SubSeq(c, 1, k)
      <4>1. CASE Len(b) - off < size
        <5>1. off + n = Len(b) /\ Least(Len(r), off + size) = Len(b) + k
          BY <2>1, <3>1, <3>3, <3>4, <4>1 DEF Least
        <5> HIDE DEF k
        <5>2. SubSeq(b \o c, off + 1, Len(b) + k) = SubSeq(b, off + 1, Len(b)) \o SubSeq(c, 1, k)
          BY <3>4, <3>8, SubAcross
        <5> QED  BY <2>2, <3>4, <5>1, <5>2 DEF piece
      <4>2. CASE ~ (Len(b) - off < size)
        <5>1. n = size /\ k = 0 /\ Least(Len(r), off + size) = off + n /\ off + n \in 0 .. Len(b)
          BY <2>1, <3>1, <3>3, <3>4, <4>2 DEF Least
        <5>2. SubSeq(c, 1, k) = << >>
          BY <3>4, <5>1, SubEmpty
        <5>3. piece \o << >> = piece
          BY <3>1, StrConcatEmpty
        <5>4. SubSeq(b \o c, off + 1, off + n) = piece
          <6>1. \A i \in Nat \ {0}, j \in 0 .. Len(b) : SubSeq(b \o c, i, j) = SubSeq(b, i, j)
            BY <3>4, SubHere
          <6> QED  BY <3>8, <5>1, <6>1 DEF piece
        <5> QED  BY <2>2, <3>4, <5>1, <5>2, <5>3, <5>4
      <4> QED  BY <4>1, <4>2
    <3>10. SubSeq(c, 1, k) \in Str
      BY <3>4, <3>8, StrSub
    <3>11. (s.out \o piece) \o SubSeq(c, 1, k) = s.out \o (piece \o SubSeq(c, 1, k))
      BY <2>1, <3>1, <3>10, StrConcatAssoc, ZenonT(60)
    <3> HIDE DEF k
    <3>12. ReadLoop[t] = (s.out \o piece) \o SubSeq(c, 1, k)
      BY <3>1, <3>6, <3>7, Zenon
    <3> QED  BY <3>2, <3>9, <3>11, <3>12, Zenon
  <2> QED  BY <2>5, <2>7, <2>8, <2>9, ReadTurn
<1>3. ASSUME NEW s \in ReadState, \A y \in ReadState : m[y] < m[s] => y \in T PROVE s \in T
  BY <1>2, <1>3
<1>4. ReadState \subseteq T
  <2> HIDE DEF T
  <2> QED  BY <1>1, <1>3, MeasureInduction
<1> QED  BY <1>4

\* ufs_read returns the bytes of the file from the offset on (226-275).
THEOREM ReadingIs ==
    ASSUME NEW blocks \in BlockList, Packed(blocks), NEW off \in Nat, NEW size \in Nat
    PROVE  Reading(blocks, off, size) = SubSeq(Flat(blocks), off + 1, Least(Size(blocks), off + size))
<1> DEFINE s == [blocks |-> blocks, at |-> 1, offset |-> off, size |-> size, out |-> << >>]
<1>1. s \in ReadState /\ << >> \in Str
  BY StrType DEF ReadState, Str
<1>2. s.blocks = blocks /\ s.at = 1 /\ s.offset = off /\ s.size = size /\ s.out = << >> /\ s.size >= 0
  OBVIOUS
<1>3. Reading(blocks, off, size) = ReadLoop[s]
  BY DEF Reading
<1> HIDE DEF s
<1>4. LeftToRead(s) = SubSeq(Flat(blocks), off + 1, Least(Size(blocks), off + size))
  BY <1>2, RestWhole DEF LeftToRead, Size
<1>5. Flat(blocks) \in Str /\ Len(Flat(blocks)) \in Nat
  BY RestWhole, RestType, StrType
<1>6. LeftToRead(s) \in Str
  <2>1. off + 1 \in Nat \ {0} /\ Least(Size(blocks), off + size) \in 0 .. Len(Flat(blocks))
    BY <1>5 DEF Least, Size
  <2> QED  BY <1>4, <1>5, <2>1, StrSub
<1>7. ReadLoop[s] = << >> \o LeftToRead(s)
  BY <1>1, <1>2, ReadIs
<1> QED  BY <1>3, <1>4, <1>6, <1>7, StrConcatEmpty

-----------------------------------------------------------------------------
(* ufs_write                                                               *)

LEMMA OverwriteNothing ==
    ASSUME NEW a \in Str, NEW from \in 0 .. Len(a) PROVE Overwrite(a, from, << >>) = a
<1> DEFINE x == Overwrite(a, from, << >>)
<1>1. Len(a) \in Nat /\ from \in Nat /\ from <= Len(a) /\ << >> \in Str /\ Len(<< >>) = 0
  BY StrType
<1>2. /\ x \in Str
      /\ from + Len(<< >>) >= Len(a) => Len(x) = from + Len(<< >>)
      /\ from + Len(<< >>) < Len(a) => Len(x) = Len(a)
      /\ \A i \in 1 .. Len(x) :
            x[i] = IF i <= from THEN a[i] ELSE IF i <= from + Len(<< >>) THEN << >>[i - from] ELSE a[i]
  BY <1>1, OverwriteIs
<1> HIDE DEF x
<1>3. Len(x) = Len(a)
  BY <1>1, <1>2
<1>4. \A i \in 1 .. Len(x) : x[i] = a[i]
  BY <1>1, <1>2
<1>5. x = a
  BY <1>2, <1>3, <1>4, StrEqual
<1> QED  BY <1>5 DEF x

\* A string is its first n elements and the others.
LEMMA SubSplit ==
    ASSUME NEW a \in Str, NEW n \in 0 .. Len(a)
    PROVE  /\ SubSeq(a, 1, n) \in Str /\ Len(SubSeq(a, 1, n)) = n
           /\ SubSeq(a, n + 1, Len(a)) \in Str /\ Len(SubSeq(a, n + 1, Len(a))) = Len(a) - n
           /\ a = SubSeq(a, 1, n) \o SubSeq(a, n + 1, Len(a))
<1> DEFINE l == Len(a)
           u == SubSeq(a, 1, n)
           w == SubSeq(a, n + 1, l)
<1>1. l \in Nat /\ n \in Nat /\ n <= l /\ n + 1 \in Nat \ {0} /\ 1 \in Nat \ {0} /\ l \in 0 .. Len(a) /\ l = Len(a)
  BY StrType
<1> HIDE DEF l
<1>2. /\ u \in Str /\ (1 <= n => Len(u) = n - 1 + 1) /\ (1 > n => Len(u) = 0)
      /\ \A i \in 1 .. n - 1 + 1 : u[i] = a[1 + i - 1]
  BY <1>1, StrSub
<1>3. /\ w \in Str /\ (n + 1 <= l => Len(w) = l - (n + 1) + 1) /\ (n + 1 > l => Len(w) = 0)
      /\ \A i \in 1 .. l - (n + 1) + 1 : w[i] = a[(n + 1) + i - 1]
  BY <1>1, StrSub
<1> HIDE DEF u, w
<1>4. Len(u) = n /\ Len(w) = l - n
  BY <1>1, <1>2, <1>3
<1>5. /\ u \o w \in Str /\ Len(u \o w) = Len(u) + Len(w)
      /\ \A i \in 1 .. Len(u) + Len(w) : (u \o w)[i] = IF i <= Len(u) THEN u[i] ELSE w[i - Len(u)]
  BY <1>2, <1>3, StrConcat
<1>6. ASSUME NEW i \in 1 .. Len(a) PROVE a[i] = (u \o w)[i]
  <2>1. (u \o w)[i] = IF i <= n THEN u[i] ELSE w[i - n]
    BY <1>1, <1>4, <1>5
  <2>2. CASE i <= n
    <3>1. i \in 1 .. n - 1 + 1 /\ 1 + i - 1 = i
      BY <1>1, <2>2
    <3> QED  BY <1>2, <2>1, <2>2, <3>1
  <2>3. CASE ~ (i <= n)
    <3>1. i - n \in 1 .. l - (n + 1) + 1 /\ (n + 1) + (i - n) - 1 = i
      BY <1>1, <2>3
    <3> QED  BY <1>3, <2>1, <2>3, <3>1
  <2> QED  BY <2>2, <2>3
<1>7. a = u \o w
  <2>1. Len(u \o w) = Len(a)
    BY <1>1, <1>4, <1>5
  <2>2. u \o w \in Str
    BY <1>5
  <2> DEFINE x == u \o w
  <2> HIDE DEF x
  <2>3. a = x
    BY <1>6, <2>1, <2>2, StrEqual DEF x
  <2> QED  BY <2>3 DEF x
<1> QED  BY <1>1, <1>2, <1>3, <1>4, <1>7 DEF u, w, l

WriteFrom(s) == StartIn(s.offset, s.blocks[s.at])
WriteFits(s) == Least(Len(s.data), BLOCK_SIZE - WriteFrom(s))
WriteGrow(s) == [s EXCEPT !.blocks = Append(@, << >>), !.offset = 0]
WriteSkip(s) == [s EXCEPT !.at = @ + 1, !.offset = @ - BLOCK_SIZE]
WriteOn(s) ==
    [blocks |-> [s.blocks EXCEPT ![s.at] =
                     Overwrite(@, WriteFrom(s), SubSeq(s.data, 1, WriteFits(s)))],
     at     |-> s.at + 1,
     offset |-> 0,
     data   |-> SubSeq(s.data, WriteFits(s) + 1, Len(s.data))]

WriteBody(s, g) ==
    IF s.data = << >> THEN s.blocks
    ELSE IF s.at > Len(s.blocks) THEN g[WriteGrow(s)]
         ELSE IF WriteFrom(s) = BLOCK_SIZE THEN g[WriteSkip(s)] ELSE g[WriteOn(s)]

\* The four ways a turn goes.
WriteDone(s) == s.data = << >>
WriteGrows(s) == ~WriteDone(s) /\ s.at > Len(s.blocks)
WriteSkips(s) == ~WriteDone(s) /\ ~ (s.at > Len(s.blocks)) /\ WriteFrom(s) = BLOCK_SIZE
WriteCopies(s) == ~WriteDone(s) /\ ~ (s.at > Len(s.blocks)) /\ WriteFrom(s) # BLOCK_SIZE

LEMMA WriteTurn ==
    \A s : /\ WriteDone(s) \/ WriteGrows(s) \/ WriteSkips(s) \/ WriteCopies(s)
          /\ \A g : /\ WriteDone(s) => WriteBody(s, g) = s.blocks
                    /\ WriteGrows(s) => WriteBody(s, g) = g[WriteGrow(s)]
                    /\ WriteSkips(s) => WriteBody(s, g) = g[WriteSkip(s)]
                    /\ WriteCopies(s) => WriteBody(s, g) = g[WriteOn(s)]
BY Zenon DEF WriteBody, WriteDone, WriteGrows, WriteSkips, WriteCopies

\* A new block does not bring the end nearer, but a new block is filled next.
Beyond(s) == IF s.at > Len(s.blocks) THEN s.at - Len(s.blocks) ELSE 0
WriteLeft(s) == 2 * s.offset + 2 * Len(s.data) + Beyond(s)

LEMMA WriteFields ==
    \A s \in WriteState : /\ s.blocks \in BlockList /\ s.at \in Nat \ {0} /\ s.offset \in Nat
                          /\ s.data \in Str /\ Len(s.data) \in Nat /\ Len(s.blocks) \in Nat
                          /\ Beyond(s) \in Nat /\ WriteLeft(s) \in Nat
<1> SUFFICES ASSUME NEW s \in WriteState
             PROVE  /\ s.blocks \in BlockList /\ s.at \in Nat \ {0} /\ s.offset \in Nat
                    /\ s.data \in Str /\ Len(s.data) \in Nat /\ Len(s.blocks) \in Nat
                    /\ Beyond(s) \in Nat /\ WriteLeft(s) \in Nat
  OBVIOUS
<1>1. s.blocks \in BlockList /\ s.at \in Nat \ {0} /\ s.offset \in Nat /\ s.data \in Str
  BY DEF WriteState, Str
<1>2. Len(s.blocks) \in Nat /\ Len(s.data) \in Nat
  BY <1>1, BlocksType, StrType
<1>3. Beyond(s) \in Nat
  BY <1>1, <1>2 DEF Beyond
<1>4. WriteLeft(s) \in Nat
  BY <1>1, <1>2, <1>3 DEF WriteLeft
<1> QED  BY <1>1, <1>2, <1>3, <1>4

LEMMA WriteGrowTo ==
    ASSUME NEW s \in WriteState, WriteGrows(s)
    PROVE  /\ s.at > Len(s.blocks)
           /\ WriteGrow(s) \in WriteState /\ WriteLeft(WriteGrow(s)) < WriteLeft(s)
           /\ WriteGrow(s).blocks = Append(s.blocks, << >>) /\ WriteGrow(s).at = s.at
           /\ WriteGrow(s).offset = 0 /\ WriteGrow(s).data = s.data
<1>1. /\ s.blocks \in BlockList /\ s.at \in Nat \ {0} /\ s.offset \in Nat /\ s.data \in Str
      /\ Len(s.data) \in Nat /\ Len(s.blocks) \in Nat /\ s.at > Len(s.blocks)
  BY WriteFields DEF WriteGrows
<1>2. Append(s.blocks, << >>) \in BlockList /\ Len(Append(s.blocks, << >>)) = Len(s.blocks) + 1
  BY <1>1, BlocksAppend
<1> DEFINE t == WriteGrow(s)
<1>3. /\ t \in WriteState /\ t.blocks = Append(s.blocks, << >>) /\ t.at = s.at
      /\ t.offset = 0 /\ t.data = s.data
  BY <1>2 DEF WriteGrow, WriteState
<1> HIDE DEF t
<1>4. Beyond(t) < Beyond(s) /\ Beyond(t) \in Nat /\ Beyond(s) \in Nat
  BY <1>1, <1>2, <1>3 DEF Beyond
<1>5. WriteLeft(t) < WriteLeft(s)
  BY <1>1, <1>3, <1>4 DEF WriteLeft
<1> QED  BY <1>1, <1>3, <1>5 DEF t

LEMMA WriteSkipTo ==
    ASSUME NEW s \in WriteState, WriteSkips(s)
    PROVE  /\ s.at \in 1 .. Len(s.blocks) /\ s.offset >= BLOCK_SIZE /\ Len(s.blocks[s.at]) = BLOCK_SIZE
           /\ WriteSkip(s) \in WriteState /\ WriteLeft(WriteSkip(s)) < WriteLeft(s)
           /\ WriteSkip(s).blocks = s.blocks /\ WriteSkip(s).at = s.at + 1
           /\ WriteSkip(s).offset = s.offset - BLOCK_SIZE /\ WriteSkip(s).data = s.data
<1>1. /\ s.blocks \in BlockList /\ s.at \in 1 .. Len(s.blocks) /\ s.offset \in Nat /\ s.data \in Str
      /\ Len(s.data) \in Nat /\ Len(s.blocks) \in Nat
  <2>1. ~ (s.at > Len(s.blocks)) /\ s.at \in Nat \ {0} /\ Len(s.blocks) \in Nat
    BY WriteFields DEF WriteSkips
  <2> QED  BY <2>1, WriteFields
<1>2. Len(s.blocks[s.at]) \in 0 .. BLOCK_SIZE
  BY <1>1, BlocksType
<1>3. s.offset >= BLOCK_SIZE /\ Len(s.blocks[s.at]) = BLOCK_SIZE
  <2>1. (IF s.offset < Len(s.blocks[s.at]) THEN s.offset ELSE Len(s.blocks[s.at])) = BLOCK_SIZE
    BY DEF WriteSkips, WriteFrom, StartIn, Least
  <2> QED  BY <1>1, <1>2, <2>1
<1> DEFINE t == WriteSkip(s)
<1>4. s.offset - BLOCK_SIZE \in Nat /\ s.at + 1 \in Nat \ {0}
  BY <1>1, <1>3
<1>5. /\ t \in WriteState /\ t.blocks = s.blocks /\ t.at = s.at + 1
      /\ t.offset = s.offset - BLOCK_SIZE /\ t.data = s.data
  BY <1>4 DEF WriteSkip, WriteState
<1> HIDE DEF t
<1>6. Beyond(t) <= 1 /\ Beyond(s) = 0 /\ Beyond(t) \in Nat
  BY <1>1, <1>5 DEF Beyond
<1>7. WriteLeft(t) < WriteLeft(s)
  BY <1>1, <1>3, <1>5, <1>6 DEF WriteLeft
<1> QED  BY <1>1, <1>3, <1>5, <1>7 DEF t

\* The bytes that go into this block, and the block then.
WritePiece(s) == SubSeq(s.data, 1, WriteFits(s))
WriteRest(s) == SubSeq(s.data, WriteFits(s) + 1, Len(s.data))
WriteBlock(s) == Overwrite(s.blocks[s.at], WriteFrom(s), WritePiece(s))

LEMMA WriteCopiesTo ==
    ASSUME NEW s \in WriteState, WriteCopies(s)
    PROVE  /\ s.at \in 1 .. Len(s.blocks) /\ s.data \in Str
           /\ WriteFrom(s) \in 0 .. Len(s.blocks[s.at]) /\ WriteFrom(s) < BLOCK_SIZE
           /\ WritePiece(s) \in Str /\ WriteRest(s) \in Str /\ s.data = WritePiece(s) \o WriteRest(s)
           /\ Len(WritePiece(s)) = WriteFits(s) /\ WriteFits(s) \in Nat
           /\ WriteFrom(s) + WriteFits(s) <= BLOCK_SIZE
           /\ WriteFrom(s) + WriteFits(s) = BLOCK_SIZE \/ Len(WriteRest(s)) = 0
           /\ WriteBlock(s) \in Block
           /\ WriteOn(s) \in WriteState /\ WriteLeft(WriteOn(s)) < WriteLeft(s)
           /\ WriteOn(s).blocks = [s.blocks EXCEPT ![s.at] = WriteBlock(s)]
           /\ WriteOn(s).at = s.at + 1 /\ WriteOn(s).offset = 0 /\ WriteOn(s).data = WriteRest(s)
<1> DEFINE b == s.blocks[s.at]
           from == WriteFrom(s)
           n == WriteFits(s)
           d == WritePiece(s)
           e == WriteRest(s)
<1>1. /\ s.blocks \in BlockList /\ s.at \in 1 .. Len(s.blocks) /\ s.offset \in Nat /\ s.data \in Str
      /\ Len(s.data) \in Nat \ {0} /\ Len(s.blocks) \in Nat /\ from # BLOCK_SIZE
  <2>1. ~ (s.at > Len(s.blocks)) /\ s.at \in Nat \ {0} /\ Len(s.blocks) \in Nat /\ s.data # << >>
    BY WriteFields DEF WriteCopies, WriteDone
  <2>2. Len(s.data) # 0
    BY <2>1, WriteFields, StrType
  <2> QED  BY <2>1, <2>2, WriteFields DEF WriteCopies
<1>2. b \in Str /\ Len(b) \in 0 .. BLOCK_SIZE
  BY <1>1, BlocksType
<1>3. from \in 0 .. Len(b) /\ from < BLOCK_SIZE
  <2>1. from = IF s.offset < Len(b) THEN s.offset ELSE Len(b)
    BY DEF WriteFrom, StartIn, Least
  <2> QED  BY <1>1, <1>2, <2>1
<1>4. n \in Nat \ {0} /\ n <= Len(s.data) /\ from + n <= BLOCK_SIZE /\ (from + n = BLOCK_SIZE \/ n = Len(s.data))
  <2>1. n = IF Len(s.data) < BLOCK_SIZE - from THEN Len(s.data) ELSE BLOCK_SIZE - from
    BY DEF WriteFits, Least
  <2> QED  BY <1>1, <1>2, <1>3, <2>1
<1>5. d \in Str /\ Len(d) = n /\ e \in Str /\ Len(e) = Len(s.data) - n /\ s.data = d \o e
  <2>1. n \in 0 .. Len(s.data)
    BY <1>1, <1>4
  <2> QED  BY <1>1, <2>1, SubSplit DEF WritePiece, WriteRest
<1>6. WriteBlock(s) \in Block
  <2>1. /\ WriteBlock(s) \in Str
        /\ from + Len(d) >= Len(b) => Len(WriteBlock(s)) = from + Len(d)
        /\ from + Len(d) < Len(b) => Len(WriteBlock(s)) = Len(b)
    BY <1>2, <1>3, <1>5, OverwriteIs DEF WriteBlock
  <2>2. Len(WriteBlock(s)) <= BLOCK_SIZE
    BY <1>2, <1>3, <1>4, <1>5, <2>1
  <2> QED  BY <2>1, <2>2 DEF Block, Str
<1> DEFINE t == WriteOn(s)
<1>7. t = [blocks |-> [s.blocks EXCEPT ![s.at] = WriteBlock(s)], at |-> s.at + 1, offset |-> 0, data |-> e]
  BY <1>1 DEF WriteOn, WriteBlock, WritePiece, WriteRest, BlockList
<1>8. [s.blocks EXCEPT ![s.at] = WriteBlock(s)] \in BlockList
      /\ Len([s.blocks EXCEPT ![s.at] = WriteBlock(s)]) = Len(s.blocks)
  BY <1>1, <1>6, BlocksExcept
<1> HIDE DEF t, e, d, n, from
<1>9. /\ t \in WriteState /\ t.blocks = [s.blocks EXCEPT ![s.at] = WriteBlock(s)]
      /\ t.at = s.at + 1 /\ t.offset = 0 /\ t.data = e
  <2>1. s.at + 1 \in Nat \ {0} /\ 0 \in Nat
    BY <1>1
  <2> QED  BY <1>5, <1>7, <1>8, <2>1 DEF WriteState, Str
<1>10. WriteLeft(t) < WriteLeft(s)
  <2>1. Len(t.blocks) = Len(s.blocks)
    BY <1>8, <1>9
  <2>2. Beyond(t) <= 1 /\ Beyond(s) = 0 /\ Beyond(t) \in Nat
    BY <1>1, <1>9, <2>1 DEF Beyond
  <2> QED  BY <1>1, <1>4, <1>5, <1>9, <2>2 DEF WriteLeft
<1>11. from + n = BLOCK_SIZE \/ Len(e) = 0
  BY <1>1, <1>4, <1>5
<1> QED  BY <1>1, <1>3, <1>4, <1>5, <1>6, <1>9, <1>10, <1>11 DEF t, e, d, n, from

\* WriteLoop is one turn of the loop and the rest of it.
LEMMA WriteUnfolds == \A s \in WriteState : WriteLoop[s] = WriteBody(s, WriteLoop)
<1> DEFINE m == [s \in WriteState |-> WriteLeft(s)]
           F == [s \in WriteState |-> [g \in [WriteState -> BlockList] |-> WriteBody(s, g)]]
<1>1. m \in [WriteState -> Nat] /\ \A s \in WriteState : m[s] = WriteLeft(s)
  BY WriteFields
<1>2. ASSUME NEW s \in WriteState, NEW g \in [WriteState -> BlockList] PROVE WriteBody(s, g) \in BlockList
  <2>1. CASE WriteDone(s)
    BY <2>1, WriteTurn, WriteFields
  <2>2. CASE WriteGrows(s)
    BY <2>2, WriteTurn, WriteGrowTo
  <2>3. CASE WriteSkips(s)
    BY <2>3, WriteTurn, WriteSkipTo
  <2>4. CASE WriteCopies(s)
    <3>1. WriteOn(s) \in WriteState
      BY <2>4, WriteCopiesTo
    <3> QED  BY <2>4, <3>1, WriteTurn
  <2> QED  BY <2>1, <2>2, <2>3, <2>4, WriteTurn
<1>3. F \in [WriteState -> [[WriteState -> BlockList] -> BlockList]]
  BY <1>2
<1>4. \A s \in WriteState : \A g \in [WriteState -> BlockList] : F[s][g] = WriteBody(s, g)
  OBVIOUS
<1> HIDE DEF m, F
<1>5. LooksBelow(WriteState, BlockList, m, F)
  <2> SUFFICES ASSUME NEW s \in WriteState, NEW g \in [WriteState -> BlockList],
                      NEW h \in [WriteState -> BlockList],
                      \A y \in WriteState : m[y] < m[s] => g[y] = h[y]
               PROVE  WriteBody(s, g) = WriteBody(s, h)
    BY <1>4 DEF LooksBelow
  <2>1. CASE WriteDone(s)
    BY <2>1, WriteTurn
  <2>2. CASE WriteGrows(s)
    <3>1. g[WriteGrow(s)] = h[WriteGrow(s)]
      BY <1>1, <2>2, WriteGrowTo
    <3> QED  BY <2>2, <3>1, WriteTurn
  <2>3. CASE WriteSkips(s)
    <3>1. g[WriteSkip(s)] = h[WriteSkip(s)]
      BY <1>1, <2>3, WriteSkipTo
    <3> QED  BY <2>3, <3>1, WriteTurn
  <2>4. CASE WriteCopies(s)
    <3>1. g[WriteOn(s)] = h[WriteOn(s)]
      BY <1>1, <2>4, WriteCopiesTo
    <3> QED  BY <2>4, <3>1, WriteTurn
  <2> QED  BY <2>1, <2>2, <2>3, <2>4, WriteTurn
<1>6. PICK f \in [WriteState -> BlockList] : Fixes(WriteState, F, f)
  <2>1. BlockList # {}
    BY EmptySeq DEF BlockList
  <2> QED  BY <1>1, <1>3, <1>5, <2>1, Recursion
<1>7. f = [s \in WriteState |-> WriteBody(s, f)]
  BY <1>4, <1>6 DEF Fixes
<1>8. WriteLoop = [s \in WriteState |-> WriteBody(s, WriteLoop)]
  <2>1. \E g : g = [s \in WriteState |-> WriteBody(s, g)]
    BY <1>7
  <2> QED  BY <2>1, Zenon DEF WriteLoop, WriteBody, WriteFrom, WriteFits, WriteGrow, WriteSkip, WriteOn
<1> QED  BY <1>8

\* What the loop counts on: the blocks before the one it is at are full, when
\* there is something to write.
WriteReady(s) ==
    /\ Packed(s.blocks) /\ s.at <= Len(s.blocks) + 1
    /\ s.data # << >> => \A i \in 1 .. s.at - 1 : Len(s.blocks[i]) = BLOCK_SIZE

\* What it makes of the blocks: from here on the bytes are overwritten, and a
\* block that was added is not empty at the end.
WriteMakes(s, r) ==
    /\ r \in BlockList /\ Packed(r) /\ Len(r) >= Len(s.blocks)
    /\ \A i \in 1 .. s.at - 1 : r[i] = s.blocks[i]
    /\ Rest(r, s.at) = Overwrite(Rest(s.blocks, s.at), StartIn(s.offset, Rest(s.blocks, s.at)), s.data)
    /\ Len(r) = Len(s.blocks) \/ r[Len(r)] # << >>

LEMMA WriteEnds ==
    ASSUME NEW s \in WriteState, WriteReady(s), WriteDone(s) PROVE WriteMakes(s, s.blocks)
<1>1. s.blocks \in BlockList /\ Len(s.blocks) \in Nat /\ s.at \in Nat \ {0} /\ s.offset \in Nat
  BY WriteFields
<1> DEFINE r == Rest(s.blocks, s.at)
<1>2. r \in Str /\ Len(r) \in Nat
  BY <1>1, RestType, StrType
<1>3. StartIn(s.offset, r) \in 0 .. Len(r)
  BY <1>1, <1>2 DEF StartIn, Least
<1>4. Overwrite(r, StartIn(s.offset, r), << >>) = r
  <2> HIDE DEF r
  <2> QED  BY <1>2, <1>3, OverwriteNothing
<1> QED  BY <1>1, <1>4 DEF WriteMakes, WriteReady, WriteDone

LEMMA WriteGrowMakes ==
    ASSUME NEW s \in WriteState, WriteReady(s), WriteGrows(s)
    PROVE  WriteReady(WriteGrow(s)) /\ \A r : WriteMakes(WriteGrow(s), r) => WriteMakes(s, r)
<1> DEFINE t == WriteGrow(s)
           n == Len(s.blocks)
<1>1. /\ s.blocks \in BlockList /\ n \in Nat /\ DOMAIN s.blocks = 1 .. n /\ s.offset \in Nat
      /\ s.at = n + 1 /\ s.at \in Nat \ {0} /\ s.data \in Str /\ Len(s.data) \in Nat \ {0}
  <2>1. s.at > n /\ s.data # << >>
    BY WriteGrowTo DEF WriteGrows, WriteDone
  <2>2. Len(s.data) # 0
    BY <2>1, WriteFields, StrType
  <2>3. s.blocks \in BlockList /\ DOMAIN s.blocks = 1 .. n
    BY WriteFields, BlocksType
  <2> QED  BY <2>1, <2>2, <2>3, WriteFields DEF WriteReady
<1>2. /\ t.blocks = Append(s.blocks, << >>) /\ t.at = s.at /\ t.offset = 0 /\ t.data = s.data
  BY WriteGrowTo
<1>3. /\ t.blocks \in BlockList /\ Len(t.blocks) = n + 1 /\ DOMAIN t.blocks = 1 .. n + 1
      /\ \A i \in 1 .. n : t.blocks[i] = s.blocks[i]
      /\ t.blocks[n + 1] = << >>
  BY <1>1, <1>2, BlocksAppend, BlocksType
<1> HIDE DEF t, n
<1>4. WriteReady(t)
  <2>1. Packed(t.blocks)
    BY <1>1, <1>3 DEF Packed, WriteReady
  <2>2. \A i \in 1 .. t.at - 1 : Len(t.blocks[i]) = BLOCK_SIZE
    <3>1. s.data # << >>
      BY <1>1, StrType
    <3> QED  BY <1>1, <1>2, <1>3, <3>1 DEF WriteReady
  <2> QED  BY <1>1, <1>2, <1>3, <2>1, <2>2 DEF WriteReady
<1>5. Rest(s.blocks, s.at) = << >> /\ Rest(t.blocks, t.at) = << >>
  <2>1. Rest(s.blocks, s.at) = << >>
    BY <1>1, RestBehind DEF n
  <2>2. \A j \in t.at .. Len(t.blocks) : t.blocks[j] = << >>
    BY <1>1, <1>2, <1>3
  <2>3. Rest(t.blocks, t.at) = << >>
    BY <1>1, <1>2, <1>3, <2>2, RestEmpty
  <2> QED  BY <2>1, <2>3
<1>6. StartIn(s.offset, << >>) = 0 /\ StartIn(0, << >>) = 0
  BY <1>1, StrType DEF StartIn, Least
<1>7. ASSUME NEW r, WriteMakes(t, r) PROVE WriteMakes(s, r)
  <2>1. /\ r \in BlockList /\ Packed(r) /\ Len(r) >= n + 1 /\ Len(r) \in Nat
        /\ \A i \in 1 .. s.at - 1 : r[i] = s.blocks[i]
        /\ Rest(r, s.at) = Overwrite(<< >>, 0, s.data)
        /\ Len(r) = n + 1 \/ r[Len(r)] # << >>
    BY <1>1, <1>2, <1>3, <1>5, <1>6, <1>7, BlocksType DEF WriteMakes
  <2>2. r[Len(r)] # << >>
    <3> SUFFICES ASSUME r[Len(r)] = << >> PROVE FALSE
      OBVIOUS
    <3>1. Len(r) = s.at
      BY <1>1, <2>1
    <3>2. \A j \in s.at .. Len(r) : r[j] = << >>
      BY <1>1, <3>1
    <3>3. Rest(r, s.at) = << >>
      BY <1>1, <2>1, <3>2, RestEmpty
    <3>4. Len(Overwrite(<< >>, 0, s.data)) = 0 + Len(s.data)
      <4>1. << >> \in Str /\ Len(<< >>) = 0 /\ 0 \in 0 .. Len(<< >>) /\ 0 + Len(s.data) >= Len(<< >>)
        BY <1>1, StrType
      <4> QED  BY <1>1, <4>1, OverwriteIs
    <3> QED  BY <1>1, <2>1, <3>3, <3>4, StrType
  <2> QED  BY <1>1, <1>5, <1>6, <2>1, <2>2 DEF WriteMakes, n
<1> QED  BY <1>4, <1>7 DEF t

LEMMA WriteSkipMakes ==
    ASSUME NEW s \in WriteState, WriteReady(s), WriteSkips(s)
    PROVE  WriteReady(WriteSkip(s)) /\ \A r : WriteMakes(WriteSkip(s), r) => WriteMakes(s, r)
<1> DEFINE t == WriteSkip(s)
           n == Len(s.blocks)
           b == s.blocks[s.at]
           c == Rest(s.blocks, s.at + 1)
<1>1. /\ s.blocks \in BlockList /\ n \in Nat /\ s.offset \in Nat /\ s.data \in Str
      /\ s.at \in 1 .. n /\ s.offset >= BLOCK_SIZE /\ Len(b) = BLOCK_SIZE /\ b \in Str /\ c \in Str
  BY WriteSkipTo, WriteFields, BlocksType, RestType
<1>2. /\ t.blocks = s.blocks /\ t.at = s.at + 1 /\ t.offset = s.offset - BLOCK_SIZE /\ t.data = s.data
  BY WriteSkipTo
<1>3. Rest(s.blocks, s.at) = b \o c
  BY <1>1, RestHere
<1>4. s.at \in Nat \ {0} /\ s.at + 1 \in Nat \ {0} /\ s.at + 1 <= n + 1 /\ s.at \in 1 .. (s.at + 1) - 1
  BY <1>1
<1> HIDE DEF t, b, c
<1>5. WriteReady(t)
  <2>1. s.data # << >> => \A i \in 1 .. (s.at + 1) - 1 : Len(s.blocks[i]) = BLOCK_SIZE
    BY <1>1, <1>4 DEF WriteReady, b
  <2> QED  BY <1>2, <1>4, <2>1 DEF WriteReady
<1>6. ASSUME NEW r, WriteMakes(t, r) PROVE WriteMakes(s, r)
  <2>1. /\ r \in BlockList /\ Packed(r) /\ Len(r) >= n /\ Len(r) \in Nat
        /\ \A i \in 1 .. (s.at + 1) - 1 : r[i] = s.blocks[i]
        /\ Rest(r, s.at + 1) = Overwrite(c, StartIn(s.offset - BLOCK_SIZE, c), s.data)
        /\ Len(r) = n \/ r[Len(r)] # << >>
    BY <1>2, <1>6, BlocksType DEF WriteMakes, c
  <2>2. s.at \in 1 .. Len(r) /\ r[s.at] = b
    BY <1>1, <1>4, <2>1 DEF b
  <2>3. Rest(r, s.at) = b \o Rest(r, s.at + 1)
    BY <2>1, <2>2, RestHere
  <2>4. Overwrite(b \o c, StartIn(s.offset, b \o c), s.data)
           = b \o Overwrite(c, StartIn(s.offset - BLOCK_SIZE, c), s.data)
    <3> DEFINE off == s.offset
               d == s.data
    <3>1. off \in Nat /\ off >= Len(b) /\ b \in Str /\ c \in Str /\ d \in Str
      BY <1>1
    <3> HIDE DEF off, d
    <3>2. Overwrite(b \o c, StartIn(off, b \o c), d) = b \o Overwrite(c, StartIn(off - Len(b), c), d)
      BY <3>1, OverwriteBehind
    <3> QED  BY <1>1, <3>2 DEF off, d
  <2>5. Rest(r, s.at) = Overwrite(Rest(s.blocks, s.at), StartIn(s.offset, Rest(s.blocks, s.at)), s.data)
    BY <1>3, <2>1, <2>3, <2>4, Zenon
  <2>6. \A i \in 1 .. s.at - 1 : r[i] = s.blocks[i]
    BY <1>4, <2>1
  <2> QED  BY <2>1, <2>5, <2>6 DEF WriteMakes
<1> QED  BY <1>5, <1>6 DEF t

LEMMA WriteCopyMakes ==
    ASSUME NEW s \in WriteState, WriteReady(s), WriteCopies(s)
    PROVE  WriteReady(WriteOn(s)) /\ \A r : WriteMakes(WriteOn(s), r) => WriteMakes(s, r)
<1> DEFINE t == WriteOn(s)
           n == Len(s.blocks)
           at == s.at
           off == s.offset
           from == WriteFrom(s)
           b == s.blocks[at]
           c == Rest(s.blocks, at + 1)
           d == WritePiece(s)
           e == WriteRest(s)
           x == WriteBlock(s)
<1>1. /\ s.blocks \in BlockList /\ n \in Nat /\ DOMAIN s.blocks = 1 .. n /\ off \in Nat
      /\ at \in 1 .. n /\ b \in Str /\ Len(b) \in 0 .. BLOCK_SIZE /\ c \in Str
  <2>1. s.blocks \in BlockList /\ n \in Nat /\ off \in Nat
    BY WriteFields
  <2>2. at \in 1 .. n
    BY WriteCopiesTo
  <2>3. at + 1 \in Nat \ {0}
    <3> HIDE DEF at, n
    <3> QED  BY <2>1, <2>2
  <2> QED  BY <2>1, <2>2, <2>3, BlocksType, RestType
<1>2. /\ from \in 0 .. Len(b) /\ from < BLOCK_SIZE /\ d \in Str /\ e \in Str /\ s.data = d \o e
      /\ Len(d) \in Nat /\ Len(e) \in Nat /\ from + Len(d) <= BLOCK_SIZE
      /\ from + Len(d) = BLOCK_SIZE \/ Len(e) = 0
      /\ x \in Block /\ x = Overwrite(b, from, d)
  <2>1. /\ from \in 0 .. Len(b) /\ from < BLOCK_SIZE /\ d \in Str /\ e \in Str /\ s.data = d \o e
        /\ Len(d) = WriteFits(s) /\ from + WriteFits(s) <= BLOCK_SIZE
        /\ from + WriteFits(s) = BLOCK_SIZE \/ Len(e) = 0
        /\ x \in Block
    BY WriteCopiesTo
  <2> QED  BY <2>1, StrType DEF WriteBlock
<1>3. /\ t.blocks = [s.blocks EXCEPT ![at] = x] /\ t.at = at + 1 /\ t.offset = 0 /\ t.data = e
  BY WriteCopiesTo
<1>4. /\ Packed(s.blocks) /\ \A i \in 1 .. at - 1 : Len(s.blocks[i]) = BLOCK_SIZE
  BY DEF WriteReady, WriteCopies, WriteDone
<1>5. Rest(s.blocks, at) = b \o c /\ (Len(b) < BLOCK_SIZE => c = << >>)
  BY <1>1, <1>4, RestHere, RestOfRoom
<1>6. from = IF off < Len(b) THEN off ELSE Len(b)
  BY DEF WriteFrom, StartIn, Least
<1> HIDE DEF t, n, at, off, from, b, c, d, e, x
<1>7. /\ t.blocks \in BlockList /\ Len(t.blocks) = n /\ DOMAIN t.blocks = 1 .. n
      /\ \A i \in 1 .. n : t.blocks[i] = IF i = at THEN x ELSE s.blocks[i]
  <2> DEFINE bs == s.blocks
             y == [bs EXCEPT ![at] = x]
  <2>1. bs \in BlockList /\ Len(bs) = n /\ at \in 1 .. Len(bs) /\ x \in Block
    BY <1>1, <1>2 DEF n
  <2> HIDE DEF bs
  <2>2. /\ y \in BlockList /\ Len(y) = Len(bs)
        /\ \A i \in 1 .. Len(bs) : y[i] = IF i = at THEN x ELSE bs[i]
    <3>1. \A k \in 1 .. Len(bs) : \A z \in Block :
             /\ [bs EXCEPT ![k] = z] \in BlockList
             /\ Len([bs EXCEPT ![k] = z]) = Len(bs)
      BY <2>1, BlocksExcept
    <3>2. \A k \in 1 .. Len(bs) : \A z \in Block : \A i \in 1 .. Len(bs) :
             [bs EXCEPT ![k] = z][i] = IF i = k THEN z ELSE bs[i]
      BY <2>1, BlocksExcept
    <3>3. y \in BlockList /\ Len(y) = Len(bs)
      BY <2>1, <3>1, Zenon
    <3>4. \A i \in 1 .. Len(bs) : y[i] = IF i = at THEN x ELSE bs[i]
      BY <2>1, <3>2
    <3> QED  BY <3>3, <3>4, Zenon
  <2> HIDE DEF y
  <2>3. DOMAIN y = 1 .. Len(y)
    BY <2>2, BlocksType
  <2>4. t.blocks = y
    BY <1>3 DEF y, bs
  <2> QED  BY <2>1, <2>2, <2>3, <2>4 DEF bs
<1>8. /\ x \in Str /\ Len(x) \in Nat
      /\ from + Len(d) >= Len(b) => Len(x) = from + Len(d)
      /\ from + Len(d) < Len(b) => Len(x) = Len(b)
  BY <1>1, <1>2, OverwriteIs, StrType
<1>9. Len(b) = BLOCK_SIZE \/ from + Len(d) = BLOCK_SIZE => Len(x) = BLOCK_SIZE
  BY <1>1, <1>2, <1>8
<1>10. at \in Nat \ {0} /\ at + 1 \in Nat \ {0} /\ at + 1 <= n + 1 /\ at \in 1 .. (at + 1) - 1
  BY <1>1
<1>11. \A i \in 1 .. at - 1 : t.blocks[i] = s.blocks[i]
  BY <1>1, <1>7
<1>12. WriteReady(t)
  <2>1. ASSUME NEW i \in 1 .. n, NEW j \in 1 .. n, i < j, t.blocks[j] # << >>
        PROVE  Len(t.blocks[i]) = BLOCK_SIZE
    <3>1. CASE i = at
      <4>1. s.blocks[j] # << >>
        BY <1>1, <1>7, <2>1, <3>1
      <4>2. Len(b) = BLOCK_SIZE
        BY <1>1, <1>4, <2>1, <3>1, <4>1 DEF Packed, b
      <4> QED  BY <1>7, <1>9, <3>1, <4>2
    <3>2. CASE j = at
      <4>1. i \in 1 .. at - 1
        BY <1>1, <2>1, <3>2
      <4> QED  BY <1>4, <1>11, <4>1
    <3>3. CASE i # at /\ j # at
      <4>1. t.blocks[i] = s.blocks[i] /\ t.blocks[j] = s.blocks[j]
        BY <1>7, <3>3
      <4> QED  BY <1>1, <1>4, <2>1, <4>1 DEF Packed
    <3> QED  BY <3>1, <3>2, <3>3
  <2>2. Packed(t.blocks)
    BY <1>7, <2>1 DEF Packed
  <2>3. ASSUME e # << >>, NEW i \in 1 .. (at + 1) - 1 PROVE Len(t.blocks[i]) = BLOCK_SIZE
    <3>1. CASE i = at
      <4>1. from + Len(d) = BLOCK_SIZE
        BY <1>2, <2>3, StrType
      <4> QED  BY <1>1, <1>7, <1>9, <3>1, <4>1
    <3>2. CASE i # at
      <4>1. i \in 1 .. at - 1
        BY <1>10, <3>2
      <4> QED  BY <1>4, <1>11, <4>1
    <3> QED  BY <3>1, <3>2
  <2> QED  BY <1>3, <1>7, <1>10, <2>2, <2>3 DEF WriteReady
<1>13. Rest(t.blocks, at + 1) = c
  <2>1. \A j \in at + 1 .. Len(t.blocks) : t.blocks[j] = s.blocks[j]
    BY <1>1, <1>7, <1>10
  <2> QED  BY <1>1, <1>7, <1>10, <2>1, RestSame DEF c, n
<1>14. StartIn(0, c) = 0 /\ StartIn(off, b \o c) = from
  <2>1. Len(b \o c) = Len(b) + Len(c) /\ Len(c) \in Nat /\ (Len(b) < BLOCK_SIZE => Len(c) = 0)
    BY <1>1, <1>5, StrConcat, StrType
  <2>2. StartIn(0, c) = 0
    BY <2>1 DEF StartIn, Least
  <2>3. StartIn(off, b \o c) = from
    BY <1>1, <1>2, <1>6, <2>1 DEF StartIn, Least
  <2> QED  BY <2>2, <2>3
<1>15. Overwrite(b, from, d) \o Overwrite(c, 0, e) = Overwrite(b \o c, from, d \o e)
  <2>1. Splits(b, c, from, d, e)
    <3>1. Len(b) < BLOCK_SIZE => Len(c) = 0
      BY <1>5, StrType
    <3> QED  BY <1>1, <1>2, <3>1 DEF Splits
  <2>2. b \in Str /\ c \in Str /\ d \in Str /\ e \in Str /\ from \in 0 .. Len(b)
    BY <1>1, <1>2
  <2> QED  BY <2>1, <2>2, OverwriteSplit
<1>16. ASSUME NEW r, WriteMakes(t, r) PROVE WriteMakes(s, r)
  <2>1. /\ r \in BlockList /\ Packed(r) /\ Len(r) >= n /\ Len(r) \in Nat
        /\ \A i \in 1 .. (at + 1) - 1 : r[i] = t.blocks[i]
        /\ Rest(r, at + 1) = Overwrite(c, 0, e)
        /\ Len(r) = n \/ r[Len(r)] # << >>
    BY <1>3, <1>7, <1>13, <1>14, <1>16, BlocksType DEF WriteMakes
  <2>2. at \in 1 .. Len(r) /\ r[at] = x
    BY <1>1, <1>7, <1>10, <2>1
  <2>3. Rest(r, at) = x \o Rest(r, at + 1)
    BY <2>1, <2>2, RestHere
  <2>4. Rest(r, at) = Overwrite(b \o c, from, s.data)
    BY <1>2, <1>15, <2>1, <2>3, Zenon
  <2>5. Rest(r, at) = Overwrite(Rest(s.blocks, at), StartIn(off, Rest(s.blocks, at)), s.data)
    BY <1>5, <1>14, <2>4, Zenon
  <2>6. \A i \in 1 .. at - 1 : r[i] = s.blocks[i]
    BY <1>10, <1>11, <2>1
  <2> QED  BY <2>1, <2>5, <2>6 DEF WriteMakes, at, off, n
<1> QED  BY <1>12, <1>16 DEF t

LEMMA WriteIs == \A s \in WriteState : WriteReady(s) => WriteMakes(s, WriteLoop[s])
<1> DEFINE m == [s \in WriteState |-> WriteLeft(s)]
           T == {s \in WriteState : WriteReady(s) => WriteMakes(s, WriteLoop[s])}
<1>1. m \in [WriteState -> Nat] /\ \A s \in WriteState : m[s] = WriteLeft(s)
  BY WriteFields
<1> HIDE DEF m
<1>2. ASSUME NEW s \in WriteState, \A y \in WriteState : m[y] < m[s] => y \in T, WriteReady(s)
      PROVE  WriteMakes(s, WriteLoop[s])
  <2>1. \A t \in WriteState : WriteLeft(t) < WriteLeft(s) /\ WriteReady(t) => WriteMakes(t, WriteLoop[t])
    BY <1>1, <1>2
  <2>2. WriteLoop[s] = WriteBody(s, WriteLoop)
    BY WriteUnfolds
  <2>3. CASE WriteDone(s)
    BY <1>2, <2>2, <2>3, WriteTurn, WriteEnds
  <2>4. CASE WriteGrows(s)
    <3>1. WriteGrow(s) \in WriteState /\ WriteLeft(WriteGrow(s)) < WriteLeft(s)
      BY <2>4, WriteGrowTo
    <3>2. WriteReady(WriteGrow(s)) /\ \A r : WriteMakes(WriteGrow(s), r) => WriteMakes(s, r)
      BY <1>2, <2>4, WriteGrowMakes
    <3>3. WriteLoop[s] = WriteLoop[WriteGrow(s)]
      BY <2>2, <2>4, WriteTurn
    <3> QED  BY <2>1, <3>1, <3>2, <3>3
  <2>5. CASE WriteSkips(s)
    <3>1. WriteSkip(s) \in WriteState /\ WriteLeft(WriteSkip(s)) < WriteLeft(s)
      BY <2>5, WriteSkipTo
    <3>2. WriteReady(WriteSkip(s)) /\ \A r : WriteMakes(WriteSkip(s), r) => WriteMakes(s, r)
      BY <1>2, <2>5, WriteSkipMakes
    <3>3. WriteLoop[s] = WriteLoop[WriteSkip(s)]
      BY <2>2, <2>5, WriteTurn
    <3> QED  BY <2>1, <3>1, <3>2, <3>3
  <2>6. CASE WriteCopies(s)
    <3>1. WriteOn(s) \in WriteState /\ WriteLeft(WriteOn(s)) < WriteLeft(s)
      BY <2>6, WriteCopiesTo
    <3>2. WriteReady(WriteOn(s)) /\ \A r : WriteMakes(WriteOn(s), r) => WriteMakes(s, r)
      BY <1>2, <2>6, WriteCopyMakes
    <3>3. WriteLoop[s] = WriteLoop[WriteOn(s)]
      BY <2>2, <2>6, WriteTurn
    <3> QED  BY <2>1, <3>1, <3>2, <3>3
  <2> QED  BY <2>3, <2>4, <2>5, <2>6, WriteTurn
<1>3. ASSUME NEW s \in WriteState, \A y \in WriteState : m[y] < m[s] => y \in T PROVE s \in T
  BY <1>2, <1>3
<1>4. WriteState \subseteq T
  <2> HIDE DEF T
  <2> QED  BY <1>1, <1>3, MeasureInduction
<1> QED  BY <1>4

\* ufs_write overwrites the bytes of the file from the offset on, or at its end
\* when the offset is behind it, and keeps the blocks filled in order (171-224).
THEOREM WrittenIs ==
    ASSUME NEW blocks \in BlockList, Packed(blocks), NEW off \in Nat, NEW data \in Str
    PROVE  /\ Written(blocks, off, data) \in BlockList /\ Packed(Written(blocks, off, data))
           /\ Flat(Written(blocks, off, data))
                 = Overwrite(Flat(blocks), StartIn(off, Flat(blocks)), data)
           /\ \/ Len(Written(blocks, off, data)) = Len(blocks)
              \/ Written(blocks, off, data)[Len(Written(blocks, off, data))] # << >>
<1> DEFINE s == [blocks |-> blocks, at |-> 1, offset |-> off, data |-> data]
<1>1. s \in WriteState
  BY DEF WriteState, Str
<1>2. s.blocks = blocks /\ s.at = 1 /\ s.offset = off /\ s.data = data
  OBVIOUS
<1>3. Written(blocks, off, data) = WriteLoop[s]
  BY DEF Written
<1> HIDE DEF s
<1>4. WriteReady(s)
  <2>1. 1 <= Len(blocks) + 1 /\ \A i \in 1 .. 1 - 1 : FALSE
    BY BlocksType
  <2> QED  BY <1>2, <2>1 DEF WriteReady
<1>5. WriteMakes(s, WriteLoop[s])
  BY <1>1, <1>4, WriteIs
<1>6. Rest(WriteLoop[s], 1) = Flat(WriteLoop[s]) /\ Rest(blocks, 1) = Flat(blocks)
  BY <1>5, RestWhole DEF WriteMakes
<1> QED  BY <1>2, <1>3, <1>5, <1>6 DEF WriteMakes
-----------------------------------------------------------------------------
(* ufs_resize (372-441)                                                    *)

ResizeGrow(s) == [blocks |-> Append(s.blocks, << >>), at |-> s.at + 1, size |-> s.size - BLOCK_SIZE]
ResizeSkip(s) == [s EXCEPT !.at = @ + 1, !.size = @ - BLOCK_SIZE]
ResizeCut(s)  == [blocks |-> [s.blocks EXCEPT ![s.at] = SubSeq(@, 1, s.size)], at |-> s.at + 1, size |-> 0]
ResizeWalk(s) == [s EXCEPT !.at = @ + 1]
Stopped(s)    == [endless |-> FALSE, blocks |-> SubSeq(s.blocks, 1, s.at - 1)]

ResizeBody(s, g) ==
    IF s.size = 0 THEN Stopped(s)
    ELSE IF s.at > Len(s.blocks)
    THEN IF s.size < BLOCK_SIZE THEN Endless ELSE g[ResizeGrow(s)]
    ELSE IF s.size >= BLOCK_SIZE THEN g[ResizeSkip(s)]
    ELSE IF Cuts(s.size, s.blocks[s.at]) THEN g[ResizeCut(s)]
    ELSE g[ResizeWalk(s)]

\* The six ways a turn goes.
ResizeDone(s)  == s.size = 0
ResizeOff(s)   == ~ResizeDone(s) /\ s.at > Len(s.blocks) /\ s.size < BLOCK_SIZE
ResizeGrows(s) == ~ResizeDone(s) /\ s.at > Len(s.blocks) /\ ~ (s.size < BLOCK_SIZE)
ResizeSkips(s) == ~ResizeDone(s) /\ ~ (s.at > Len(s.blocks)) /\ s.size >= BLOCK_SIZE
ResizeCuts(s)  == /\ ~ResizeDone(s) /\ ~ (s.at > Len(s.blocks)) /\ ~ (s.size >= BLOCK_SIZE)
                  /\ Cuts(s.size, s.blocks[s.at])
ResizeWalks(s) == /\ ~ResizeDone(s) /\ ~ (s.at > Len(s.blocks)) /\ ~ (s.size >= BLOCK_SIZE)
                  /\ ~Cuts(s.size, s.blocks[s.at])

LEMMA ResizeTurn ==
    \A s : /\ \/ ResizeDone(s) \/ ResizeOff(s) \/ ResizeGrows(s)
              \/ ResizeSkips(s) \/ ResizeCuts(s) \/ ResizeWalks(s)
           /\ \A g : /\ ResizeDone(s) => ResizeBody(s, g) = Stopped(s)
                     /\ ResizeOff(s) => ResizeBody(s, g) = Endless
                     /\ ResizeGrows(s) => ResizeBody(s, g) = g[ResizeGrow(s)]
                     /\ ResizeSkips(s) => ResizeBody(s, g) = g[ResizeSkip(s)]
                     /\ ResizeCuts(s) => ResizeBody(s, g) = g[ResizeCut(s)]
                     /\ ResizeWalks(s) => ResizeBody(s, g) = g[ResizeWalk(s)]
<1> USE DEF ResizeDone, ResizeOff, ResizeGrows, ResizeSkips, ResizeCuts, ResizeWalks
<1>1. ASSUME NEW s
      PROVE  \/ ResizeDone(s) \/ ResizeOff(s) \/ ResizeGrows(s)
             \/ ResizeSkips(s) \/ ResizeCuts(s) \/ ResizeWalks(s)
  BY Zenon
<1>2. ASSUME NEW s, NEW g
      PROVE  /\ ResizeDone(s) => ResizeBody(s, g) = Stopped(s)
             /\ ResizeOff(s) => ResizeBody(s, g) = Endless
             /\ ResizeGrows(s) => ResizeBody(s, g) = g[ResizeGrow(s)]
  BY Zenon DEF ResizeBody
<1>3. ASSUME NEW s, NEW g
      PROVE  /\ ResizeSkips(s) => ResizeBody(s, g) = g[ResizeSkip(s)]
             /\ ResizeCuts(s) => ResizeBody(s, g) = g[ResizeCut(s)]
             /\ ResizeWalks(s) => ResizeBody(s, g) = g[ResizeWalk(s)]
  BY Zenon DEF ResizeBody
<1> HIDE DEF ResizeDone, ResizeOff, ResizeGrows, ResizeSkips, ResizeCuts, ResizeWalks
<1> QED  BY <1>1, <1>2, <1>3

ResizeLeft(s) == s.size + BlocksLeft(s)

LEMMA ResizeFields ==
    \A s \in ResizeState : /\ s.blocks \in BlockList /\ s.at \in Nat \ {0} /\ s.size \in Nat
                           /\ Len(s.blocks) \in Nat /\ BlocksLeft(s) \in Nat /\ ResizeLeft(s) \in Nat
<1> SUFFICES ASSUME NEW s \in ResizeState
             PROVE  /\ s.blocks \in BlockList /\ s.at \in Nat \ {0} /\ s.size \in Nat
                    /\ Len(s.blocks) \in Nat /\ BlocksLeft(s) \in Nat /\ ResizeLeft(s) \in Nat
  OBVIOUS
<1>1. s.blocks \in BlockList /\ s.at \in Nat \ {0} /\ s.size \in Nat
  BY DEF ResizeState
<1>2. Len(s.blocks) \in Nat
  BY <1>1, BlocksType
<1>3. BlocksLeft(s) \in Nat
  BY <1>1, <1>2 DEF BlocksLeft
<1>4. ResizeLeft(s) \in Nat
  BY <1>1, <1>3 DEF ResizeLeft
<1> QED  BY <1>1, <1>2, <1>3, <1>4

LEMMA ResizeGrowTo ==
    ASSUME NEW s \in ResizeState, ResizeGrows(s)
    PROVE  /\ s.at > Len(s.blocks) /\ s.size >= BLOCK_SIZE
           /\ ResizeGrow(s) \in ResizeState /\ ResizeLeft(ResizeGrow(s)) < ResizeLeft(s)
           /\ ResizeGrow(s).blocks = Append(s.blocks, << >>)
           /\ ResizeGrow(s).at = s.at + 1 /\ ResizeGrow(s).size = s.size - BLOCK_SIZE
<1>1. /\ s.blocks \in BlockList /\ s.at \in Nat \ {0} /\ s.size \in Nat /\ Len(s.blocks) \in Nat
      /\ s.at > Len(s.blocks) /\ ~ (s.size < BLOCK_SIZE) /\ BlocksLeft(s) \in Nat
  BY ResizeFields DEF ResizeGrows
<1>2. Append(s.blocks, << >>) \in BlockList /\ Len(Append(s.blocks, << >>)) = Len(s.blocks) + 1
  BY <1>1, BlocksAppend
<1> DEFINE t == ResizeGrow(s)
<1>3. /\ t \in ResizeState /\ t.blocks = Append(s.blocks, << >>) /\ t.at = s.at + 1
      /\ t.size = s.size - BLOCK_SIZE
  <2>1. s.size - BLOCK_SIZE \in Nat /\ s.at + 1 \in Nat \ {0}
    BY <1>1
  <2> QED  BY <1>2, <2>1 DEF ResizeGrow, ResizeState
<1> HIDE DEF t
<1>4. BlocksLeft(t) = 0
  BY <1>1, <1>2, <1>3 DEF BlocksLeft
<1>5. ResizeLeft(t) < ResizeLeft(s)
  BY <1>1, <1>3, <1>4 DEF ResizeLeft
<1> QED  BY <1>1, <1>3, <1>5 DEF t

LEMMA ResizeSkipTo ==
    ASSUME NEW s \in ResizeState, ResizeSkips(s)
    PROVE  /\ s.at \in 1 .. Len(s.blocks) /\ s.size >= BLOCK_SIZE
           /\ ResizeSkip(s) \in ResizeState /\ ResizeLeft(ResizeSkip(s)) < ResizeLeft(s)
           /\ ResizeSkip(s).blocks = s.blocks
           /\ ResizeSkip(s).at = s.at + 1 /\ ResizeSkip(s).size = s.size - BLOCK_SIZE
<1>1. /\ s.blocks \in BlockList /\ s.at \in Nat \ {0} /\ s.size \in Nat /\ Len(s.blocks) \in Nat
      /\ ~ (s.at > Len(s.blocks)) /\ s.size >= BLOCK_SIZE /\ BlocksLeft(s) \in Nat
  BY ResizeFields DEF ResizeSkips
<1> DEFINE t == ResizeSkip(s)
<1>2. /\ t \in ResizeState /\ t.blocks = s.blocks /\ t.at = s.at + 1 /\ t.size = s.size - BLOCK_SIZE
  <2>1. s.size - BLOCK_SIZE \in Nat /\ s.at + 1 \in Nat \ {0}
    BY <1>1
  <2> QED  BY <2>1 DEF ResizeSkip, ResizeState
<1> HIDE DEF t
<1>3. BlocksLeft(t) < BlocksLeft(s) /\ BlocksLeft(t) \in Nat
  BY <1>1, <1>2 DEF BlocksLeft
<1>4. ResizeLeft(t) < ResizeLeft(s)
  BY <1>1, <1>2, <1>3 DEF ResizeLeft
<1> QED  BY <1>1, <1>2, <1>4 DEF t

\* The block that is cut, and that nothing is left to do behind it.
LEMMA ResizeCutTo ==
    ASSUME NEW s \in ResizeState, ResizeCuts(s)
    PROVE  /\ s.at \in 1 .. Len(s.blocks) /\ s.size \in 1 .. Len(s.blocks[s.at]) - 1
           /\ ResizeCut(s) \in ResizeState /\ ResizeLeft(ResizeCut(s)) < ResizeLeft(s)
           /\ Len(ResizeCut(s).blocks) = Len(s.blocks)
           /\ \A i \in 1 .. Len(s.blocks) :
                 ResizeCut(s).blocks[i] = IF i = s.at THEN SubSeq(s.blocks[s.at], 1, s.size) ELSE s.blocks[i]
           /\ ResizeCut(s).at = s.at + 1 /\ ResizeCut(s).size = 0
<1> DEFINE bs == s.blocks
           at == s.at
           b == bs[at]
           x == SubSeq(b, 1, s.size)
           y == [bs EXCEPT ![at] = x]
           t == ResizeCut(s)
<1>1. /\ bs \in BlockList /\ s.size \in Nat \ {0} /\ Len(bs) \in Nat
      /\ at \in 1 .. Len(bs) /\ s.size < BLOCK_SIZE /\ BlocksLeft(s) \in Nat
  <2>1. /\ bs \in BlockList /\ at \in Nat \ {0} /\ s.size \in Nat /\ Len(bs) \in Nat
        /\ ~ (at > Len(bs)) /\ ~ (s.size >= BLOCK_SIZE) /\ BlocksLeft(s) \in Nat /\ s.size # 0
    BY ResizeFields DEF ResizeCuts, ResizeDone
  <2> HIDE DEF bs, at
  <2> QED  BY <2>1
<1>2. b \in Str /\ Len(b) \in Nat /\ s.size < Len(b)
  BY <1>1, BlocksType DEF ResizeCuts, Cuts
<1>3. x \in Str /\ Len(x) = s.size
  <2>1. s.size \in 0 .. Len(b) /\ 1 \in Nat \ {0} /\ 1 <= s.size /\ s.size - 1 + 1 = s.size
    BY <1>1, <1>2
  <2> QED  BY <1>2, <2>1, StrSub
<1>4. x \in Block
  BY <1>1, <1>3 DEF Block, Str
<1>5. t = [blocks |-> y, at |-> at + 1, size |-> 0]
  BY <1>1 DEF ResizeCut, BlockList
<1> HIDE DEF bs, at, b, x
<1>6. /\ y \in BlockList /\ Len(y) = Len(bs)
      /\ \A i \in 1 .. Len(bs) : y[i] = IF i = at THEN x ELSE bs[i]
  <2>1. \A k \in 1 .. Len(bs) : \A z \in Block :
           /\ [bs EXCEPT ![k] = z] \in BlockList
           /\ Len([bs EXCEPT ![k] = z]) = Len(bs)
    BY <1>1, BlocksExcept
  <2>e. \A k \in 1 .. Len(bs) : \A z \in Block : \A i \in 1 .. Len(bs) :
           [bs EXCEPT ![k] = z][i] = IF i = k THEN z ELSE bs[i]
    BY <1>1, BlocksExcept
  <2>2. at \in 1 .. Len(bs)
    BY <1>1
  <2>3. y \in BlockList /\ Len(y) = Len(bs)
    BY <1>4, <2>1, <2>2, Zenon
  <2>4. \A i \in 1 .. Len(bs) : y[i] = IF i = at THEN x ELSE bs[i]
    BY <1>4, <2>2, <2>e
  <2> QED  BY <2>3, <2>4, Zenon
<1> HIDE DEF y, t
<1>7. t \in ResizeState /\ t.blocks = y /\ t.at = at + 1 /\ t.size = 0
  <2>1. at + 1 \in Nat \ {0} /\ 0 \in Nat
    BY <1>1
  <2> QED  BY <1>5, <1>6, <2>1 DEF ResizeState
<1>8. BlocksLeft(t) < BlocksLeft(s) /\ BlocksLeft(t) \in Nat
  <2>1. at = s.at /\ bs = s.blocks
    BY DEF at, bs
  <2> QED  BY <1>1, <1>6, <1>7, <2>1 DEF BlocksLeft
<1>9. ResizeLeft(t) < ResizeLeft(s)
  BY <1>1, <1>7, <1>8 DEF ResizeLeft
<1>10. s.size \in 1 .. Len(b) - 1
  BY <1>1, <1>2
<1> QED  BY <1>1, <1>6, <1>7, <1>9, <1>10, Zenon DEF t, y, x, b, at, bs

LEMMA ResizeWalkTo ==
    ASSUME NEW s \in ResizeState, ResizeWalks(s)
    PROVE  /\ s.at \in 1 .. Len(s.blocks) /\ s.size \in Nat \ {0} /\ s.size < BLOCK_SIZE
           /\ s.size >= Len(s.blocks[s.at])
           /\ ResizeWalk(s) \in ResizeState /\ ResizeLeft(ResizeWalk(s)) < ResizeLeft(s)
           /\ ResizeWalk(s).blocks = s.blocks
           /\ ResizeWalk(s).at = s.at + 1 /\ ResizeWalk(s).size = s.size
<1>1. /\ s.blocks \in BlockList /\ s.at \in Nat \ {0} /\ s.size \in Nat \ {0} /\ Len(s.blocks) \in Nat
      /\ ~ (s.at > Len(s.blocks)) /\ ~ (s.size >= BLOCK_SIZE) /\ BlocksLeft(s) \in Nat
  BY ResizeFields DEF ResizeWalks, ResizeDone
<1>2. s.at \in 1 .. Len(s.blocks)
  BY <1>1
<1>3. s.size >= Len(s.blocks[s.at])
  <2>1. Len(s.blocks[s.at]) \in Nat /\ ~ (s.size < Len(s.blocks[s.at]))
    BY <1>1, <1>2, BlocksType DEF ResizeWalks, Cuts
  <2> QED  BY <1>1, <2>1
<1> DEFINE t == ResizeWalk(s)
<1>4. t \in ResizeState /\ t.blocks = s.blocks /\ t.at = s.at + 1 /\ t.size = s.size
  <2>1. s.at + 1 \in Nat \ {0}
    BY <1>1
  <2> QED  BY <2>1 DEF ResizeWalk, ResizeState
<1> HIDE DEF t
<1>5. BlocksLeft(t) < BlocksLeft(s) /\ BlocksLeft(t) \in Nat
  BY <1>1, <1>4 DEF BlocksLeft
<1>6. ResizeLeft(t) < ResizeLeft(s)
  BY <1>1, <1>4, <1>5 DEF ResizeLeft
<1> QED  BY <1>1, <1>2, <1>3, <1>4, <1>6 DEF t

\* ResizeLoop is one turn of the loop and the rest of it.
LEMMA ResizeUnfolds == \A s \in ResizeState : ResizeLoop[s] = ResizeBody(s, ResizeLoop)
<1> DEFINE V == {Endless} \cup {Stopped(s) : s \in ResizeState}
           m == [s \in ResizeState |-> ResizeLeft(s)]
           F == [s \in ResizeState |-> [g \in [ResizeState -> V] |-> ResizeBody(s, g)]]
<1>1. m \in [ResizeState -> Nat] /\ \A s \in ResizeState : m[s] = ResizeLeft(s)
  BY ResizeFields
<1>2. ASSUME NEW s \in ResizeState, NEW g \in [ResizeState -> V] PROVE ResizeBody(s, g) \in V
  <2>1. CASE ResizeDone(s) \/ ResizeOff(s)
    <3>1. Stopped(s) \in V /\ Endless \in V
      OBVIOUS
    <3> QED  BY <2>1, <3>1, ResizeTurn
  <2> HIDE DEF V
  <2>2. CASE ResizeGrows(s)
    <3>1. ResizeGrow(s) \in ResizeState
      BY <2>2, ResizeGrowTo
    <3> QED  BY <2>2, <3>1, ResizeTurn
  <2>3. CASE ResizeSkips(s)
    <3>1. ResizeSkip(s) \in ResizeState
      BY <2>3, ResizeSkipTo
    <3> QED  BY <2>3, <3>1, ResizeTurn
  <2>4. CASE ResizeCuts(s)
    <3>1. ResizeCut(s) \in ResizeState
      BY <2>4, ResizeCutTo
    <3> QED  BY <2>4, <3>1, ResizeTurn
  <2>5. CASE ResizeWalks(s)
    <3>1. ResizeWalk(s) \in ResizeState
      BY <2>5, ResizeWalkTo
    <3> QED  BY <2>5, <3>1, ResizeTurn
  <2> QED  BY <2>1, <2>2, <2>3, <2>4, <2>5, ResizeTurn
<1>3. V # {}
  OBVIOUS
<1> HIDE DEF V
<1>4. F \in [ResizeState -> [[ResizeState -> V] -> V]]
  BY <1>2
<1>5. \A s \in ResizeState : \A g \in [ResizeState -> V] : F[s][g] = ResizeBody(s, g)
  OBVIOUS
<1> HIDE DEF m, F
<1>6. LooksBelow(ResizeState, V, m, F)
  <2> SUFFICES ASSUME NEW s \in ResizeState, NEW g \in [ResizeState -> V],
                      NEW h \in [ResizeState -> V],
                      \A y \in ResizeState : m[y] < m[s] => g[y] = h[y]
               PROVE  ResizeBody(s, g) = ResizeBody(s, h)
    BY <1>5 DEF LooksBelow
  <2>1. CASE ResizeDone(s) \/ ResizeOff(s)
    BY <2>1, ResizeTurn
  <2>2. CASE ResizeGrows(s)
    <3>1. g[ResizeGrow(s)] = h[ResizeGrow(s)]
      BY <1>1, <2>2, ResizeGrowTo
    <3> QED  BY <2>2, <3>1, ResizeTurn
  <2>3. CASE ResizeSkips(s)
    <3>1. g[ResizeSkip(s)] = h[ResizeSkip(s)]
      BY <1>1, <2>3, ResizeSkipTo
    <3> QED  BY <2>3, <3>1, ResizeTurn
  <2>4. CASE ResizeCuts(s)
    <3>1. ResizeCut(s) \in ResizeState /\ ResizeLeft(ResizeCut(s)) < ResizeLeft(s)
      BY <2>4, ResizeCutTo
    <3>2. g[ResizeCut(s)] = h[ResizeCut(s)]
      BY <1>1, <3>1
    <3> QED  BY <2>4, <3>2, ResizeTurn
  <2>5. CASE ResizeWalks(s)
    <3>1. g[ResizeWalk(s)] = h[ResizeWalk(s)]
      BY <1>1, <2>5, ResizeWalkTo
    <3> QED  BY <2>5, <3>1, ResizeTurn
  <2> QED  BY <2>1, <2>2, <2>3, <2>4, <2>5, ResizeTurn
<1>7. PICK f \in [ResizeState -> V] : Fixes(ResizeState, F, f)
  BY <1>1, <1>3, <1>4, <1>6, Recursion
<1>8. f = [s \in ResizeState |-> ResizeBody(s, f)]
  BY <1>5, <1>7 DEF Fixes
<1>9. ResizeLoop = [s \in ResizeState |-> ResizeBody(s, ResizeLoop)]
  <2>1. \E g : g = [s \in ResizeState |-> ResizeBody(s, g)]
    BY <1>8
  <2> QED  BY <2>1, Zenon DEF ResizeLoop, ResizeBody, ResizeGrow, ResizeSkip, ResizeCut, ResizeWalk, Stopped
<1> QED  BY <1>9

\* The walk gets to the end of the list with bytes that fill no block.
Odd(size, r) == (size % BLOCK_SIZE) # 0 /\ size >= Len(r)

\* What the walk counts on: blocks filled in order, behind a cut only before it.
InOrder(blocks, k) ==
    \A i, j \in 1 .. k : i < j /\ blocks[j] # << >> => Len(blocks[i]) = BLOCK_SIZE

ResizeReady(s) ==
    /\ s.at <= Len(s.blocks) + 1
    /\ InOrder(s.blocks, s.at - 1)
    /\ s.size # 0 => InOrder(s.blocks, Len(s.blocks))

\* What it leaves of the blocks, when it ends.
ResizeKept(s, r) ==
    /\ r \in BlockList /\ Packed(r) /\ Len(r) >= s.at - 1
    /\ (Len(r) - (s.at - 1)) * BLOCK_SIZE < s.size + BLOCK_SIZE
    /\ \A i \in 1 .. s.at - 1 : r[i] = s.blocks[i]
    /\ Rest(r, s.at) = SubSeq(Rest(s.blocks, s.at), 1, Least(s.size, Len(Rest(s.blocks, s.at))))

ResizeMakes(s, v) ==
    /\ Odd(s.size, Rest(s.blocks, s.at)) => v = Endless
    /\ ~Odd(s.size, Rest(s.blocks, s.at)) => v.endless = FALSE /\ ResizeKept(s, v.blocks)

LEMMA InOrderPacked == \A blocks \in BlockList : InOrder(blocks, Len(blocks)) <=> Packed(blocks)
BY BlocksType DEF InOrder, Packed

LEMMA OddLess ==
    ASSUME NEW n \in Nat, n >= BLOCK_SIZE
    PROVE  ((n - BLOCK_SIZE) % BLOCK_SIZE) = (n % BLOCK_SIZE)
<1> DEFINE q == n \div BLOCK_SIZE
           x == n % BLOCK_SIZE
           p == (n - BLOCK_SIZE) \div BLOCK_SIZE
           y == (n - BLOCK_SIZE) % BLOCK_SIZE
<1>1. q \in Int /\ x \in 0 .. BLOCK_SIZE - 1 /\ n = BLOCK_SIZE * q + x
  OBVIOUS
<1>2. p \in Int /\ y \in 0 .. BLOCK_SIZE - 1 /\ n - BLOCK_SIZE = BLOCK_SIZE * p + y
  OBVIOUS
<1> HIDE DEF q, x, p, y
<1> DEFINE d == q - p - 1
<1>3. d \in Int /\ BLOCK_SIZE * d = y - x
  <2>1. BLOCK_SIZE * (q - p - 1) = BLOCK_SIZE * q - BLOCK_SIZE * p - BLOCK_SIZE
    BY <1>1, <1>2
  <2> QED  BY <1>1, <1>2, <2>1
<1> HIDE DEF d
<1>4. d = 0
  <2>1. BLOCK_SIZE * d < BLOCK_SIZE /\ BLOCK_SIZE * d > -BLOCK_SIZE
    BY <1>1, <1>2, <1>3
  <2>2. d >= 1 => BLOCK_SIZE * d >= BLOCK_SIZE
    BY <1>3
  <2>3. d <= -1 => BLOCK_SIZE * d <= -BLOCK_SIZE
    BY <1>3
  <2> QED  BY <1>3, <2>1, <2>2, <2>3
<1>5. x = y
  BY <1>1, <1>2, <1>3, <1>4
<1> QED  BY <1>5 DEF x, y

LEMMA ResizeEnds ==
    ASSUME NEW s \in ResizeState, ResizeReady(s), ResizeDone(s) PROVE ResizeMakes(s, Stopped(s))
<1> DEFINE k == s.at - 1
           r == SubSeq(s.blocks, 1, k)
           q == Rest(s.blocks, s.at)
<1>1. /\ s.blocks \in BlockList /\ Len(s.blocks) \in Nat /\ s.at \in Nat \ {0} /\ s.size = 0
      /\ k \in 0 .. Len(s.blocks) /\ q \in Str /\ Len(q) \in Nat
  <2>1. s.blocks \in BlockList /\ Len(s.blocks) \in Nat /\ s.at \in Nat \ {0} /\ s.size = 0
    BY ResizeFields DEF ResizeDone
  <2>2. q \in Str /\ Len(q) \in Nat
    BY <2>1, RestType, StrType
  <2> HIDE DEF q
  <2> QED  BY <2>1, <2>2 DEF ResizeReady
<1>2. r \in BlockList /\ Len(r) = k /\ \A i \in 1 .. k : r[i] = s.blocks[i]
  BY <1>1, BlocksCut
<1>3. Stopped(s).endless = FALSE /\ Stopped(s).blocks = r
  BY DEF Stopped
<1> HIDE DEF r, q
<1>4. Packed(r)
  <2>1. InOrder(r, Len(r))
    BY <1>1, <1>2 DEF InOrder, ResizeReady
  <2> QED  BY <1>2, <2>1, InOrderPacked
<1>5. Rest(r, s.at) = << >>
  <2>1. s.at > Len(r)
    BY <1>1, <1>2
  <2> QED  BY <1>1, <1>2, <2>1, RestBehind
<1>6. SubSeq(q, 1, Least(0, Len(q))) = << >>
  <2>1. Least(0, Len(q)) = 0
    BY <1>1 DEF Least
  <2>2. SubSeq(q, 1, 0) = << >>
    BY <1>1, SubEmpty
  <2> QED  BY <2>1, <2>2
<1>7. ~Odd(s.size, q)
  BY <1>1 DEF Odd
<1>8. ResizeKept(s, r)
  <2>1. Len(r) >= s.at - 1 /\ (Len(r) - (s.at - 1)) * BLOCK_SIZE < s.size + BLOCK_SIZE
    <3>1. Len(r) = s.at - 1 /\ s.at \in Nat /\ s.size = 0 /\ 0 * BLOCK_SIZE = 0
      BY <1>1, <1>2
    <3>2. Len(r) - (s.at - 1) = 0
      BY <3>1
    <3> QED  BY <3>1, <3>2
  <2> QED  BY <1>1, <1>2, <1>4, <1>5, <1>6, <2>1 DEF ResizeKept, q
<1> QED  BY <1>3, <1>7, <1>8 DEF ResizeMakes, q

LEMMA ResizeOffMakes ==
    ASSUME NEW s \in ResizeState, ResizeReady(s), ResizeOff(s) PROVE ResizeMakes(s, Endless)
<1>1. /\ s.blocks \in BlockList /\ Len(s.blocks) \in Nat /\ s.at \in Nat \ {0} /\ s.size \in Nat \ {0}
      /\ s.at > Len(s.blocks) /\ s.size < BLOCK_SIZE
  BY ResizeFields DEF ResizeOff, ResizeDone
<1>2. Rest(s.blocks, s.at) = << >>
  BY <1>1, RestBehind
<1>3. Odd(s.size, << >>)
  <2>1. (s.size % BLOCK_SIZE) = s.size
    BY <1>1
  <2> QED  BY <1>1, <2>1, StrType DEF Odd
<1> QED  BY <1>2, <1>3 DEF ResizeMakes

LEMMA ResizeGrowMakes ==
    ASSUME NEW s \in ResizeState, ResizeReady(s), ResizeGrows(s)
    PROVE  ResizeReady(ResizeGrow(s)) /\ \A v : ResizeMakes(ResizeGrow(s), v) => ResizeMakes(s, v)
<1> DEFINE t == ResizeGrow(s)
           n == Len(s.blocks)
           size == s.size
<1>1. /\ s.blocks \in BlockList /\ n \in Nat /\ size \in Nat /\ s.at = n + 1 /\ size >= BLOCK_SIZE
  BY ResizeGrowTo, ResizeFields DEF ResizeReady
<1>2. t.blocks = Append(s.blocks, << >>) /\ t.at = s.at + 1 /\ t.size = size - BLOCK_SIZE
  BY ResizeGrowTo
<1>3. /\ t.blocks \in BlockList /\ Len(t.blocks) = n + 1
      /\ \A i \in 1 .. n : t.blocks[i] = s.blocks[i]
      /\ t.blocks[n + 1] = << >>
  BY <1>1, <1>2, BlocksAppend
<1>4. InOrder(s.blocks, n)
  BY <1>1 DEF ResizeReady
<1> HIDE DEF t, n, size
<1>5. InOrder(t.blocks, n + 1)
  BY <1>1, <1>3, <1>4 DEF InOrder
<1>6. ResizeReady(t)
  <2>1. t.at - 1 = n + 1 /\ t.at <= Len(t.blocks) + 1
    BY <1>1, <1>2, <1>3
  <2> QED  BY <1>3, <1>5, <2>1 DEF ResizeReady
<1>7. Rest(s.blocks, s.at) = << >> /\ Rest(t.blocks, t.at) = << >>
  <2>1. s.at > n /\ s.at \in Nat \ {0}
    BY <1>1
  <2>2. t.at > n + 1 /\ t.at \in Nat \ {0}
    BY <1>1, <1>2
  <2> QED  BY <1>1, <1>3, <2>1, <2>2, RestBehind DEF n
<1>8. Odd(size, << >>) <=> Odd(size - BLOCK_SIZE, << >>)
  <2>1. ((size - BLOCK_SIZE) % BLOCK_SIZE) = (size % BLOCK_SIZE)
    BY <1>1, OddLess
  <2> QED  BY <1>1, <2>1, StrType DEF Odd
<1>9. ASSUME NEW r, ResizeKept(t, r) PROVE ResizeKept(s, r)
  <2>1. /\ r \in BlockList /\ Packed(r) /\ Len(r) \in Nat /\ Len(r) >= n + 1
        /\ (Len(r) - (n + 1)) * BLOCK_SIZE < (size - BLOCK_SIZE) + BLOCK_SIZE
        /\ \A i \in 1 .. n + 1 : r[i] = t.blocks[i]
        /\ Rest(r, n + 2) = SubSeq(<< >>, 1, Least(size - BLOCK_SIZE, Len(<< >>)))
    <3>1. t.at - 1 = n + 1 /\ t.at = n + 2
      BY <1>1, <1>2
    <3> QED  BY <1>2, <1>7, <1>9, <3>1, BlocksType DEF ResizeKept
  <2>2. \A m \in Nat : SubSeq(<< >>, 1, Least(m, Len(<< >>))) = << >>
    <3>1. \A m \in Nat : Least(m, Len(<< >>)) = 0
      BY StrType DEF Least
    <3>2. SubSeq(<< >>, 1, 0) = << >>
      BY StrType, SubEmpty
    <3> QED  BY <3>1, <3>2
  <2>3. Rest(r, n + 2) = << >>
    <3>1. size - BLOCK_SIZE \in Nat
      BY <1>1
    <3> QED  BY <2>1, <2>2, <3>1
  <2>4. Rest(r, n + 1) = << >>
    <3>1. n + 1 \in 1 .. Len(r) /\ (n + 1) + 1 = n + 2 /\ r[n + 1] = << >>
      BY <1>1, <1>3, <2>1
    <3>2. Rest(r, n + 1) = r[n + 1] \o Rest(r, (n + 1) + 1)
      BY <2>1, <3>1, RestHere
    <3> QED  BY <2>3, <3>1, <3>2, StrType, StrConcatEmpty
  <2>5. (Len(r) - n) * BLOCK_SIZE < size + BLOCK_SIZE
    <3>1. (Len(r) - n) * BLOCK_SIZE = (Len(r) - (n + 1)) * BLOCK_SIZE + BLOCK_SIZE
      BY <1>1, <2>1
    <3>2. (Len(r) - (n + 1)) * BLOCK_SIZE \in Int /\ (Len(r) - n) * BLOCK_SIZE \in Int
      BY <1>1, <2>1
    <3> QED  BY <1>1, <2>1, <3>1, <3>2
  <2>6. \A i \in 1 .. n : r[i] = s.blocks[i]
    BY <1>1, <1>3, <2>1
  <2>7. s.at - 1 = n /\ s.at = n + 1 /\ Len(r) >= n
    BY <1>1, <2>1
  <2> QED  BY <1>1, <1>7, <2>1, <2>2, <2>4, <2>5, <2>6, <2>7 DEF ResizeKept, size
<1> QED  BY <1>2, <1>6, <1>7, <1>8, <1>9 DEF ResizeMakes, t, size

LEMMA ResizeSkipMakes ==
    ASSUME NEW s \in ResizeState, ResizeReady(s), ResizeSkips(s)
    PROVE  ResizeReady(ResizeSkip(s)) /\ \A v : ResizeMakes(ResizeSkip(s), v) => ResizeMakes(s, v)
<1> DEFINE t == ResizeSkip(s)
           n == Len(s.blocks)
           at == s.at
           size == s.size
           b == s.blocks[at]
           c == Rest(s.blocks, at + 1)
           k == Least(size - BLOCK_SIZE, Len(c))
<1>1. /\ s.blocks \in BlockList /\ n \in Nat /\ size \in Nat /\ at \in 1 .. n /\ size >= BLOCK_SIZE
  BY ResizeSkipTo, ResizeFields
<1>2. t.blocks = s.blocks /\ t.at = at + 1 /\ t.size = size - BLOCK_SIZE
  BY ResizeSkipTo
<1>3. at + 1 \in Nat \ {0} /\ at \in Nat \ {0} /\ (at + 1) - 1 = at /\ at - 1 \in Nat
  BY <1>1
<1>4. b \in Str /\ Len(b) \in 0 .. BLOCK_SIZE /\ c \in Str /\ Len(c) \in Nat
  BY <1>1, <1>3, BlocksType, RestType, StrType
<1>5. InOrder(s.blocks, n)
  BY <1>1 DEF ResizeReady
<1>6. Rest(s.blocks, at) = b \o c
  BY <1>1, RestHere
<1>7. Len(b) < BLOCK_SIZE => c = << >>
  BY <1>1, <1>5, InOrderPacked, RestOfRoom
<1> HIDE DEF t, n, at, size, b, c
<1>8. ResizeReady(t)
  <2>1. InOrder(s.blocks, at)
    BY <1>1, <1>5 DEF InOrder
  <2>2. at + 1 <= n + 1
    BY <1>1
  <2> QED  BY <1>2, <1>3, <1>5, <2>1, <2>2 DEF ResizeReady, n
<1>9. Len(b \o c) = Len(b) + Len(c) /\ (Len(b) < BLOCK_SIZE => Len(c) = 0)
  BY <1>4, <1>7, StrConcat, StrType
<1>10. Odd(size, b \o c) <=> Odd(size - BLOCK_SIZE, c)
  <2>1. ((size - BLOCK_SIZE) % BLOCK_SIZE) = (size % BLOCK_SIZE)
    BY <1>1, OddLess
  <2>2. size >= Len(b) + Len(c) <=> size - BLOCK_SIZE >= Len(c)
    BY <1>1, <1>4, <1>9
  <2> QED  BY <1>9, <2>1, <2>2 DEF Odd
<1>11. k \in 0 .. Len(c) /\ Least(size, Len(b \o c)) = Len(b) + k
  BY <1>1, <1>4, <1>9 DEF Least
<1>12. SubSeq(b \o c, 1, Least(size, Len(b \o c))) = b \o SubSeq(c, 1, k)
  <2> HIDE DEF k
  <2>1. 1 \in 1 .. Len(b) + 1
    BY <1>4
  <2>2. SubSeq(b \o c, 1, Len(b) + k) = SubSeq(b, 1, Len(b)) \o SubSeq(c, 1, k)
    BY <1>4, <1>11, <2>1, SubAcross
  <2> QED  BY <1>4, <1>11, <2>2, SubFull, Zenon
<1>13. ASSUME NEW r, ResizeKept(t, r) PROVE ResizeKept(s, r)
  <2>1. /\ r \in BlockList /\ Packed(r) /\ Len(r) \in Nat /\ Len(r) >= at
        /\ (Len(r) - at) * BLOCK_SIZE < (size - BLOCK_SIZE) + BLOCK_SIZE
        /\ \A i \in 1 .. at : r[i] = s.blocks[i]
        /\ Rest(r, at + 1) = SubSeq(c, 1, k)
    BY <1>2, <1>3, <1>13, BlocksType DEF ResizeKept, c
  <2>2. at \in 1 .. Len(r) /\ r[at] = b
    BY <1>3, <2>1 DEF b
  <2>3. Rest(r, at) = b \o Rest(r, at + 1)
    BY <2>1, <2>2, RestHere
  <2>4. Rest(r, at) = SubSeq(Rest(s.blocks, at), 1, Least(size, Len(Rest(s.blocks, at))))
    BY <1>6, <1>12, <2>1, <2>3, Zenon
  <2>5. (Len(r) - (at - 1)) * BLOCK_SIZE < size + BLOCK_SIZE
    <3>1. (Len(r) - (at - 1)) * BLOCK_SIZE = (Len(r) - at) * BLOCK_SIZE + BLOCK_SIZE
      BY <1>3, <2>1
    <3>2. (Len(r) - (at - 1)) * BLOCK_SIZE \in Int /\ (Len(r) - at) * BLOCK_SIZE \in Int
      BY <1>3, <2>1
    <3> QED  BY <1>1, <2>1, <3>1, <3>2
  <2>6. Len(r) >= at - 1 /\ \A i \in 1 .. at - 1 : r[i] = s.blocks[i]
    BY <1>3, <2>1
  <2> QED  BY <2>1, <2>4, <2>5, <2>6 DEF ResizeKept, at, size
<1> QED  BY <1>2, <1>6, <1>8, <1>10, <1>13 DEF ResizeMakes, t, at, size, c

LEMMA ResizeCutMakes ==
    ASSUME NEW s \in ResizeState, ResizeReady(s), ResizeCuts(s)
    PROVE  ResizeReady(ResizeCut(s)) /\ \A v : ResizeMakes(ResizeCut(s), v) => ResizeMakes(s, v)
<1> DEFINE t == ResizeCut(s)
           n == Len(s.blocks)
           at == s.at
           size == s.size
           b == s.blocks[at]
           c == Rest(s.blocks, at + 1)
           q == Rest(t.blocks, t.at)
<1>1. /\ s.blocks \in BlockList /\ n \in Nat /\ at \in 1 .. n /\ size \in 1 .. Len(b) - 1
  BY ResizeCutTo, ResizeFields
<1>2. /\ Len(t.blocks) = n /\ t.at = at + 1 /\ t.size = 0 /\ t.blocks \in BlockList
      /\ \A i \in 1 .. n : t.blocks[i] = IF i = at THEN SubSeq(b, 1, size) ELSE s.blocks[i]
  BY ResizeCutTo, ResizeFields
<1>3. at + 1 \in Nat \ {0} /\ at \in Nat \ {0} /\ (at + 1) - 1 = at /\ at - 1 \in Nat
  BY <1>1
<1>4. b \in Str /\ Len(b) \in 0 .. BLOCK_SIZE /\ c \in Str /\ Len(c) \in Nat
  BY <1>1, <1>3, BlocksType, RestType, StrType
<1>5. q \in Str /\ Len(q) \in Nat
  BY <1>2, <1>3, RestType, StrType
<1>6. InOrder(s.blocks, n)
  BY <1>1 DEF ResizeReady, ResizeCuts, ResizeDone
<1>7. Rest(s.blocks, at) = b \o c
  BY <1>1, RestHere
<1> HIDE DEF t, n, at, size, b, c, q
<1>8. ResizeReady(t)
  <2>1. InOrder(t.blocks, at)
    <3> SUFFICES ASSUME NEW i \in 1 .. at, NEW j \in 1 .. at, i < j, t.blocks[j] # << >>
                 PROVE  Len(t.blocks[i]) = BLOCK_SIZE
      BY DEF InOrder
    <3>1. t.blocks[i] = s.blocks[i] /\ i \in 1 .. n /\ j \in 1 .. n
      BY <1>1, <1>2
    <3>2. s.blocks[j] # << >>
      <4>1. CASE j = at
        BY <1>1, <1>4, <4>1, StrType DEF b
      <4>2. CASE j # at
        BY <1>2, <3>1, <4>2
      <4> QED  BY <4>1, <4>2
    <3> QED  BY <1>6, <3>1, <3>2 DEF InOrder
  <2>2. at + 1 <= n + 1
    BY <1>1
  <2> QED  BY <1>2, <1>3, <2>1, <2>2 DEF ResizeReady
<1>9. Len(b \o c) = Len(b) + Len(c) /\ size \in 0 .. Len(b)
  BY <1>1, <1>4, StrConcat
<1>10. ~Odd(size, b \o c) /\ ~Odd(0, q)
  <2>1. ~ (size >= Len(b) + Len(c))
    BY <1>1, <1>4
  <2>2. (0 % BLOCK_SIZE) = 0
    OBVIOUS
  <2> QED  BY <1>9, <2>1, <2>2 DEF Odd
<1>11. Least(size, Len(b \o c)) = size
  BY <1>1, <1>4, <1>9 DEF Least
<1>12. SubSeq(b \o c, 1, size) = SubSeq(b, 1, size)
  BY <1>4, <1>9, SubHere
<1>13. SubSeq(q, 1, Least(0, Len(q))) = << >>
  <2>1. Least(0, Len(q)) = 0
    BY <1>5 DEF Least
  <2>2. SubSeq(q, 1, 0) = << >>
    BY <1>5, SubEmpty
  <2> QED  BY <2>1, <2>2
<1>14. ASSUME NEW r, ResizeKept(t, r) PROVE ResizeKept(s, r)
  <2>1. /\ r \in BlockList /\ Packed(r) /\ Len(r) \in Nat /\ Len(r) >= at
        /\ (Len(r) - at) * BLOCK_SIZE < 0 + BLOCK_SIZE
        /\ \A i \in 1 .. at : r[i] = t.blocks[i]
        /\ Rest(r, at + 1) = << >>
    BY <1>2, <1>3, <1>13, <1>14, BlocksType DEF ResizeKept, q
  <2>2. at \in 1 .. Len(r) /\ r[at] = SubSeq(b, 1, size)
    <3>1. at \in 1 .. at /\ at \in 1 .. Len(r)
      BY <1>3, <2>1
    <3>2. r[at] = t.blocks[at]
      BY <2>1, <3>1
    <3>3. t.blocks[at] = SubSeq(b, 1, size)
      BY <1>1, <1>2, Zenon
    <3> QED  BY <3>1, <3>2, <3>3
  <2>3. SubSeq(b, 1, size) \in Str
    BY <1>4, <1>9, StrSub
  <2>4. Rest(r, at) = SubSeq(b, 1, size)
    <3>1. Rest(r, at) = r[at] \o Rest(r, at + 1)
      BY <2>1, <2>2, RestHere
    <3>2. SubSeq(b, 1, size) \o << >> = SubSeq(b, 1, size)
      BY <2>3, StrConcatEmpty
    <3> QED  BY <2>1, <2>2, <3>1, <3>2, Zenon
  <2>5. Rest(r, at) = SubSeq(Rest(s.blocks, at), 1, Least(size, Len(Rest(s.blocks, at))))
    BY <1>7, <1>11, <1>12, <2>4, Zenon
  <2>6. (Len(r) - (at - 1)) * BLOCK_SIZE < size + BLOCK_SIZE
    <3>1. (Len(r) - at) * BLOCK_SIZE \in Int /\ (Len(r) - (at - 1)) * BLOCK_SIZE \in Int
          /\ (Len(r) - (at - 1)) * BLOCK_SIZE = (Len(r) - at) * BLOCK_SIZE + BLOCK_SIZE
      BY <1>3, <2>1
    <3>2. Len(r) = at
      <4> DEFINE g == Len(r) - at
      <4>1. g \in Nat /\ g * BLOCK_SIZE < BLOCK_SIZE
        BY <1>3, <2>1
      <4> HIDE DEF g
      <4>2. g = 0
        BY <4>1
      <4> QED  BY <1>3, <2>1, <4>2 DEF g
    <3>3. (Len(r) - at) * BLOCK_SIZE = 0
      BY <1>3, <3>2
    <3> QED  BY <1>1, <1>4, <3>1, <3>3
  <2>7. Len(r) >= at - 1 /\ \A i \in 1 .. at - 1 : r[i] = s.blocks[i]
    <3>1. \A i \in 1 .. at - 1 : i \in 1 .. at /\ i \in 1 .. n /\ i # at
      BY <1>1
    <3>2. \A i \in 1 .. at - 1 : r[i] = s.blocks[i]
      BY <1>2, <2>1, <3>1
    <3> QED  BY <1>3, <2>1, <3>2
  <2> QED  BY <2>1, <2>5, <2>6, <2>7 DEF ResizeKept, at, size
<1> QED  BY <1>2, <1>7, <1>8, <1>10, <1>14 DEF ResizeMakes, t, at, size, q

LEMMA ResizeWalkMakes ==
    ASSUME NEW s \in ResizeState, ResizeReady(s), ResizeWalks(s)
    PROVE  ResizeReady(ResizeWalk(s)) /\ \A v : ResizeMakes(ResizeWalk(s), v) => ResizeMakes(s, v)
<1> DEFINE t == ResizeWalk(s)
           n == Len(s.blocks)
           at == s.at
           size == s.size
           b == s.blocks[at]
<1>1. /\ s.blocks \in BlockList /\ n \in Nat /\ at \in 1 .. n /\ size \in Nat \ {0}
      /\ size < BLOCK_SIZE /\ size >= Len(b)
  BY ResizeWalkTo, ResizeFields
<1>2. t.blocks = s.blocks /\ t.at = at + 1 /\ t.size = size
  BY ResizeWalkTo
<1>3. at + 1 \in Nat \ {0} /\ (at + 1) - 1 = at
  BY <1>1
<1>4. b \in Str /\ Len(b) \in Nat
  BY <1>1, BlocksType
<1>5. InOrder(s.blocks, n)
  BY <1>1 DEF ResizeReady
<1>6. Rest(s.blocks, at + 1) = << >>
  <2>1. Len(b) < BLOCK_SIZE
    <3> HIDE DEF b, size
    <3> QED  BY <1>1, <1>4
  <2> QED  BY <1>1, <1>5, <2>1, InOrderPacked, RestOfRoom
<1>7. Rest(s.blocks, at) = b
  <2>1. Rest(s.blocks, at) = b \o Rest(s.blocks, at + 1)
    BY <1>1, RestHere
  <2> QED  BY <1>4, <1>6, <2>1, StrConcatEmpty
<1> HIDE DEF t, n, at, size, b
<1>8. ResizeReady(t)
  <2>1. InOrder(s.blocks, at)
    BY <1>1, <1>5 DEF InOrder
  <2>2. at + 1 <= n + 1
    BY <1>1
  <2> QED  BY <1>2, <1>3, <1>5, <2>1, <2>2 DEF ResizeReady, n
<1>9. Odd(size, b) /\ Odd(size, << >>)
  <2>1. (size % BLOCK_SIZE) = size
    BY <1>1
  <2> QED  BY <1>1, <2>1, StrType DEF Odd
<1> QED  BY <1>2, <1>6, <1>7, <1>8, <1>9 DEF ResizeMakes, t, at, size

LEMMA ResizeIs == \A s \in ResizeState : ResizeReady(s) => ResizeMakes(s, ResizeLoop[s])
<1> DEFINE m == [s \in ResizeState |-> ResizeLeft(s)]
           T == {s \in ResizeState : ResizeReady(s) => ResizeMakes(s, ResizeLoop[s])}
<1>1. m \in [ResizeState -> Nat] /\ \A s \in ResizeState : m[s] = ResizeLeft(s)
  BY ResizeFields
<1> HIDE DEF m
<1>2. ASSUME NEW s \in ResizeState, \A y \in ResizeState : m[y] < m[s] => y \in T, ResizeReady(s)
      PROVE  ResizeMakes(s, ResizeLoop[s])
  <2>1. \A t \in ResizeState :
           ResizeLeft(t) < ResizeLeft(s) /\ ResizeReady(t) => ResizeMakes(t, ResizeLoop[t])
    BY <1>1, <1>2
  <2>2. ResizeLoop[s] = ResizeBody(s, ResizeLoop)
    BY ResizeUnfolds
  <2>3. CASE ResizeDone(s)
    BY <1>2, <2>2, <2>3, ResizeTurn, ResizeEnds
  <2>4. CASE ResizeOff(s)
    BY <1>2, <2>2, <2>4, ResizeTurn, ResizeOffMakes
  <2>5. CASE ResizeGrows(s)
    <3>1. ResizeGrow(s) \in ResizeState /\ ResizeLeft(ResizeGrow(s)) < ResizeLeft(s)
      BY <2>5, ResizeGrowTo
    <3>2. ResizeReady(ResizeGrow(s)) /\ \A v : ResizeMakes(ResizeGrow(s), v) => ResizeMakes(s, v)
      BY <1>2, <2>5, ResizeGrowMakes
    <3>3. ResizeLoop[s] = ResizeLoop[ResizeGrow(s)]
      BY <2>2, <2>5, ResizeTurn
    <3> QED  BY <2>1, <3>1, <3>2, <3>3
  <2>6. CASE ResizeSkips(s)
    <3>1. ResizeSkip(s) \in ResizeState /\ ResizeLeft(ResizeSkip(s)) < ResizeLeft(s)
      BY <2>6, ResizeSkipTo
    <3>2. ResizeReady(ResizeSkip(s)) /\ \A v : ResizeMakes(ResizeSkip(s), v) => ResizeMakes(s, v)
      BY <1>2, <2>6, ResizeSkipMakes
    <3>3. ResizeLoop[s] = ResizeLoop[ResizeSkip(s)]
      BY <2>2, <2>6, ResizeTurn
    <3> QED  BY <2>1, <3>1, <3>2, <3>3
  <2>7. CASE ResizeCuts(s)
    <3>1. ResizeCut(s) \in ResizeState /\ ResizeLeft(ResizeCut(s)) < ResizeLeft(s)
      BY <2>7, ResizeCutTo
    <3>2. ResizeReady(ResizeCut(s)) /\ \A v : ResizeMakes(ResizeCut(s), v) => ResizeMakes(s, v)
      BY <1>2, <2>7, ResizeCutMakes
    <3>3. ResizeLoop[s] = ResizeLoop[ResizeCut(s)]
      BY <2>2, <2>7, ResizeTurn
    <3> QED  BY <2>1, <3>1, <3>2, <3>3
  <2>8. CASE ResizeWalks(s)
    <3>1. ResizeWalk(s) \in ResizeState /\ ResizeLeft(ResizeWalk(s)) < ResizeLeft(s)
      BY <2>8, ResizeWalkTo
    <3>2. ResizeReady(ResizeWalk(s)) /\ \A v : ResizeMakes(ResizeWalk(s), v) => ResizeMakes(s, v)
      BY <1>2, <2>8, ResizeWalkMakes
    <3>3. ResizeLoop[s] = ResizeLoop[ResizeWalk(s)]
      BY <2>2, <2>8, ResizeTurn
    <3> QED  BY <2>1, <3>1, <3>2, <3>3
  <2> QED  BY <2>3, <2>4, <2>5, <2>6, <2>7, <2>8, ResizeTurn
<1>3. ASSUME NEW s \in ResizeState, \A y \in ResizeState : m[y] < m[s] => y \in T PROVE s \in T
  BY <1>2, <1>3
<1>4. ResizeState \subseteq T
  <2> HIDE DEF T
  <2> QED  BY <1>1, <1>3, MeasureInduction
<1> QED  BY <1>4

\* ufs_resize does not return when it is to grow a file, or to keep its size, to
\* a size that fills no block (392-414); otherwise it leaves the bytes up to that
\* size, in blocks filled in order and no more of them than the size needs.
THEOREM ResizedIs ==
    ASSUME NEW blocks \in BlockList, Packed(blocks), NEW size \in Nat
    PROVE  /\ Odd(size, Flat(blocks)) => Resized(blocks, size) = Endless
           /\ ~Odd(size, Flat(blocks)) =>
                 /\ Resized(blocks, size).endless = FALSE
                 /\ Resized(blocks, size).blocks \in BlockList
                 /\ Packed(Resized(blocks, size).blocks)
                 /\ Flat(Resized(blocks, size).blocks) = SubSeq(Flat(blocks), 1, Least(size, Size(blocks)))
                 /\ Len(Resized(blocks, size).blocks) * BLOCK_SIZE < size + BLOCK_SIZE
<1> DEFINE s == [blocks |-> blocks, at |-> 1, size |-> size]
           r == Resized(blocks, size).blocks
<1>1. s \in ResizeState
  BY DEF ResizeState
<1>2. s.blocks = blocks /\ s.at = 1 /\ s.size = size
  OBVIOUS
<1>3. Resized(blocks, size) = ResizeLoop[s]
  BY DEF Resized
<1> HIDE DEF s
<1>4. ResizeReady(s)
  <2>1. 1 <= Len(blocks) + 1 /\ InOrder(blocks, 1 - 1) /\ InOrder(blocks, Len(blocks))
    BY BlocksType, InOrderPacked DEF InOrder
  <2> QED  BY <1>2, <2>1 DEF ResizeReady
<1>5. ResizeMakes(s, Resized(blocks, size))
  BY <1>1, <1>3, <1>4, ResizeIs
<1>6. Rest(blocks, 1) = Flat(blocks)
  BY RestWhole
<1>7. ASSUME ~Odd(size, Flat(blocks))
      PROVE  /\ Resized(blocks, size).endless = FALSE
             /\ r \in BlockList /\ Packed(r)
             /\ Flat(r) = SubSeq(Flat(blocks), 1, Least(size, Size(blocks)))
             /\ Len(r) * BLOCK_SIZE < size + BLOCK_SIZE
  <2>1. Resized(blocks, size).endless = FALSE /\ ResizeKept(s, r)
    BY <1>2, <1>5, <1>6, <1>7 DEF ResizeMakes
  <2> HIDE DEF r
  <2>2. /\ r \in BlockList /\ Packed(r) /\ (Len(r) - (1 - 1)) * BLOCK_SIZE < size + BLOCK_SIZE
        /\ Rest(r, 1) = SubSeq(Flat(blocks), 1, Least(size, Len(Flat(blocks))))
    BY <1>2, <1>6, <2>1 DEF ResizeKept
  <2>3. Rest(r, 1) = Flat(r) /\ Len(r) \in Nat
    BY <2>2, RestWhole, BlocksType
  <2>4. Len(r) - (1 - 1) = Len(r)
    BY <2>3
  <2> QED  BY <2>1, <2>2, <2>3, <2>4 DEF Size
<1> QED  BY <1>2, <1>5, <1>6, <1>7 DEF ResizeMakes
=============================================================================
