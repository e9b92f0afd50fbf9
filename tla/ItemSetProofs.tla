------------------------------ MODULE ItemSetProofs ------------------------------
(****************************************************************************)
(* dolphin's KItemSet is a set: what its lists of ranges stand for after    *)
(* each operation, for any indexes.                                         *)
(****************************************************************************)
EXTENDS ItemSet, SequenceTheorems, FiniteSetTheorems, WellFoundedInduction, TLAPS

--------------------------------------------------------------------------------
(* What stands for induction, functions that are computed step by step, and *)
(* the places in a list that one element is put into or taken out of.       *)

\* What stands for induction: a set of naturals has a least element.
LEMMA Least ==
    ASSUME NEW D \in SUBSET Nat, D # {}
    PROVE  \E i \in D : \A j \in D : i <= j
<1>. DEFINE Less == {p \in Nat \X Nat : p[1] < p[2]}
<1>1. IsWellFoundedOn(Less, Nat)
  BY NatLessThanWellFounded DEF OpToRel
<1>2. PICK i \in D : \A j \in D : <<j, i>> \notin Less
  BY <1>1, WFMin
<1>. SUFFICES ASSUME NEW j \in D PROVE i <= j
  OBVIOUS
<1>3. i \in Nat /\ j \in Nat
  OBVIOUS
<1>4. j < i => <<j, i>> \in Less
  BY <1>3
<1>. QED BY <1>2, <1>3, <1>4

\* A set that has 0 and with each number the next one has all of them.
LEMMA Climb ==
    ASSUME NEW n \in Nat, NEW D \in SUBSET (0 .. n), 0 \in D,
           \A i \in 1 .. n : i - 1 \in D => i \in D
    PROVE  D = 0 .. n
<1>. DEFINE Missing == (0 .. n) \ D
<1>. SUFFICES ASSUME Missing # {} PROVE FALSE
  OBVIOUS
<1>1. Missing \in SUBSET Nat
  OBVIOUS
<1>2. PICK i \in Missing : \A j \in Missing : i <= j
  <2>. HIDE DEF Missing
  <2>. QED BY <1>1, Least
<1>3. i \in 1 .. n /\ i - 1 \notin Missing /\ i - 1 \in 0 .. n
  <2>1. i \in 0 .. n /\ i # 0
    BY <1>2
  <2>2. i - 1 \in 0 .. n /\ ~(i <= i - 1) /\ i \in 1 .. n
    BY <2>1
  <2>. HIDE DEF Missing
  <2>. QED BY <1>2, <2>2
<1>. QED BY <1>2, <1>3

IsIteration(f, n, X, start, step) ==
    /\ f \in [0 .. n -> X]
    /\ f = [i \in 0 .. n |-> IF i = 0 THEN start ELSE step[i][f[i - 1]]]

\* What is computed step by step is computed: a function of the steps exists.
LEMMA Iterated ==
    ASSUME NEW n \in Nat, NEW X, NEW start \in X, NEW step \in [1 .. n -> [X -> X]]
    PROVE  \E f : IsIteration(f, n, X, start, step)
<1>. DEFINE Upto(k, f) == /\ f \in [0 .. k -> X] /\ f[0] = start
                          /\ \A i \in 1 .. k : f[i] = step[i][f[i - 1]]
            D == {k \in 0 .. n : \E f : Upto(k, f)}
<1>1. 0 \in D
  <2>1. Upto(0, [i \in 0 .. 0 |-> start])
    OBVIOUS
  <2>2. 0 \in 0 .. n
    OBVIOUS
  <2>. HIDE DEF Upto
  <2>. QED BY <2>1, <2>2
<1>2. ASSUME NEW i \in 1 .. n, i - 1 \in D PROVE i \in D
  <2>1. PICK f : Upto(i - 1, f)
    BY <1>2
  <2>. DEFINE g == [j \in 0 .. i |-> IF j = i THEN step[i][f[i - 1]] ELSE f[j]]
  <2>2. step[i][f[i - 1]] \in X
    <3>1. f[i - 1] \in X
      BY <2>1
    <3>2. step[i] \in [X -> X]
      OBVIOUS
    <3>. QED BY <3>1, <3>2
  <2>3. g \in [0 .. i -> X] /\ g[0] = start
    BY <2>1, <2>2
  <2>4. \A j \in 1 .. i : g[j] = step[j][g[j - 1]]
    BY <2>1
  <2>5. Upto(i, g)
    BY <2>3, <2>4
  <2>6. i \in 0 .. n
    OBVIOUS
  <2>. HIDE DEF Upto, g
  <2>. QED BY <2>5, <2>6
<1>3. D = 0 .. n
  <2>1. D \in SUBSET (0 .. n)
    OBVIOUS
  <2>. HIDE DEF D
  <2>. QED BY <1>1, <1>2, <2>1, Climb
<1>4. PICK f : Upto(n, f)
  BY <1>3
<1>5. \A i \in 0 .. n : f[i] = IF i = 0 THEN start ELSE step[i][f[i - 1]]
  BY <1>4
<1>6. f = [i \in 0 .. n |-> f[i]]
  BY <1>4
<1>7. IsIteration(f, n, X, start, step)
  BY <1>4, <1>5, <1>6 DEF IsIteration
<1>. QED BY <1>7

\* m is l with c put at place i.
IsInserted(m, l, i, c) ==
    /\ Len(m) = Len(l) + 1
    /\ \A j \in 1 .. Len(l) + 1 :
          m[j] = IF j < i THEN l[j] ELSE IF j = i THEN c ELSE l[j - 1]

LEMMA InsertAtInserts ==
    ASSUME NEW S, NEW l \in Seq(S), NEW c \in S, NEW i \in 1 .. Len(l) + 1
    PROVE  InsertAt(l, i, c) \in Seq(S) /\ IsInserted(InsertAt(l, i, c), l, i, c)
<1>. DEFINE a == SubSeq(l, 1, i - 1)
            b == SubSeq(l, i, Len(l))
            ac == a \o <<c>>
<1>1. Len(l) \in Nat /\ i \in Int /\ i - 1 \in Int
  OBVIOUS
<1>2. /\ a \in Seq(S) /\ Len(a) = i - 1
      /\ \A j \in 1 .. i - 1 : a[j] = l[j]
  <2>1. \A j \in 1 .. i - 1 : l[j] \in S
    OBVIOUS
  <2>. QED BY <1>1, <2>1, SubSeqProperties
<1>3. /\ b \in Seq(S) /\ Len(b) = Len(l) - i + 1
      /\ \A j \in 1 .. Len(l) - i + 1 : b[j] = l[i + j - 1]
  <2>1. \A j \in i .. Len(l) : l[j] \in S
    OBVIOUS
  <2>. QED BY <1>1, <2>1, SubSeqProperties
<1>. HIDE DEF a, b
<1>4. /\ <<c>> \in Seq(S) /\ Len(<<c>>) = 1 /\ <<c>>[1] = c
  OBVIOUS
<1>5. /\ ac \in Seq(S) /\ Len(ac) = i
      /\ \A j \in 1 .. i : ac[j] = IF j < i THEN l[j] ELSE c
  BY <1>1, <1>2, <1>4, ConcatProperties
<1>. HIDE DEF ac
<1>6. /\ ac \o b \in Seq(S) /\ Len(ac \o b) = Len(l) + 1
      /\ \A j \in 1 .. Len(l) + 1 : (ac \o b)[j] = IF j <= i THEN ac[j] ELSE b[j - i]
  <2>1. /\ ac \o b \in Seq(S) /\ Len(ac \o b) = Len(ac) + Len(b)
        /\ \A j \in 1 .. Len(ac) + Len(b) :
              (ac \o b)[j] = IF j <= Len(ac) THEN ac[j] ELSE b[j - Len(ac)]
    BY <1>3, <1>5, ConcatProperties
  <2>2. Len(ac) + Len(b) = Len(l) + 1
    BY <1>1, <1>3, <1>5
  <2>. QED BY <1>5, <2>1, <2>2
<1>7. InsertAt(l, i, c) = ac \o b
  BY DEF InsertAt, ac, a, b
<1>8. \A j \in 1 .. Len(l) + 1 :
         (ac \o b)[j] = IF j < i THEN l[j] ELSE IF j = i THEN c ELSE l[j - 1]
  BY <1>1, <1>3, <1>5, <1>6
<1>. QED BY <1>6, <1>7, <1>8 DEF IsInserted

LEMMA AppendInserts ==
    ASSUME NEW S, NEW l \in Seq(S), NEW c \in S
    PROVE  Append(l, c) \in Seq(S) /\ IsInserted(Append(l, c), l, Len(l) + 1, c)
BY DEF IsInserted

LEMMA UptoCard ==
    ASSUME NEW n \in Nat
    PROVE  IsFiniteSet(1 .. n) /\ Cardinality(1 .. n) = n
<1>1. IsFiniteSet(1 .. n) /\ Cardinality(1 .. n) = IF 1 > n THEN 0 ELSE n - 1 + 1
  BY FS_Interval
<1>2. (IF 1 > n THEN 0 ELSE n - 1 + 1) = n
  OBVIOUS
<1>. QED BY <1>1, <1>2

\* An element is taken out of a list, or replaced.
LEMMA RemoveAtRemoves ==
    ASSUME NEW S, NEW l \in Seq(S), NEW i \in 1 .. Len(l)
    PROVE  /\ RemoveAt(l, i) \in Seq(S) /\ Len(RemoveAt(l, i)) = Len(l) - 1
           /\ \A j \in 1 .. Len(l) - 1 : RemoveAt(l, i)[j] = IF j < i THEN l[j] ELSE l[j + 1]
<1>. DEFINE a == SubSeq(l, 1, i - 1)
            b == SubSeq(l, i + 1, Len(l))
<1>1. Len(l) \in Nat /\ i \in Int /\ i - 1 \in Int
  OBVIOUS
<1>2. /\ a \in Seq(S) /\ Len(a) = i - 1
      /\ \A j \in 1 .. i - 1 : a[j] = l[j]
  <2>1. \A j \in 1 .. i - 1 : l[j] \in S
    OBVIOUS
  <2>. QED BY <1>1, <2>1, SubSeqProperties
<1>3. /\ b \in Seq(S) /\ Len(b) = Len(l) - i
      /\ \A j \in 1 .. Len(l) - i : b[j] = l[i + j]
  <2>1. \A j \in i + 1 .. Len(l) : l[j] \in S
    OBVIOUS
  <2>2. /\ b \in Seq(S) /\ Len(b) = IF i + 1 <= Len(l) THEN Len(l) - (i + 1) + 1 ELSE 0
        /\ \A j \in 1 .. Len(l) - (i + 1) + 1 : b[j] = l[i + 1 + j - 1]
    BY <1>1, <2>1, SubSeqProperties
  <2>. HIDE DEF b
  <2>. QED BY <1>1, <2>2
<1>4. RemoveAt(l, i) = a \o b
  BY DEF RemoveAt
<1>. HIDE DEF a, b
<1>5. /\ a \o b \in Seq(S) /\ Len(a \o b) = Len(a) + Len(b)
      /\ \A j \in 1 .. Len(a) + Len(b) : (a \o b)[j] = IF j <= Len(a) THEN a[j] ELSE b[j - Len(a)]
  BY <1>2, <1>3, ConcatProperties
<1>6. \A j \in 1 .. Len(l) - 1 : (a \o b)[j] = IF j < i THEN l[j] ELSE l[j + 1]
  BY <1>1, <1>2, <1>3, <1>5
<1>. QED BY <1>1, <1>2, <1>3, <1>4, <1>5, <1>6

LEMMA ReplaceAtReplaces ==
    ASSUME NEW S, NEW l \in Seq(S), NEW i \in 1 .. Len(l), NEW c \in S
    PROVE  /\ ReplaceAt(l, i, c) \in Seq(S) /\ Len(ReplaceAt(l, i, c)) = Len(l)
           /\ \A j \in 1 .. Len(l) : ReplaceAt(l, i, c)[j] = IF j = i THEN c ELSE l[j]
BY DEF ReplaceAt

----------------------------------------------------------------------------

Ranges == [index : Nat, count : Nat]
ItemSets == {s \in Seq(Ranges) : IsValid(s)}

\* The k-th range holds x; some range does.
Holds(s, k, x) == s[k].index <= x /\ x < s[k].index + s[k].count
Covers(s, x) == \E k \in 1 .. Len(s) : Holds(s, k, x)

LEMMA RangeParts ==
    ASSUME NEW s \in Seq(Ranges), NEW k \in 1 .. Len(s)
    PROVE  s[k] \in Ranges /\ s[k].index \in Nat /\ s[k].count \in Nat
<1>1. s[k] \in Ranges
  OBVIOUS
<1>. QED BY <1>1 DEF Ranges

LEMMA NewRange ==
    ASSUME NEW i \in Nat, NEW c \in Nat
    PROVE  /\ KItemRange(i, c) \in Ranges /\ KItemRange(i, c).index = i
           /\ KItemRange(i, c).count = c /\ Behind(KItemRange(i, c)) = i + c
BY DEF KItemRange, Ranges, Behind

LEMMA Members ==
    ASSUME NEW s \in Seq(Ranges)
    PROVE  AsSet(s) = {x \in Nat : Covers(s, x)}
<1>1. ASSUME NEW x \in AsSet(s) PROVE x \in Nat /\ Covers(s, x)
  <2>1. PICK r \in ToSet(s) : x \in Indexes(r)
    BY <1>1 DEF AsSet
  <2>2. PICK k \in 1 .. Len(s) : r = s[k]
    BY DEF ToSet
  <2>3. s[k].index \in Nat /\ s[k].count \in Nat
    BY RangeParts
  <2>4. x \in s[k].index .. s[k].index + s[k].count - 1
    <3>1. x \in Indexes(s[k])
      BY <2>1, <2>2
    <3>. QED BY <2>3, <3>1 DEF Indexes, Behind
  <2>5. x \in Nat /\ Holds(s, k, x)
    BY <2>3, <2>4 DEF Holds
  <2>. QED BY <2>5 DEF Covers
<1>2. ASSUME NEW x \in Nat, Covers(s, x) PROVE x \in AsSet(s)
  <2>1. PICK k \in 1 .. Len(s) : Holds(s, k, x)
    BY <1>2 DEF Covers
  <2>2. s[k].index \in Nat /\ s[k].count \in Nat
    BY RangeParts
  <2>3. x \in Indexes(s[k])
    BY <2>1, <2>2 DEF Holds, Indexes, Behind
  <2>4. s[k] \in ToSet(s)
    BY DEF ToSet
  <2>. QED BY <2>3, <2>4 DEF AsSet
<1>. QED BY <1>1, <1>2

LEMMA ValidParts ==
    ASSUME NEW s \in ItemSets
    PROVE  /\ s \in Seq(Ranges) /\ Len(s) \in Nat
           /\ \A k \in 1 .. Len(s) : s[k].index \in Nat /\ s[k].count \in Nat /\ s[k].count > 0
           /\ \A k \in 2 .. Len(s) : s[k - 1].index + s[k - 1].count < s[k].index
<1>1. s \in Seq(Ranges) /\ Len(s) \in Nat /\ IsValid(s) /\ DOMAIN s = 1 .. Len(s)
  BY DEF ItemSets
<1>2. ASSUME NEW k \in 1 .. Len(s)
      PROVE  s[k].index \in Nat /\ s[k].count \in Nat /\ s[k].count > 0
  BY <1>1, RangeParts DEF IsValid
<1>3. ASSUME NEW k \in 2 .. Len(s)
      PROVE  s[k - 1].index + s[k - 1].count < s[k].index
  <2>1. k \in DOMAIN s /\ k > 1
    BY <1>1
  <2>. QED BY <1>1, <2>1 DEF IsValid, Behind
<1>. QED BY <1>1, <1>2, <1>3

\* What makes a list of ranges valid.
LEMMA ValidIf ==
    ASSUME NEW s \in Seq(Ranges),
           \A k \in 1 .. Len(s) : s[k].count > 0,
           \A k \in 2 .. Len(s) : s[k - 1].index + s[k - 1].count < s[k].index
    PROVE  s \in ItemSets
<1>1. DOMAIN s = 1 .. Len(s) /\ Len(s) \in Nat
  OBVIOUS
<1>2. ASSUME NEW k \in DOMAIN s
      PROVE  s[k].count > 0 /\ (k > 1 => Behind(s[k - 1]) < s[k].index)
  <2>1. k > 1 => k \in 2 .. Len(s)
    BY <1>1
  <2>. QED BY <1>1, <2>1 DEF Behind
<1>. QED BY <1>2 DEF ItemSets, IsValid

LEMMA EmptySet == <<>> \in ItemSets /\ AsSet(<<>>) = {}
<1>. DEFINE e == <<>>
<1>1. e \in Seq(Ranges) /\ Len(e) = 0
  OBVIOUS
<1>. HIDE DEF e
<1>2. 1 .. Len(e) = {} /\ 2 .. Len(e) = {}
  BY <1>1
<1>3. /\ \A k \in 1 .. Len(e) : e[k].count > 0
      /\ \A k \in 2 .. Len(e) : e[k - 1].index + e[k - 1].count < e[k].index
  BY <1>2
<1>4. e \in ItemSets
  BY <1>1, <1>3, ValidIf
<1>5. AsSet(<<>>) = {}
  BY DEF AsSet, ToSet
<1>. QED BY <1>4, <1>5 DEF e

\* The ranges ascend, and none touches another.
LEMMA Apart ==
    ASSUME NEW s \in ItemSets, NEW j \in 1 .. Len(s), NEW k \in 1 .. Len(s), j < k
    PROVE  s[j].index + s[j].count < s[k].index
<1>. DEFINE D == {d \in 0 .. k - j : d = 0 \/ s[j].index + s[j].count < s[j + d].index}
            n == k - j
<1>1. n \in Nat /\ Len(s) \in Nat
  BY ValidParts
<1>2. 0 \in D
  BY <1>1
<1>3. ASSUME NEW d \in 1 .. n, d - 1 \in D PROVE d \in D
  <2>1. /\ j + d \in 2 .. Len(s) /\ j + d - 1 = j + (d - 1) /\ j + (d - 1) \in 1 .. Len(s)
    BY <1>1
  <2>2. s[j + (d - 1)].index + s[j + (d - 1)].count < s[j + d].index
    BY <2>1, ValidParts
  <2>3. /\ s[j + (d - 1)].index \in Nat /\ s[j + (d - 1)].count \in Nat
        /\ s[j + d].index \in Nat /\ s[j].index \in Nat /\ s[j].count \in Nat
    BY <1>1, <2>1, ValidParts
  <2>4. d - 1 = 0 \/ s[j].index + s[j].count < s[j + (d - 1)].index
    BY <1>3
  <2>5. s[j].index + s[j].count < s[j + d].index
    <3>1. CASE d - 1 = 0
      <4>1. j + (d - 1) = j
        BY <3>1
      <4>. QED BY <2>2, <4>1
    <3>2. CASE d - 1 # 0
      <4>. DEFINE a == s[j + (d - 1)].index
                  b == s[j + (d - 1)].count
                  c == s[j + d].index
                  e == s[j].index + s[j].count
      <4>1. a \in Nat /\ b \in Nat /\ c \in Nat /\ e \in Nat
        <5>1. \A x, y \in Nat : x + y \in Nat
          OBVIOUS
        <5>. QED BY <2>3, <5>1
      <4>2. a + b < c /\ e < a
        BY <2>2, <2>4, <3>2
      <4>3. e < c
        <5>. HIDE DEF a, b, c, e
        <5>. QED BY <4>1, <4>2
      <4>. QED BY <4>3
    <3>. QED BY <3>1, <3>2
  <2>. QED BY <1>1, <2>5
<1>4. D = 0 .. n
  <2>1. D \in SUBSET (0 .. n)
    OBVIOUS
  <2>. HIDE DEF D
  <2>. QED BY <1>1, <1>2, <1>3, <2>1, Climb
<1>5. n \in D
  <2>. HIDE DEF D
  <2>. QED BY <1>1, <1>4
<1>. QED BY <1>1, <1>5

\* What rangeForItem() finds.
LEMMA LowFinds ==
    ASSUME NEW s \in ItemSets, NEW i \in Int
    PROVE  /\ Low(s, i) \in 0 .. Len(s)
           /\ \A k \in 1 .. Low(s, i) : s[k].index <= i
           /\ \A k \in Low(s, i) + 1 .. Len(s) : s[k].index > i
<1>1. /\ s \in Seq(Ranges) /\ Len(s) \in Nat /\ DOMAIN s = 1 .. Len(s)
      /\ \A k \in 1 .. Len(s) : s[k].index \in Nat /\ s[k].count \in Nat /\ s[k].count > 0
  BY ValidParts
<1>. DEFINE D == {k \in 1 .. Len(s) + 1 : k = Len(s) + 1 \/ s[k].index > i}
<1>2. PICK u \in D : \A k \in D : u <= k
  <2>1. D \in SUBSET Nat /\ D # {}
    BY <1>1
  <2>. HIDE DEF D
  <2>. QED BY <2>1, Least
<1>3. u \in 1 .. Len(s) + 1 /\ \A k \in 1 .. u - 1 : s[k].index <= i
  BY <1>1, <1>2
<1>4. \A k \in u .. Len(s) : s[k].index > i
  <2>. SUFFICES ASSUME NEW k \in u .. Len(s) PROVE s[k].index > i
    OBVIOUS
  <2>1. u \in 1 .. Len(s) /\ s[u].index > i /\ k \in 1 .. Len(s)
    BY <1>1, <1>2
  <2>2. u < k => s[u].index + s[u].count < s[k].index
    BY <2>1, Apart
  <2>. QED BY <1>1, <2>1, <2>2
<1>5. {k \in DOMAIN s : s[k].index <= i} = 1 .. u - 1
  BY <1>1, <1>3, <1>4
<1>6. Low(s, i) = u - 1
  <2>1. u - 1 \in Nat
    BY <1>3
  <2>. QED BY <1>5, <2>1, UptoCard DEF Low
<1>. QED BY <1>1, <1>3, <1>4, <1>6

\* contains(): the range that the binary search finds has the index, or none has.
LEMMA ContainsTells ==
    ASSUME NEW s \in ItemSets, NEW i \in Int
    PROVE  ContainsItem(s, i) <=> i \in AsSet(s)
<1>1. /\ s \in Seq(Ranges) /\ Len(s) \in Nat
      /\ \A k \in 1 .. Len(s) : s[k].index \in Nat /\ s[k].count \in Nat /\ s[k].count > 0
  BY ValidParts
<1>. DEFINE low == Low(s, i)
<1>2. /\ low \in 0 .. Len(s)
      /\ \A k \in 1 .. low : s[k].index <= i
      /\ \A k \in low + 1 .. Len(s) : s[k].index > i
  BY LowFinds
<1>3. ContainsItem(s, i) <=> low > 0 /\ i < s[low].index + s[low].count
  BY DEF ContainsItem, Behind
<1>. HIDE DEF low
<1>4. ASSUME low > 0, i < s[low].index + s[low].count PROVE i \in AsSet(s)
  <2>1. low \in 1 .. Len(s) /\ s[low].index <= i
    BY <1>1, <1>2, <1>4
  <2>2. Holds(s, low, i) /\ i \in Nat
    BY <1>1, <1>4, <2>1 DEF Holds
  <2>. QED BY <1>1, <2>1, <2>2, Members DEF Covers
<1>5. ASSUME i \in AsSet(s) PROVE low > 0 /\ i < s[low].index + s[low].count
  <2>1. PICK k \in 1 .. Len(s) : Holds(s, k, i)
    BY <1>1, <1>5, Members DEF Covers
  <2>2. k <= low /\ low \in 1 .. Len(s)
    BY <1>1, <1>2, <2>1 DEF Holds
  <2>3. k = low
    <3>1. k < low => s[k].index + s[k].count < s[low].index
      BY <2>2, Apart
    <3>. QED BY <1>1, <1>2, <2>1, <2>2, <3>1 DEF Holds
  <2>. QED BY <2>1, <2>2, <2>3 DEF Holds
<1>. QED BY <1>3, <1>4, <1>5

--------------------------------------------------------------------------------
(* Two valid lists of the same indexes are the same.                        *)

LEMMA BeginsNoLater ==
    ASSUME NEW s \in ItemSets, NEW t \in ItemSets, AsSet(s) \subseteq AsSet(t),
           NEW k \in 1 .. Len(s), k <= Len(t) + 1, \A j \in 1 .. k - 1 : s[j] = t[j]
    PROVE  k <= Len(t) /\ t[k].index <= s[k].index
<1>1. /\ s \in Seq(Ranges) /\ Len(s) \in Nat /\ t \in Seq(Ranges) /\ Len(t) \in Nat
      /\ \A j \in 1 .. Len(s) : s[j].index \in Nat /\ s[j].count \in Nat /\ s[j].count > 0
      /\ \A j \in 1 .. Len(t) : t[j].index \in Nat /\ t[j].count \in Nat /\ t[j].count > 0
  BY ValidParts
<1>. DEFINE x == s[k].index
<1>2. x \in Nat /\ Covers(s, x)
  BY <1>1 DEF Covers, Holds
<1>3. Covers(t, x)
  BY <1>1, <1>2, Members
<1>4. PICK m \in 1 .. Len(t) : Holds(t, m, x)
  BY <1>3 DEF Covers
<1>5. m >= k
  <2>. SUFFICES ASSUME m < k PROVE FALSE
    BY <1>1
  <2>1. m \in 1 .. k - 1 /\ m \in 1 .. Len(s) /\ s[m] = t[m]
    BY <1>1
  <2>2. s[m].index + s[m].count < x
    BY <2>1, Apart
  <2>. QED BY <1>1, <1>2, <1>4, <2>1, <2>2 DEF Holds
<1>6. k \in 1 .. Len(t)
  BY <1>1, <1>5
<1>7. t[k].index <= t[m].index
  <2>1. k < m => t[k].index + t[k].count < t[m].index
    BY <1>6, Apart
  <2>. QED BY <1>1, <1>5, <1>6, <2>1
<1>. QED BY <1>1, <1>2, <1>4, <1>6, <1>7 DEF Holds

LEMMA EndsNoLater ==
    ASSUME NEW s \in ItemSets, NEW t \in ItemSets, AsSet(t) \subseteq AsSet(s),
           NEW k \in 1 .. Len(s), k \in 1 .. Len(t), s[k].index = t[k].index
    PROVE  t[k].count <= s[k].count
<1>1. /\ s \in Seq(Ranges) /\ Len(s) \in Nat /\ t \in Seq(Ranges) /\ Len(t) \in Nat
      /\ \A j \in 1 .. Len(s) : s[j].index \in Nat /\ s[j].count \in Nat /\ s[j].count > 0
      /\ \A j \in 1 .. Len(t) : t[j].index \in Nat /\ t[j].count \in Nat /\ t[j].count > 0
  BY ValidParts
<1>. SUFFICES ASSUME s[k].count < t[k].count PROVE FALSE
  BY <1>1
<1>. DEFINE x == s[k].index + s[k].count
<1>2. x \in Nat /\ Holds(t, k, x)
  BY <1>1 DEF Holds
<1>3. Covers(s, x)
  <2>1. Covers(t, x)
    BY <1>2 DEF Covers
  <2>. QED BY <1>1, <1>2, <2>1, Members
<1>4. PICK m \in 1 .. Len(s) : Holds(s, m, x)
  BY <1>3 DEF Covers
<1>5. m # k
  BY <1>1, <1>4 DEF Holds
<1>6. m < k => s[m].index + s[m].count < s[k].index
  BY Apart
<1>7. k < m => x < s[m].index
  BY Apart
<1>8. s[m].index <= x /\ x < s[m].index + s[m].count
  BY <1>4 DEF Holds
<1>9. ~(m < k)
  BY <1>1, <1>6, <1>8
<1>10. ~(k < m)
  BY <1>1, <1>2, <1>7, <1>8
<1>. QED BY <1>5, <1>9, <1>10

\* A set has one valid list of ranges: operator== compares the lists and thereby the sets.
THEOREM Canonical ==
    ASSUME NEW s \in ItemSets, NEW t \in ItemSets, AsSet(s) = AsSet(t)
    PROVE  s = t
<1>1. /\ s \in Seq(Ranges) /\ Len(s) \in Nat /\ t \in Seq(Ranges) /\ Len(t) \in Nat
  BY ValidParts
<1>. DEFINE n == Len(s)
            Same(k) == k <= Len(t) /\ \A j \in 1 .. k : s[j] = t[j]
            D == {k \in 0 .. n : Same(k)}
<1>2. 0 \in D
  BY <1>1
<1>3. ASSUME NEW k \in 1 .. n, k - 1 \in D PROVE k \in D
  <2>1. k <= Len(t) + 1 /\ \A j \in 1 .. k - 1 : s[j] = t[j]
    BY <1>1, <1>3
  <2>2. k <= Len(t) /\ t[k].index <= s[k].index
    BY <2>1, BeginsNoLater
  <2>3. k \in 1 .. Len(t) /\ k <= Len(s) + 1
    BY <1>1, <2>2
  <2>4. s[k].index <= t[k].index
    BY <2>1, <2>3, BeginsNoLater
  <2>5. s[k] \in Ranges /\ t[k] \in Ranges
    BY <1>1, <2>3
  <2>6. s[k].index = t[k].index
    BY <2>2, <2>4, <2>5 DEF Ranges
  <2>7. t[k].count <= s[k].count /\ s[k].count <= t[k].count
    BY <2>3, <2>6, EndsNoLater
  <2>8. s[k] = t[k]
    BY <2>5, <2>6, <2>7 DEF Ranges
  <2>. QED BY <1>1, <2>1, <2>2, <2>8
<1>4. D = 0 .. n
  <2>1. D \in SUBSET (0 .. n)
    OBVIOUS
  <2>. HIDE DEF D
  <2>. QED BY <1>1, <1>2, <1>3, <2>1, Climb
<1>5. Same(n)
  BY <1>1, <1>4
<1>6. Len(t) <= Len(s)
  <2>. SUFFICES ASSUME Len(t) > Len(s) PROVE FALSE
    BY <1>1
  <2>. DEFINE k == Len(s) + 1
  <2>1. k \in 1 .. Len(t) /\ k <= Len(s) + 1 /\ \A j \in 1 .. k - 1 : t[j] = s[j]
    BY <1>1, <1>5
  <2>2. k <= Len(s)
    <3>. HIDE DEF k
    <3>. QED BY <2>1, BeginsNoLater
  <2>. QED BY <1>1, <2>2
<1>. QED BY <1>1, <1>5, <1>6, SeqEqual

--------------------------------------------------------------------------------
(* insert() and erase()                                                     *)

\* m is s with one range in place of those between the a-th and the b-th.
IsSpliced(m, s, a, b, r) ==
    /\ m \in Seq(Ranges) /\ Len(m) = a + 1 + (Len(s) + 1 - b)
    /\ \A j \in 1 .. Len(m) : m[j] = IF j <= a THEN s[j]
                                     ELSE IF j = a + 1 THEN r ELSE s[j - a - 2 + b]

\* The indexes of the ranges up to the a-th and from the b-th on.
Around(s, a, b) == {x \in Nat : \E k \in 1 .. Len(s) : (k <= a \/ k >= b) /\ Holds(s, k, x)}

LEMMA Spliced ==
    ASSUME NEW s \in ItemSets, NEW a \in 0 .. Len(s), NEW b \in a + 1 .. Len(s) + 1,
           NEW r \in Ranges, r.count > 0,
           a > 0 => s[a].index + s[a].count < r.index,
           b <= Len(s) => r.index + r.count < s[b].index,
           NEW m, IsSpliced(m, s, a, b, r)
    PROVE  /\ m \in ItemSets
           /\ AsSet(m) = Around(s, a, b) \cup {x \in Nat : r.index <= x /\ x < r.index + r.count}
<1>1. /\ s \in Seq(Ranges) /\ Len(s) \in Nat
      /\ \A k \in 1 .. Len(s) : s[k].index \in Nat /\ s[k].count \in Nat /\ s[k].count > 0
      /\ \A k \in 2 .. Len(s) : s[k - 1].index + s[k - 1].count < s[k].index
  BY ValidParts
<1>2. /\ m \in Seq(Ranges) /\ Len(m) = a + 1 + (Len(s) + 1 - b) /\ Len(m) \in Nat
      /\ \A j \in 1 .. Len(m) : m[j] = IF j <= a THEN s[j]
                                       ELSE IF j = a + 1 THEN r ELSE s[j - a - 2 + b]
  BY <1>1 DEF IsSpliced
<1>3. r.index \in Nat /\ r.count \in Nat
  BY DEF Ranges
<1>4. \A j \in 1 .. Len(m) : m[j].count > 0
  <2>. SUFFICES ASSUME NEW j \in 1 .. Len(m) PROVE m[j].count > 0
    OBVIOUS
  <2>1. CASE j <= a
    <3>1. j \in 1 .. Len(s) /\ m[j] = s[j]
      BY <1>1, <1>2, <2>1
    <3>. QED BY <1>1, <3>1
  <2>2. CASE j = a + 1
    <3>1. m[j] = r
      BY <1>2, <2>2
    <3>. QED BY <3>1
  <2>3. CASE j > a + 1
    <3>1. j - a - 2 + b \in 1 .. Len(s) /\ m[j] = s[j - a - 2 + b]
      BY <1>1, <1>2, <2>3
    <3>. QED BY <1>1, <3>1
  <2>. QED BY <2>1, <2>2, <2>3
<1>5. \A j \in 2 .. Len(m) : m[j - 1].index + m[j - 1].count < m[j].index
  <2>. SUFFICES ASSUME NEW j \in 2 .. Len(m)
                PROVE  m[j - 1].index + m[j - 1].count < m[j].index
    OBVIOUS
  <2>1. CASE j <= a
    <3>1. j \in 2 .. Len(s) /\ m[j] = s[j] /\ m[j - 1] = s[j - 1]
      <4>1. j - 1 \in 1 .. Len(m) /\ j - 1 <= a /\ j \in 2 .. Len(s) /\ j \in 1 .. Len(m)
        BY <1>1, <1>2, <2>1
      <4>. QED BY <1>2, <2>1, <4>1
    <3>. QED BY <1>1, <3>1
  <2>2. CASE j = a + 1
    <3>1. m[j] = r /\ m[j - 1] = s[a] /\ a > 0
      BY <1>2, <2>2
    <3>. QED BY <3>1
  <2>3. CASE j = a + 2
    <3>1. m[j - 1] = r /\ m[j] = s[b] /\ b <= Len(s)
      <4>1. /\ j - 1 \in 1 .. Len(m) /\ ~(j - 1 <= a) /\ j - 1 = a + 1 /\ b <= Len(s)
            /\ j \in 1 .. Len(m) /\ ~(j <= a) /\ j # a + 1 /\ j - a - 2 + b = b
        BY <1>1, <1>2, <2>3
      <4>2. m[j - 1] = r /\ m[j] = s[j - a - 2 + b]
        BY <1>2, <4>1
      <4>. QED BY <4>1, <4>2
    <3>. QED BY <3>1
  <2>4. CASE j > a + 2
    <3>. DEFINE k == j - a - 2 + b
    <3>1. /\ k \in 2 .. Len(s) /\ m[j] = s[k]
          /\ j - 1 \in 1 .. Len(m) /\ ~(j - 1 <= a) /\ j - 1 # a + 1 /\ j - 1 - a - 2 + b = k - 1
      BY <1>1, <1>2, <2>4
    <3>2. m[j - 1] = s[k - 1]
      BY <1>2, <3>1
    <3>. HIDE DEF k
    <3>. QED BY <1>1, <3>1, <3>2
  <2>. QED BY <2>1, <2>2, <2>3, <2>4
<1>6. m \in ItemSets
  BY <1>2, <1>4, <1>5, ValidIf
<1>7. ASSUME NEW x \in Nat, NEW j \in 1 .. Len(m), Holds(m, j, x)
      PROVE  x \in Around(s, a, b) \/ (r.index <= x /\ x < r.index + r.count)
  <2>1. CASE j <= a
    <3>1. j \in 1 .. Len(s) /\ m[j] = s[j]
      BY <1>1, <1>2, <2>1
    <3>2. Holds(s, j, x)
      BY <1>7, <3>1 DEF Holds
    <3>. QED BY <2>1, <3>1, <3>2 DEF Around
  <2>2. CASE j = a + 1
    <3>1. m[j] = r
      BY <1>2, <2>2
    <3>. QED BY <1>7, <3>1 DEF Holds
  <2>3. CASE j > a + 1
    <3>. DEFINE k == j - a - 2 + b
    <3>1. k \in 1 .. Len(s) /\ m[j] = s[k] /\ k >= b
      BY <1>1, <1>2, <2>3
    <3>. HIDE DEF k
    <3>2. Holds(s, k, x)
      BY <1>7, <3>1 DEF Holds
    <3>. QED BY <3>1, <3>2 DEF Around
  <2>. QED BY <2>1, <2>2, <2>3
<1>8. ASSUME NEW x \in Around(s, a, b) PROVE Covers(m, x)
  <2>1. PICK k \in 1 .. Len(s) : (k <= a \/ k >= b) /\ Holds(s, k, x)
    BY DEF Around
  <2>2. CASE k <= a
    <3>1. k \in 1 .. Len(m) /\ m[k] = s[k]
      BY <1>1, <1>2, <2>2
    <3>. QED BY <2>1, <3>1 DEF Covers, Holds
  <2>3. CASE k >= b
    <3>. DEFINE j == k + a + 2 - b
    <3>1. j \in 1 .. Len(m) /\ ~(j <= a) /\ j # a + 1 /\ j - a - 2 + b = k
      BY <1>1, <1>2, <2>3
    <3>2. m[j] = s[k]
      BY <1>2, <3>1
    <3>. HIDE DEF j
    <3>. QED BY <2>1, <3>1, <3>2 DEF Covers, Holds
  <2>. QED BY <2>1, <2>2, <2>3
<1>9. ASSUME NEW x \in Nat, r.index <= x, x < r.index + r.count PROVE Covers(m, x)
  <2>1. a + 1 \in 1 .. Len(m) /\ m[a + 1] = r
    BY <1>1, <1>2
  <2>. QED BY <1>9, <2>1 DEF Covers, Holds
<1>10. \A x \in Nat : x \in AsSet(m) <=> Covers(m, x)
  BY <1>2, Members
<1>11. \A x \in Nat : Covers(m, x) <=> x \in Around(s, a, b) \/ (r.index <= x /\ x < r.index + r.count)
  BY <1>7, <1>8, <1>9 DEF Covers
<1>12. AsSet(m) \subseteq Nat /\ Around(s, a, b) \subseteq Nat
  BY <1>2, Members DEF Around
<1>. QED BY <1>6, <1>10, <1>11, <1>12

\* ... or with nothing in their place.
LEMMA RangeRemoved ==
    ASSUME NEW s \in ItemSets, NEW k \in 1 .. Len(s)
    PROVE  RemoveAt(s, k) \in ItemSets /\ AsSet(RemoveAt(s, k)) = Around(s, k - 1, k + 1)
<1>. DEFINE m == RemoveAt(s, k)
<1>1. /\ s \in Seq(Ranges) /\ Len(s) \in Nat
      /\ \A j \in 1 .. Len(s) : s[j].index \in Nat /\ s[j].count \in Nat /\ s[j].count > 0
      /\ \A j \in 2 .. Len(s) : s[j - 1].index + s[j - 1].count < s[j].index
  BY ValidParts
<1>2. /\ m \in Seq(Ranges) /\ Len(m) = Len(s) - 1
      /\ \A j \in 1 .. Len(s) - 1 : m[j] = IF j < k THEN s[j] ELSE s[j + 1]
  BY <1>1, RemoveAtRemoves
<1>. HIDE DEF m
<1>3. \A j \in 1 .. Len(m) : m[j].count > 0
  BY <1>1, <1>2
<1>4. \A j \in 2 .. Len(m) : m[j - 1].index + m[j - 1].count < m[j].index
  <2>. SUFFICES ASSUME NEW j \in 2 .. Len(m)
                PROVE  m[j - 1].index + m[j - 1].count < m[j].index
    OBVIOUS
  <2>1. j \in 2 .. Len(s) /\ j + 1 \in 2 .. Len(s) /\ j - 1 \in 1 .. Len(s) - 1 /\ j \in 1 .. Len(s) - 1
    BY <1>1, <1>2
  <2>2. CASE j < k
    <3>1. m[j] = s[j] /\ m[j - 1] = s[j - 1]
      BY <1>2, <2>1, <2>2
    <3>. QED BY <1>1, <2>1, <3>1
  <2>3. CASE j = k
    <3>1. m[j] = s[j + 1] /\ m[j - 1] = s[j - 1]
      BY <1>2, <2>1, <2>3
    <3>2. j - 1 \in 1 .. Len(s) /\ j + 1 \in 1 .. Len(s) /\ j - 1 < j + 1
      BY <2>1
    <3>3. s[j - 1].index + s[j - 1].count < s[j + 1].index
      BY <3>2, Apart
    <3>. QED BY <3>1, <3>3
  <2>4. CASE j > k
    <3>1. m[j] = s[j + 1] /\ m[j - 1] = s[j - 1 + 1] /\ j - 1 + 1 = j /\ j + 1 - 1 = j
      BY <1>2, <2>1, <2>4
    <3>2. s[j + 1 - 1].index + s[j + 1 - 1].count < s[j + 1].index
      BY <1>1, <2>1
    <3>. QED BY <3>1, <3>2
  <2>. QED BY <2>2, <2>3, <2>4
<1>5. m \in ItemSets
  BY <1>2, <1>3, <1>4, ValidIf
<1>6. \A x \in Nat : Covers(m, x) <=> x \in Around(s, k - 1, k + 1)
  <2>1. ASSUME NEW x \in Nat, NEW j \in 1 .. Len(m), Holds(m, j, x)
        PROVE  x \in Around(s, k - 1, k + 1)
    <3>1. j \in 1 .. Len(s) /\ j + 1 \in 1 .. Len(s) /\ j \in 1 .. Len(s) - 1
      BY <1>1, <1>2
    <3>2. CASE j < k
      <4>1. Holds(s, j, x) /\ j <= k - 1
        BY <1>2, <2>1, <3>1, <3>2 DEF Holds
      <4>. QED BY <3>1, <4>1 DEF Around
    <3>3. CASE ~(j < k)
      <4>1. Holds(s, j + 1, x) /\ j + 1 >= k + 1
        BY <1>2, <2>1, <3>1, <3>3 DEF Holds
      <4>. QED BY <3>1, <4>1 DEF Around
    <3>. QED BY <3>2, <3>3
  <2>2. ASSUME NEW x \in Nat, NEW j \in 1 .. Len(s), j <= k - 1 \/ j >= k + 1, Holds(s, j, x)
        PROVE  Covers(m, x)
    <3>1. CASE j <= k - 1
      <4>1. j \in 1 .. Len(m) /\ m[j] = s[j]
        BY <1>1, <1>2, <3>1
      <4>. QED BY <2>2, <4>1 DEF Covers, Holds
    <3>2. CASE j >= k + 1
      <4>1. j - 1 \in 1 .. Len(m) /\ m[j - 1] = s[j - 1 + 1] /\ j - 1 + 1 = j
        BY <1>1, <1>2, <3>2
      <4>. QED BY <2>2, <4>1 DEF Covers, Holds
    <3>. QED BY <2>2, <3>1, <3>2
  <2>. QED BY <2>1, <2>2 DEF Covers, Around
<1>7. AsSet(m) = Around(s, k - 1, k + 1)
  <2>1. AsSet(m) = {x \in Nat : Covers(m, x)} /\ Around(s, k - 1, k + 1) \subseteq Nat
    BY <1>2, Members DEF Around
  <2>. QED BY <1>6, <2>1
<1>. QED BY <1>5, <1>7 DEF m

LEMMA SplicedAdds ==
    ASSUME NEW s \in ItemSets, NEW a \in 0 .. Len(s), NEW b \in a + 1 .. Len(s) + 1,
           NEW r \in Ranges, r.count > 0,
           a > 0 => s[a].index + s[a].count < r.index,
           b <= Len(s) => r.index + r.count < s[b].index,
           NEW m, IsSpliced(m, s, a, b, r), NEW i \in Nat,
           \A x \in Nat : r.index <= x /\ x < r.index + r.count
                <=> x = i \/ \E k \in a + 1 .. b - 1 : Holds(s, k, x)
    PROVE  m \in ItemSets /\ AsSet(m) = AsSet(s) \cup {i}
<1>1. /\ m \in ItemSets
      /\ AsSet(m) = Around(s, a, b) \cup {x \in Nat : r.index <= x /\ x < r.index + r.count}
  BY Spliced
<1>2. s \in Seq(Ranges) /\ Len(s) \in Nat /\ AsSet(s) = {x \in Nat : Covers(s, x)}
  BY ValidParts, Members
<1>3. ASSUME NEW x \in Nat
      PROVE  x \in Around(s, a, b) \/ (\E k \in a + 1 .. b - 1 : Holds(s, k, x)) <=> Covers(s, x)
  <2>1. ASSUME NEW k \in 1 .. Len(s), Holds(s, k, x)
        PROVE  x \in Around(s, a, b) \/ \E j \in a + 1 .. b - 1 : Holds(s, j, x)
    <3>1. k <= a \/ k >= b \/ k \in a + 1 .. b - 1
      BY <1>2
    <3>. QED BY <2>1, <3>1 DEF Around
  <2>2. \A k \in a + 1 .. b - 1 : k \in 1 .. Len(s)
    BY <1>2
  <2>. QED BY <2>1, <2>2 DEF Around, Covers
<1>4. Around(s, a, b) \subseteq Nat
  BY DEF Around
<1>. QED BY <1>1, <1>2, <1>3, <1>4

LEMMA ReplaceSplices ==
    ASSUME NEW s \in Seq(Ranges), NEW k \in 1 .. Len(s), NEW r \in Ranges
    PROVE  IsSpliced(ReplaceAt(s, k, r), s, k - 1, k + 1, r)
<1>. DEFINE m == ReplaceAt(s, k, r)
<1>1. /\ m \in Seq(Ranges) /\ Len(m) = Len(s)
      /\ \A j \in 1 .. Len(s) : m[j] = IF j = k THEN r ELSE s[j]
  BY DEF ReplaceAt
<1>. HIDE DEF m
<1>2. Len(m) = k - 1 + 1 + (Len(s) + 1 - (k + 1))
  BY <1>1
<1>3. ASSUME NEW j \in 1 .. Len(m)
      PROVE  m[j] = IF j <= k - 1 THEN s[j]
                    ELSE IF j = k - 1 + 1 THEN r ELSE s[j - (k - 1) - 2 + (k + 1)]
  <2>1. j - (k - 1) - 2 + (k + 1) = j /\ (j <= k - 1 => j # k) /\ (j = k - 1 + 1 <=> j = k)
    BY <1>1
  <2>. QED BY <1>1, <2>1
<1>4. IsSpliced(m, s, k - 1, k + 1, r)
  BY <1>1, <1>2, <1>3 DEF IsSpliced
<1>. QED BY <1>4 DEF m

LEMMA InsertSplices ==
    ASSUME NEW s \in Seq(Ranges), NEW k \in 1 .. Len(s) + 1, NEW r \in Ranges
    PROVE  IsSpliced(InsertAt(s, k, r), s, k - 1, k, r)
<1>. DEFINE m == InsertAt(s, k, r)
<1>1. m \in Seq(Ranges) /\ IsInserted(m, s, k, r)
  BY InsertAtInserts
<1>. HIDE DEF m
<1>2. /\ Len(m) = Len(s) + 1
      /\ \A j \in 1 .. Len(s) + 1 : m[j] = IF j < k THEN s[j] ELSE IF j = k THEN r ELSE s[j - 1]
  BY <1>1 DEF IsInserted
<1>3. Len(m) = k - 1 + 1 + (Len(s) + 1 - k)
  BY <1>2
<1>4. ASSUME NEW j \in 1 .. Len(m)
      PROVE  m[j] = IF j <= k - 1 THEN s[j]
                    ELSE IF j = k - 1 + 1 THEN r ELSE s[j - (k - 1) - 2 + k]
  <2>1. j - (k - 1) - 2 + k = j - 1 /\ (j <= k - 1 <=> j < k) /\ (j = k - 1 + 1 <=> j = k)
    BY <1>2
  <2>. QED BY <1>2, <2>1
<1>5. IsSpliced(m, s, k - 1, k, r)
  BY <1>1, <1>3, <1>4 DEF IsSpliced
<1>. QED BY <1>5 DEF m

LEMMA JoinSplices ==
    ASSUME NEW s \in Seq(Ranges), NEW k \in 1 .. Len(s), k + 1 <= Len(s), NEW r \in Ranges
    PROVE  IsSpliced(ReplaceAt(RemoveAt(s, k + 1), k, r), s, k - 1, k + 2, r)
<1>. DEFINE l == RemoveAt(s, k + 1)
            m == ReplaceAt(l, k, r)
<1>1. /\ l \in Seq(Ranges) /\ Len(l) = Len(s) - 1
      /\ \A j \in 1 .. Len(s) - 1 : l[j] = IF j < k + 1 THEN s[j] ELSE s[j + 1]
  <2>1. k + 1 \in 1 .. Len(s)
    OBVIOUS
  <2>. QED BY <2>1, RemoveAtRemoves
<1>. HIDE DEF l
<1>2. /\ m \in Seq(Ranges) /\ Len(m) = Len(l)
      /\ \A j \in 1 .. Len(l) : m[j] = IF j = k THEN r ELSE l[j]
  <2>1. k \in 1 .. Len(l) /\ l \in Seq(Ranges)
    BY <1>1
  <2>. QED BY <2>1, ReplaceAtReplaces
<1>. HIDE DEF m
<1>3. Len(m) = k - 1 + 1 + (Len(s) + 1 - (k + 2))
  BY <1>1, <1>2
<1>4. ASSUME NEW j \in 1 .. Len(m)
      PROVE  m[j] = IF j <= k - 1 THEN s[j]
                    ELSE IF j = k - 1 + 1 THEN r ELSE s[j - (k - 1) - 2 + (k + 2)]
  <2>1. /\ j - (k - 1) - 2 + (k + 2) = j + 1 /\ (j <= k - 1 <=> j < k) /\ (j = k - 1 + 1 <=> j = k)
        /\ (j < k => j < k + 1) /\ (j < k + 1 <=> j < k \/ j = k)
    BY <1>1, <1>2
  <2>. QED BY <1>1, <1>2, <2>1
<1>5. IsSpliced(m, s, k - 1, k + 2, r)
  BY <1>2, <1>3, <1>4 DEF IsSpliced
<1>. QED BY <1>5 DEF m, l

LEMMA HoldsIn ==
    ASSUME NEW s, NEW k, NEW x, NEW p, NEW c, s[k].index = p, s[k].count = c
    PROVE  Holds(s, k, x) <=> p <= x /\ x < p + c
BY DEF Holds

\* The four ways of insert().
LEMMA InsertJoins ==
    ASSUME NEW s \in ItemSets, NEW i \in Nat, NEW k \in 1 .. Len(s), k + 1 <= Len(s),
           i = s[k].index + s[k].count, i = s[k + 1].index - 1, NEW m,
           m = ReplaceAt(RemoveAt(s, k + 1), k,
                         KItemRange(s[k].index, s[k].count + 1 + s[k + 1].count))
    PROVE  m \in ItemSets /\ AsSet(m) = AsSet(s) \cup {i}
<1>. DEFINE p == s[k].index
            c == s[k].count
            q == s[k + 1].index
            d == s[k + 1].count
            r == KItemRange(p, c + 1 + d)
            a == k - 1
            b == k + 2
<1>1. /\ s \in Seq(Ranges) /\ Len(s) \in Nat /\ k + 1 \in 1 .. Len(s) /\ k + 1 \in 2 .. Len(s)
      /\ a \in 0 .. Len(s) /\ b \in a + 1 .. Len(s) + 1
  <2>. DEFINE n == Len(s)
  <2>1. s \in Seq(Ranges) /\ n \in Nat
    BY ValidParts
  <2>2. k \in 1 .. n /\ k + 1 <= n
    OBVIOUS
  <2>. HIDE DEF n
  <2>3. k + 1 \in 1 .. n /\ k + 1 \in 2 .. n /\ a \in 0 .. n /\ b \in a + 1 .. n + 1
    BY <2>1, <2>2
  <2>. QED BY <2>1, <2>3 DEF n
<1>2. p \in Nat /\ c \in Nat /\ q \in Nat /\ d \in Nat /\ c > 0 /\ d > 0
  BY <1>1, ValidParts
<1>3. i = p + c /\ i = q - 1
  OBVIOUS
<1>4. a > 0 => s[a].index + s[a].count < p
  <2>1. a > 0 => k \in 2 .. Len(s)
    BY <1>1
  <2>. QED BY <2>1, ValidParts
<1>5. b <= Len(s) => q + d < s[b].index
  <2>1. b <= Len(s) => b \in 2 .. Len(s) /\ b - 1 = k + 1
    BY <1>1
  <2>. QED BY <2>1, ValidParts
<1>6. \A x \in Nat : /\ Holds(s, k, x) <=> p <= x /\ x < p + c
                     /\ Holds(s, k + 1, x) <=> q <= x /\ x < q + d
  BY HoldsIn
<1>7. a + 1 .. b - 1 = {k, k + 1}
  OBVIOUS
<1>8. IsSpliced(m, s, a, b, r) /\ r \in Ranges /\ r.index = p /\ r.count = c + 1 + d
  <2>. HIDE DEF p, c, q, d
  <2>1. c + 1 + d \in Nat
    BY <1>2
  <2>2. r \in Ranges /\ r.index = p /\ r.count = c + 1 + d
    BY <1>2, <2>1, NewRange
  <2>3. m = ReplaceAt(RemoveAt(s, k + 1), k, r)
    BY DEF p, c, d
  <2>. HIDE DEF r
  <2>. QED BY <1>1, <2>2, <2>3, JoinSplices
<1>. HIDE DEF p, c, q, d, r, a, b
<1>9. \A x \in Nat : r.index <= x /\ x < r.index + r.count
         <=> x = i \/ \E j \in a + 1 .. b - 1 : Holds(s, j, x)
  <2>. SUFFICES ASSUME NEW x \in Nat
                PROVE  p <= x /\ x < p + (c + 1 + d)
                         <=> x = i \/ Holds(s, k, x) \/ Holds(s, k + 1, x)
    BY <1>7, <1>8
  <2>. QED BY <1>2, <1>3, <1>6
<1>10. r.count > 0 /\ r.index = p /\ r.index + r.count = q + d
  BY <1>2, <1>3, <1>8
<1>. QED BY <1>1, <1>4, <1>5, <1>8, <1>9, <1>10, SplicedAdds

LEMMA InsertFollows ==
    ASSUME NEW s \in ItemSets, NEW i \in Nat, NEW k \in 1 .. Len(s),
           i = s[k].index + s[k].count, k + 1 <= Len(s) => i + 1 < s[k + 1].index, NEW m,
           m = ReplaceAt(s, k, KItemRange(s[k].index, s[k].count + 1))
    PROVE  m \in ItemSets /\ AsSet(m) = AsSet(s) \cup {i}
<1>. DEFINE p == s[k].index
            c == s[k].count
            r == KItemRange(p, c + 1)
            a == k - 1
            b == k + 1
<1>1. /\ s \in Seq(Ranges) /\ Len(s) \in Nat
      /\ a \in 0 .. Len(s) /\ b \in a + 1 .. Len(s) + 1
  BY ValidParts
<1>2. p \in Nat /\ c \in Nat /\ c > 0
  BY <1>1, ValidParts
<1>3. i = p + c
  OBVIOUS
<1>4. a > 0 => s[a].index + s[a].count < p
  <2>1. a > 0 => k \in 2 .. Len(s)
    BY <1>1
  <2>. QED BY <2>1, ValidParts
<1>5. b <= Len(s) => i + 1 < s[b].index
  OBVIOUS
<1>6. \A x \in Nat : Holds(s, k, x) <=> p <= x /\ x < p + c
  BY HoldsIn
<1>7. a + 1 .. b - 1 = {k}
  OBVIOUS
<1>8. IsSpliced(m, s, a, b, r) /\ r \in Ranges /\ r.index = p /\ r.count = c + 1
  <2>. HIDE DEF p, c
  <2>1. c + 1 \in Nat
    BY <1>2
  <2>2. r \in Ranges /\ r.index = p /\ r.count = c + 1
    BY <1>2, <2>1, NewRange
  <2>3. m = ReplaceAt(s, k, r)
    BY DEF p, c
  <2>. HIDE DEF r
  <2>. QED BY <1>1, <2>2, <2>3, ReplaceSplices
<1>. HIDE DEF p, c, r, a, b
<1>9. \A x \in Nat : r.index <= x /\ x < r.index + r.count
         <=> x = i \/ \E j \in a + 1 .. b - 1 : Holds(s, j, x)
  <2>. SUFFICES ASSUME NEW x \in Nat
                PROVE  p <= x /\ x < p + (c + 1) <=> x = i \/ Holds(s, k, x)
    BY <1>7, <1>8
  <2>. QED BY <1>2, <1>3, <1>6
<1>10. r.count > 0 /\ r.index = p /\ r.index + r.count = i + 1
  BY <1>2, <1>3, <1>8
<1>11. /\ a > 0 => s[a].index + s[a].count < r.index
       /\ b <= Len(s) => r.index + r.count < s[b].index
  BY <1>4, <1>5, <1>10
<1>. QED BY <1>1, <1>8, <1>9, <1>10, <1>11, SplicedAdds, SMTT(30)

LEMMA InsertPrecedes ==
    ASSUME NEW s \in ItemSets, NEW i \in Nat, NEW k \in 1 .. Len(s),
           i = s[k].index - 1, k > 1 => s[k - 1].index + s[k - 1].count < i, NEW m,
           m = ReplaceAt(s, k, KItemRange(i, s[k].count + 1))
    PROVE  m \in ItemSets /\ AsSet(m) = AsSet(s) \cup {i}
<1>. DEFINE p == s[k].index
            c == s[k].count
            r == KItemRange(i, c + 1)
            a == k - 1
            b == k + 1
<1>1. /\ s \in Seq(Ranges) /\ Len(s) \in Nat
      /\ a \in 0 .. Len(s) /\ b \in a + 1 .. Len(s) + 1
  BY ValidParts
<1>2. p \in Nat /\ c \in Nat /\ c > 0
  BY <1>1, ValidParts
<1>3. i = p - 1
  OBVIOUS
<1>4. a > 0 => s[a].index + s[a].count < i
  OBVIOUS
<1>5. b <= Len(s) => p + c < s[b].index
  <2>1. b <= Len(s) => b \in 2 .. Len(s) /\ b - 1 = k
    BY <1>1
  <2>. QED BY <2>1, ValidParts
<1>6. \A x \in Nat : Holds(s, k, x) <=> p <= x /\ x < p + c
  BY HoldsIn
<1>7. a + 1 .. b - 1 = {k}
  OBVIOUS
<1>8. IsSpliced(m, s, a, b, r) /\ r \in Ranges /\ r.index = i /\ r.count = c + 1
  <2>. HIDE DEF p, c
  <2>1. c + 1 \in Nat
    BY <1>2
  <2>2. r \in Ranges /\ r.index = i /\ r.count = c + 1
    BY <2>1, NewRange
  <2>3. m = ReplaceAt(s, k, r)
    BY DEF c
  <2>. HIDE DEF r
  <2>. QED BY <1>1, <2>2, <2>3, ReplaceSplices
<1>. HIDE DEF p, c, r, a, b
<1>9. \A x \in Nat : r.index <= x /\ x < r.index + r.count
         <=> x = i \/ \E j \in a + 1 .. b - 1 : Holds(s, j, x)
  <2>. SUFFICES ASSUME NEW x \in Nat
                PROVE  i <= x /\ x < i + (c + 1) <=> x = i \/ Holds(s, k, x)
    BY <1>7, <1>8
  <2>. QED BY <1>2, <1>3, <1>6
<1>10. r.count > 0 /\ r.index = i /\ r.index + r.count = p + c
  BY <1>2, <1>3, <1>8
<1>11. /\ r.count > 0 /\ IsSpliced(m, s, a, b, r) /\ r \in Ranges
       /\ a > 0 => s[a].index + s[a].count < r.index
       /\ b <= Len(s) => r.index + r.count < s[b].index
  BY <1>4, <1>5, <1>8, <1>10
<1>. QED BY <1>1, <1>9, <1>11, SplicedAdds

LEMMA InsertAlone ==
    ASSUME NEW s \in ItemSets, NEW i \in Nat, NEW k \in 1 .. Len(s) + 1,
           k > 1 => s[k - 1].index + s[k - 1].count < i, k <= Len(s) => i + 1 < s[k].index,
           NEW m, m = InsertAt(s, k, KItemRange(i, 1))
    PROVE  m \in ItemSets /\ AsSet(m) = AsSet(s) \cup {i}
<1>. DEFINE r == KItemRange(i, 1)
            a == k - 1
<1>1. s \in Seq(Ranges) /\ Len(s) \in Nat /\ a \in 0 .. Len(s) /\ k \in a + 1 .. Len(s) + 1
  BY ValidParts
<1>2. a > 0 => s[a].index + s[a].count < i
  OBVIOUS
<1>3. a + 1 .. k - 1 = {}
  OBVIOUS
<1>4. r \in Ranges /\ r.index = i /\ r.count = 1
  BY NewRange
<1>5. m = InsertAt(s, k, r)
  OBVIOUS
<1>. HIDE DEF r
<1>6. IsSpliced(m, s, a, k, r)
  BY <1>1, <1>4, <1>5, InsertSplices
<1>. HIDE DEF a
<1>7. \A x \in Nat : r.index <= x /\ x < r.index + r.count
         <=> x = i \/ \E j \in a + 1 .. k - 1 : Holds(s, j, x)
  BY <1>3, <1>4
<1>8. /\ r.count > 0
      /\ a > 0 => s[a].index + s[a].count < r.index
      /\ k <= Len(s) => r.index + r.count < s[k].index
  BY <1>2, <1>4
<1>. QED BY <1>1, <1>4, <1>6, <1>7, <1>8, SplicedAdds

\* insert() adds the index, and the list stays valid: ranges that meet are joined.
THEOREM InsertCorrect ==
    ASSUME NEW s \in ItemSets, NEW i \in Nat
    PROVE  Insert(s, i) \in ItemSets /\ AsSet(Insert(s, i)) = AsSet(s) \cup {i}
<1>. DEFINE low == Low(s, i)
            high == low + 1
            follows == low > 0 /\ i = Behind(s[low])
            precedes == high <= Len(s) /\ i = s[high].index - 1
            m == Insert(s, i)
<1>1. /\ Len(s) \in Nat
      /\ \A k \in 1 .. Len(s) : s[k].index \in Nat /\ s[k].count \in Nat
  BY ValidParts
<1>2. /\ low \in 0 .. Len(s)
      /\ \A k \in 1 .. low : s[k].index <= i
      /\ \A k \in low + 1 .. Len(s) : s[k].index > i
  BY LowFinds
<1>3. CASE ContainsItem(s, i)
  <2>1. Insert(s, i) = s /\ i \in AsSet(s)
    BY <1>3, ContainsTells DEF Insert
  <2>. QED BY <2>1
<1>4. CASE ~ContainsItem(s, i)
  <2>1. m = IF follows /\ precedes
            THEN ReplaceAt(RemoveAt(s, high), low,
                           KItemRange(s[low].index, s[low].count + 1 + s[high].count))
            ELSE IF follows THEN ReplaceAt(s, low, KItemRange(s[low].index, s[low].count + 1))
            ELSE IF precedes THEN ReplaceAt(s, high, KItemRange(i, s[high].count + 1))
            ELSE InsertAt(s, high, KItemRange(i, 1))
    BY <1>4 DEF Insert
  <2>2. /\ follows <=> low > 0 /\ i = s[low].index + s[low].count
        /\ precedes <=> high <= Len(s) /\ i = s[high].index - 1
    BY DEF Behind
  <2>3. low > 0 /\ ~follows => s[low].index + s[low].count < i
    <3>1. low > 0 => ~(i < s[low].index + s[low].count)
      BY <1>4 DEF ContainsItem, Behind
    <3>2. low > 0 => s[low].index \in Nat /\ s[low].count \in Nat
      BY <1>1, <1>2
    <3>. DEFINE e == s[low].index + s[low].count
    <3>3. low > 0 => e \in Nat
      BY <3>2
    <3>. HIDE DEF e
    <3>4. low > 0 /\ i # e /\ ~(i < e) => e < i
      BY <3>3
    <3>. QED BY <2>2, <3>1, <3>4 DEF e
  <2>4. high <= Len(s) /\ ~precedes => i + 1 < s[high].index
    <3>1. high <= Len(s) => s[high].index > i /\ s[high].index \in Nat
      BY <1>1, <1>2
    <3>. QED BY <2>2, <3>1
  <2>5. low > 0 => low \in 1 .. Len(s)
    BY <1>2
  <2>6. high \in 1 .. Len(s) + 1 /\ high - 1 = low /\ (high > 1 => low > 0)
    BY <1>1, <1>2
  <2>. HIDE DEF follows, precedes, m, low
  <2>7. CASE follows /\ precedes
    BY <2>1, <2>2, <2>5, <2>7, InsertJoins DEF m
  <2>8. CASE follows /\ ~precedes
    BY <2>1, <2>2, <2>4, <2>5, <2>8, InsertFollows DEF m
  <2>9. CASE ~follows /\ precedes
    <3>1. high \in 1 .. Len(s)
      BY <1>1, <2>2, <2>6, <2>9
    <3>. HIDE DEF high
    <3>. QED BY <2>1, <2>2, <2>3, <2>6, <2>9, <3>1, InsertPrecedes DEF m
  <2>10. CASE ~follows /\ ~precedes
    <3>. HIDE DEF high
    <3>. QED BY <2>1, <2>3, <2>4, <2>6, <2>10, InsertAlone DEF m
  <2>. QED BY <2>7, <2>8, <2>9, <2>10
<1>. QED BY <1>3, <1>4

\* What makes a list stand for the old indexes but one.
LEMMA SplicedDrops ==
    ASSUME NEW s \in ItemSets, NEW k \in 1 .. Len(s), NEW i \in Nat, Holds(s, k, i),
           NEW r \in Ranges, r.count > 0,
           k > 1 => s[k - 1].index + s[k - 1].count < r.index,
           k < Len(s) => r.index + r.count < s[k + 1].index,
           NEW m, IsSpliced(m, s, k - 1, k + 1, r),
           \A x \in Nat : r.index <= x /\ x < r.index + r.count <=> x # i /\ Holds(s, k, x)
    PROVE  m \in ItemSets /\ AsSet(m) = AsSet(s) \ {i}
<1>. DEFINE a == k - 1
            b == k + 1
<1>1. s \in Seq(Ranges) /\ Len(s) \in Nat /\ AsSet(s) = {x \in Nat : Covers(s, x)}
  BY ValidParts, Members
<1>2. a \in 0 .. Len(s) /\ b \in a + 1 .. Len(s) + 1
  BY <1>1
<1>3. /\ a > 0 => s[a].index + s[a].count < r.index
      /\ b <= Len(s) => r.index + r.count < s[b].index
      /\ IsSpliced(m, s, a, b, r)
  BY <1>1
<1>4. /\ m \in ItemSets
      /\ AsSet(m) = Around(s, a, b) \cup {x \in Nat : r.index <= x /\ x < r.index + r.count}
  <2>. HIDE DEF a, b
  <2>. QED BY <1>2, <1>3, Spliced
<1>5. ASSUME NEW x \in Nat, NEW j \in 1 .. Len(s), Holds(s, j, x)
      PROVE  /\ j # k => x # i
             /\ x \in Around(s, a, b) \/ j = k
  <2>1. j # k => x # i
    <3>. SUFFICES ASSUME j # k, x = i PROVE FALSE
      OBVIOUS
    <3>1. /\ s[j].index \in Nat /\ s[j].count \in Nat /\ s[k].index \in Nat /\ s[k].count \in Nat
          /\ s[j].index <= i /\ i < s[j].index + s[j].count
          /\ s[k].index <= i /\ i < s[k].index + s[k].count
      BY <1>5, ValidParts DEF Holds
    <3>2. j < k => s[j].index + s[j].count < s[k].index
      BY Apart
    <3>3. k < j => s[k].index + s[k].count < s[j].index
      BY Apart
    <3>. DEFINE p == s[j].index
                c == s[j].count
                q == s[k].index
                d == s[k].count
    <3>4. /\ p \in Nat /\ c \in Nat /\ q \in Nat /\ d \in Nat /\ p <= i /\ i < p + c
          /\ q <= i /\ i < q + d /\ (j < k => p + c < q) /\ (k < j => q + d < p)
      BY <3>1, <3>2, <3>3
    <3>. HIDE DEF p, c, q, d
    <3>. QED BY <3>4
  <2>2. j <= a \/ j >= b \/ j = k
    BY <1>1
  <2>. QED BY <1>5, <2>1, <2>2 DEF Around
<1>6. ASSUME NEW x \in Around(s, a, b) PROVE x # i /\ Covers(s, x)
  <2>1. PICK j \in 1 .. Len(s) : (j <= a \/ j >= b) /\ Holds(s, j, x)
    BY DEF Around
  <2>2. x \in Nat /\ j # k
    BY <2>1 DEF Around
  <2>. QED BY <1>5, <2>1, <2>2 DEF Covers
<1>7. ASSUME NEW x \in Nat, Covers(s, x), x # i
      PROVE  x \in Around(s, a, b) \/ (r.index <= x /\ x < r.index + r.count)
  <2>1. PICK j \in 1 .. Len(s) : Holds(s, j, x)
    BY <1>7 DEF Covers
  <2>. QED BY <1>5, <1>7, <2>1
<1>8. \A x \in Nat : r.index <= x /\ x < r.index + r.count => Covers(s, x) /\ x # i
  BY DEF Covers
<1>9. Around(s, a, b) \subseteq Nat
  BY DEF Around
<1>. QED BY <1>1, <1>4, <1>6, <1>7, <1>8, <1>9

LEMMA EraseFirst ==
    ASSUME NEW s \in ItemSets, NEW i \in Nat, NEW k \in 1 .. Len(s),
           i = s[k].index, s[k].count > 1, NEW m,
           m = ReplaceAt(s, k, KItemRange(i + 1, s[k].count - 1))
    PROVE  m \in ItemSets /\ AsSet(m) = AsSet(s) \ {i}
<1>. DEFINE p == s[k].index
            c == s[k].count
            r == KItemRange(i + 1, c - 1)
<1>1. s \in Seq(Ranges) /\ Len(s) \in Nat
  BY ValidParts
<1>2. p \in Nat /\ c \in Nat /\ c > 1 /\ i = p
  BY <1>1, ValidParts
<1>3. k > 1 => s[k - 1].index + s[k - 1].count < i + 1
  <2>1. k > 1 => k \in 2 .. Len(s)
    BY <1>1
  <2>2. k > 1 => s[k - 1].index + s[k - 1].count < i /\ s[k - 1].index \in Nat /\ s[k - 1].count \in Nat
    BY <2>1, ValidParts
  <2>. QED BY <2>2
<1>4. k < Len(s) => p + c < s[k + 1].index
  <2>1. k < Len(s) => k + 1 \in 2 .. Len(s) /\ k + 1 - 1 = k
    BY <1>1
  <2>. QED BY <2>1, ValidParts
<1>5. \A x \in Nat : Holds(s, k, x) <=> p <= x /\ x < p + c
  BY HoldsIn
<1>6. IsSpliced(m, s, k - 1, k + 1, r) /\ r \in Ranges /\ r.index = i + 1 /\ r.count = c - 1
  <2>. HIDE DEF p, c
  <2>1. c - 1 \in Nat /\ i + 1 \in Nat
    BY <1>2
  <2>2. r \in Ranges /\ r.index = i + 1 /\ r.count = c - 1
    BY <2>1, NewRange
  <2>3. m = ReplaceAt(s, k, r)
    BY DEF c
  <2>. HIDE DEF r
  <2>. QED BY <1>1, <2>2, <2>3, ReplaceSplices
<1>. HIDE DEF p, c, r
<1>7. \A x \in Nat : r.index <= x /\ x < r.index + r.count <=> x # i /\ Holds(s, k, x)
  BY <1>2, <1>5, <1>6
<1>8. Holds(s, k, i)
  BY <1>2, <1>5
<1>9. /\ r.count > 0 /\ IsSpliced(m, s, k - 1, k + 1, r) /\ r \in Ranges
      /\ k > 1 => s[k - 1].index + s[k - 1].count < r.index
      /\ k < Len(s) => r.index + r.count < s[k + 1].index
  <2>1. r.index + r.count = p + c /\ r.count > 0
    BY <1>2, <1>6
  <2>. QED BY <1>3, <1>4, <1>6, <2>1
<1>. QED BY <1>1, <1>7, <1>8, <1>9, SplicedDrops

LEMMA EraseLast ==
    ASSUME NEW s \in ItemSets, NEW i \in Nat, NEW k \in 1 .. Len(s),
           i # s[k].index, i = (s[k].index + s[k].count) - 1, NEW m,
           m = ReplaceAt(s, k, KItemRange(s[k].index, s[k].count - 1))
    PROVE  m \in ItemSets /\ AsSet(m) = AsSet(s) \ {i}
<1>. DEFINE p == s[k].index
            c == s[k].count
            r == KItemRange(p, c - 1)
<1>1. s \in Seq(Ranges) /\ Len(s) \in Nat
  BY ValidParts
<1>2. p \in Nat /\ c \in Nat /\ c > 0 /\ i = p + c - 1 /\ i # p
  BY <1>1, ValidParts
<1>3. k > 1 => s[k - 1].index + s[k - 1].count < p
  <2>1. k > 1 => k \in 2 .. Len(s)
    BY <1>1
  <2>. QED BY <2>1, ValidParts
<1>4. k < Len(s) => p + c < s[k + 1].index /\ s[k + 1].index \in Nat
  <2>1. k < Len(s) => k + 1 \in 2 .. Len(s) /\ k + 1 - 1 = k /\ k + 1 \in 1 .. Len(s)
    BY <1>1
  <2>. QED BY <2>1, ValidParts
<1>5. \A x \in Nat : Holds(s, k, x) <=> p <= x /\ x < p + c
  BY HoldsIn
<1>6. IsSpliced(m, s, k - 1, k + 1, r) /\ r \in Ranges /\ r.index = p /\ r.count = c - 1
  <2>. HIDE DEF p, c
  <2>1. c - 1 \in Nat
    BY <1>2
  <2>2. r \in Ranges /\ r.index = p /\ r.count = c - 1
    BY <1>2, <2>1, NewRange
  <2>3. m = ReplaceAt(s, k, r)
    BY DEF p, c
  <2>. HIDE DEF r
  <2>. QED BY <1>1, <2>2, <2>3, ReplaceSplices
<1>. HIDE DEF p, c, r
<1>7. \A x \in Nat : r.index <= x /\ x < r.index + r.count <=> x # i /\ Holds(s, k, x)
  BY <1>2, <1>5, <1>6
<1>8. Holds(s, k, i)
  BY <1>2, <1>5
<1>9. /\ r.count > 0 /\ IsSpliced(m, s, k - 1, k + 1, r) /\ r \in Ranges
      /\ k > 1 => s[k - 1].index + s[k - 1].count < r.index
      /\ k < Len(s) => r.index + r.count < s[k + 1].index
  <2>1. r.index + r.count = p + c - 1 /\ r.count > 0
    BY <1>2, <1>6
  <2>2. k < Len(s) => p + c - 1 < s[k + 1].index
    BY <1>2, <1>4
  <2>. QED BY <1>3, <1>6, <2>1, <2>2
<1>. QED BY <1>1, <1>7, <1>8, <1>9, SplicedDrops

LEMMA OnlyOne ==
    ASSUME NEW s \in ItemSets, NEW j \in 1 .. Len(s), NEW k \in 1 .. Len(s), j # k,
           NEW x \in Nat, Holds(s, j, x)
    PROVE  ~Holds(s, k, x)
<1>. SUFFICES ASSUME Holds(s, k, x) PROVE FALSE
  OBVIOUS
<1>. DEFINE p == s[j].index
            c == s[j].count
            q == s[k].index
            d == s[k].count
<1>1. p \in Nat /\ c \in Nat /\ q \in Nat /\ d \in Nat /\ Len(s) \in Nat
  BY ValidParts
<1>2. p <= x /\ x < p + c /\ q <= x /\ x < q + d
  BY DEF Holds
<1>3. (j < k => p + c < q) /\ (k < j => q + d < p)
  BY Apart
<1>. HIDE DEF p, c, q, d
<1>. QED BY <1>1, <1>2, <1>3

LEMMA EraseWhole ==
    ASSUME NEW s \in ItemSets, NEW i \in Nat, NEW k \in 1 .. Len(s),
           i = s[k].index, ~(s[k].count > 1), NEW m, m = RemoveAt(s, k)
    PROVE  m \in ItemSets /\ AsSet(m) = AsSet(s) \ {i}
<1>1. s \in Seq(Ranges) /\ Len(s) \in Nat /\ AsSet(s) = {x \in Nat : Covers(s, x)}
  BY ValidParts, Members
<1>2. m \in ItemSets /\ AsSet(m) = Around(s, k - 1, k + 1)
  BY RangeRemoved
<1>3. \A x \in Nat : Holds(s, k, x) <=> x = i
  <2>. DEFINE c == s[k].count
  <2>1. c \in Nat /\ c > 0 /\ ~(c > 1)
    BY ValidParts
  <2>2. \A x \in Nat : Holds(s, k, x) <=> i <= x /\ x < i + c
    BY HoldsIn
  <2>. HIDE DEF c
  <2>. QED BY <2>1, <2>2
<1>4. ASSUME NEW x \in Nat PROVE x \in Around(s, k - 1, k + 1) <=> Covers(s, x) /\ x # i
  <2>1. ASSUME NEW j \in 1 .. Len(s), j <= k - 1 \/ j >= k + 1, Holds(s, j, x) PROVE x # i
    BY <1>3, <2>1, OnlyOne
  <2>2. ASSUME NEW j \in 1 .. Len(s), Holds(s, j, x), x # i PROVE j <= k - 1 \/ j >= k + 1
    <3>1. j # k
      BY <1>3, <2>2
    <3>. QED BY <3>1
  <2>. QED BY <2>1, <2>2 DEF Around, Covers
<1>5. Around(s, k - 1, k + 1) \subseteq Nat
  BY DEF Around
<1>. QED BY <1>1, <1>2, <1>4, <1>5

LEMMA RestOf ==
    ASSUME NEW e \in Nat, NEW i \in Nat, i + 1 < e, NEW a, NEW b, a = i + 1, b = e - i - 1
    PROVE  a + b = e /\ b > 0
OBVIOUS

LEMMA EraseMiddle ==
    ASSUME NEW s \in ItemSets, NEW i \in Nat, NEW k \in 1 .. Len(s),
           s[k].index < i, i + 1 < s[k].index + s[k].count, NEW m,
           m = InsertAt(ReplaceAt(s, k, KItemRange(s[k].index, i - s[k].index)),
                        k + 1, KItemRange(i + 1, (s[k].index + s[k].count) - i - 1))
    PROVE  m \in ItemSets /\ AsSet(m) = AsSet(s) \ {i}
<1>. DEFINE p == s[k].index
            c == s[k].count
            r == KItemRange(p, i - p)
            r2 == KItemRange(i + 1, (p + c) - i - 1)
            l == ReplaceAt(s, k, r)
<1>1. s \in Seq(Ranges) /\ Len(s) \in Nat /\ AsSet(s) = {x \in Nat : Covers(s, x)}
  BY ValidParts, Members
<1>2. p \in Nat /\ c \in Nat /\ p < i /\ i + 1 < p + c
  BY ValidParts
<1>3. k > 1 => s[k - 1].index + s[k - 1].count < p
  <2>1. k > 1 => k \in 2 .. Len(s)
    BY <1>1
  <2>. QED BY <2>1, ValidParts
<1>4. k < Len(s) => p + c < s[k + 1].index /\ s[k + 1].index \in Nat
  <2>1. k < Len(s) => k + 1 \in 2 .. Len(s) /\ k + 1 - 1 = k /\ k + 1 \in 1 .. Len(s)
    BY <1>1
  <2>. QED BY <2>1, ValidParts
<1>5. \A x \in Nat : Holds(s, k, x) <=> p <= x /\ x < p + c
  BY HoldsIn
<1>6. m = InsertAt(l, k + 1, r2)
  OBVIOUS
<1>7. \A j \in 1 .. Len(s) : l[j] = IF j = k THEN r ELSE s[j]
  <2>1. r \in Ranges
    <3>. HIDE DEF p
    <3>1. i - p \in Nat
      BY <1>2
    <3>. QED BY <1>2, <3>1, NewRange
  <2>. HIDE DEF r
  <2>. QED BY <1>1, <2>1, ReplaceAtReplaces
<1>8. /\ r \in Ranges /\ r.index = p /\ r.count = i - p
      /\ r2 \in Ranges /\ r2.index = i + 1 /\ r2.count = (p + c) - i - 1
  <2>. HIDE DEF p, c
  <2>1. i - p \in Nat /\ i + 1 \in Nat /\ (p + c) - i - 1 \in Nat
    BY <1>2
  <2>. QED BY <1>2, <2>1, NewRange
<1>. HIDE DEF r, r2
<1>9. IsSpliced(l, s, k - 1, k + 1, r)
  BY <1>1, <1>8, ReplaceSplices
<1>. HIDE DEF l, p, c
<1>10. l \in ItemSets /\ AsSet(l) = Around(s, k - 1, k + 1) \cup {x \in Nat : p <= x /\ x < i}
  <2>. DEFINE a == k - 1
              b == k + 1
  <2>1. a \in 0 .. Len(s) /\ b \in a + 1 .. Len(s) + 1
    BY <1>1
  <2>2. r.index + r.count = i /\ r.count > 0 /\ r.index = p
    BY <1>2, <1>8
  <2>3. /\ a > 0 => s[a].index + s[a].count < r.index
        /\ b <= Len(s) => r.index + r.count < s[b].index
        /\ IsSpliced(l, s, a, b, r) /\ r \in Ranges /\ r.count > 0
    BY <1>1, <1>2, <1>3, <1>4, <1>8, <1>9, <2>2
  <2>. HIDE DEF a, b
  <2>4. l \in ItemSets /\ AsSet(l) = Around(s, a, b) \cup {x \in Nat : r.index <= x /\ x < r.index + r.count}
    BY <2>1, <2>3, Spliced
  <2>. QED BY <2>2, <2>4 DEF a, b
<1>11. Len(l) = Len(s) /\ l \in Seq(Ranges)
  BY <1>1, <1>8, ReplaceAtReplaces DEF l
<1>12. IsSpliced(m, l, k, k + 1, r2)
  <2>1. k + 1 \in 1 .. Len(l) + 1 /\ k + 1 - 1 = k /\ r2 \in Ranges
    BY <1>1, <1>8, <1>11
  <2>2. IsSpliced(InsertAt(l, k + 1, r2), l, k + 1 - 1, k + 1, r2)
    BY <1>11, <2>1, InsertSplices
  <2>. QED BY <1>6, <2>1, <2>2
<1>13. /\ m \in ItemSets
       /\ AsSet(m) = Around(l, k, k + 1) \cup {x \in Nat : i + 1 <= x /\ x < p + c}
  <2>. DEFINE b == k + 1
  <2>1. k \in 0 .. Len(l) /\ b \in k + 1 .. Len(l) + 1
    BY <1>1, <1>11
  <2>2. r2.index + r2.count = p + c /\ r2.count > 0 /\ r2.index = i + 1
    <3>1. p + c \in Nat
      BY <1>2
    <3>. QED BY <1>2, <1>8, <3>1, RestOf
  <2>3. k > 0 => l[k].index + l[k].count < r2.index
    <3>1. l[k] = r
      BY <1>7
    <3>2. r.index + r.count < i + 1
      BY <1>2, <1>8
    <3>. QED BY <2>2, <3>1, <3>2
  <2>4. b <= Len(l) => r2.index + r2.count < l[b].index
    <3>1. b <= Len(l) => l[b] = s[b] /\ b <= Len(s) /\ b \in 1 .. Len(s)
      BY <1>7, <1>11
    <3>. QED BY <1>4, <2>2, <3>1
  <2>5. IsSpliced(m, l, k, b, r2) /\ r2 \in Ranges /\ r2.count > 0
    BY <1>8, <1>12, <2>2
  <2>. HIDE DEF b
  <2>6. m \in ItemSets /\ AsSet(m) = Around(l, k, b) \cup {x \in Nat : r2.index <= x /\ x < r2.index + r2.count}
    BY <1>10, <2>1, <2>3, <2>4, <2>5, Spliced
  <2>. QED BY <2>2, <2>6 DEF b
<1>14. Around(l, k, k + 1) = AsSet(l)
  <2>1. \A j \in 1 .. Len(l) : j <= k \/ j >= k + 1
    BY <1>11
  <2>2. AsSet(l) = {x \in Nat : Covers(l, x)}
    BY <1>11, Members
  <2>. QED BY <2>1, <2>2 DEF Around, Covers
<1>15. ASSUME NEW x \in Nat PROVE x \in Around(s, k - 1, k + 1) \/ Holds(s, k, x) <=> Covers(s, x)
  <2>1. \A j \in 1 .. Len(s) : j <= k - 1 \/ j >= k + 1 \/ j = k
    BY <1>1
  <2>. QED BY <2>1 DEF Around, Covers
<1>16. i \notin Around(s, k - 1, k + 1) /\ Around(s, k - 1, k + 1) \subseteq Nat
  <2>1. Holds(s, k, i)
    BY <1>2, <1>5
  <2>2. ASSUME NEW j \in 1 .. Len(s), j <= k - 1 \/ j >= k + 1 PROVE ~Holds(s, j, i)
    <3>1. j # k
      BY <2>2
    <3>. QED BY <2>1, <3>1, OnlyOne
  <2>. QED BY <2>2 DEF Around
<1>. QED BY <1>1, <1>2, <1>5, <1>10, <1>13, <1>14, <1>15, <1>16

\* remove() takes the index out, and nothing else, whether its range loses an end,
\* is cut in two or goes.
THEOREM RemoveCorrect ==
    ASSUME NEW s \in ItemSets, NEW i \in Int
    PROVE  RemoveItem(s, i) \in ItemSets /\ AsSet(RemoveItem(s, i)) = AsSet(s) \ {i}
<1>1. CASE ~ContainsItem(s, i)
  <2>1. i \notin AsSet(s) /\ RemoveItem(s, i) = s
    BY <1>1, ContainsTells DEF RemoveItem
  <2>. QED BY <2>1
<1>2. CASE ContainsItem(s, i)
  <2>. DEFINE k == Low(s, i)
              p == s[k].index
              c == s[k].count
              m == RemoveItem(s, i)
  <2>1. m = IF i = p
            THEN IF c > 1 THEN ReplaceAt(s, k, KItemRange(i + 1, c - 1)) ELSE RemoveAt(s, k)
            ELSE IF i = (p + c) - 1 THEN ReplaceAt(s, k, KItemRange(p, c - 1))
            ELSE InsertAt(ReplaceAt(s, k, KItemRange(p, i - p)),
                          k + 1, KItemRange(i + 1, (p + c) - i - 1))
    <3>1. m = Erase(s, i)
      BY <1>2 DEF RemoveItem
    <3>. HIDE DEF m
    <3>2. Erase(s, i)
            = IF i = p
              THEN IF c > 1 THEN ReplaceAt(s, k, KItemRange(i + 1, c - 1)) ELSE RemoveAt(s, k)
              ELSE IF i = (p + c) - 1 THEN ReplaceAt(s, k, KItemRange(p, c - 1))
              ELSE InsertAt(ReplaceAt(s, k, KItemRange(p, i - p)),
                            k + 1, KItemRange(i + 1, (p + c) - i - 1))
      BY DEF Erase, Behind
    <3>. QED BY <3>1, <3>2
  <2>2. k \in 1 .. Len(s) /\ p <= i /\ i < p + c
    <3>1. k > 0 /\ i < p + c
      BY <1>2 DEF ContainsItem, Behind
    <3>2. k \in 0 .. Len(s) /\ \A j \in 1 .. k : s[j].index <= i
      BY LowFinds
    <3>3. k \in 1 .. Len(s) /\ k \in 1 .. k
      <4>. HIDE DEF k
      <4>. QED BY <3>1, <3>2, ValidParts
    <3>. HIDE DEF k
    <3>. QED BY <3>1, <3>2, <3>3
  <2>. HIDE DEF k, m
  <2>3. p \in Nat /\ c \in Nat
    BY <2>2, ValidParts
  <2>4. i \in Nat
    <3>. HIDE DEF p, c
    <3>. QED BY <2>2, <2>3
  <2>5. CASE i = p /\ c > 1
    BY <2>1, <2>2, <2>4, <2>5, EraseFirst DEF m
  <2>6. CASE i = p /\ ~(c > 1)
    BY <2>1, <2>2, <2>4, <2>6, EraseWhole DEF m
  <2>7. CASE i # p /\ i = (p + c) - 1
    BY <2>1, <2>2, <2>4, <2>7, EraseLast DEF m
  <2>8. CASE i # p /\ i # (p + c) - 1
    <3>1. p < i /\ i + 1 < p + c
      <4>. HIDE DEF p, c
      <4>. QED BY <2>2, <2>3, <2>8
    <3>. QED BY <2>1, <2>2, <2>4, <2>8, <3>1, EraseMiddle DEF m
  <2>. QED BY <2>5, <2>6, <2>7, <2>8
<1>. QED BY <1>1, <1>2

\* setSelected() toggles one index.
LEMMA ToggleCorrect ==
    ASSUME NEW s \in ItemSets, NEW i \in Nat
    PROVE  /\ ToggleItem(s, i) \in ItemSets
           /\ AsSet(ToggleItem(s, i)) = IF i \in AsSet(s) THEN AsSet(s) \ {i} ELSE AsSet(s) \cup {i}
<1>1. /\ Insert(s, i) \in ItemSets /\ AsSet(Insert(s, i)) = AsSet(s) \cup {i}
      /\ RemoveItem(s, i) \in ItemSets /\ AsSet(RemoveItem(s, i)) = AsSet(s) \ {i}
  BY InsertCorrect, RemoveCorrect
<1>2. ContainsItem(s, i) <=> i \in AsSet(s)
  BY ContainsTells
<1>3. ToggleItem(s, i) = IF i \in AsSet(s) THEN RemoveItem(s, i) ELSE Insert(s, i)
  BY <1>2 DEF ToggleItem
<1>. QED BY <1>1, <1>3

--------------------------------------------------------------------------------
(* One index after the other                                                *)

LEMMA InsertAllCorrect ==
    ASSUME NEW s \in ItemSets, NEW list \in Seq(Nat)
    PROVE  /\ InsertAll(s, list) \in ItemSets
           /\ AsSet(InsertAll(s, list)) = AsSet(s) \cup ToSet(list)
<1>. DEFINE n == Len(list)
            step == [k \in 1 .. n |-> [t \in ItemSets |-> Insert(t, list[k])]]
            IsUpto(f) == f = [k \in 0 .. n |-> IF k = 0 THEN s ELSE Insert(f[k - 1], list[k])]
            upto == CHOOSE f : IsUpto(f)
<1>1. n \in Nat /\ \A k \in 1 .. n : list[k] \in Nat
  OBVIOUS
<1>2. IsUpto(upto)
  <2>1. step \in [1 .. n -> [ItemSets -> ItemSets]]
    BY <1>1, InsertCorrect
  <2>2. PICK f : IsIteration(f, n, ItemSets, s, step)
    <3>. HIDE DEF step, n
    <3>. QED BY <1>1, <2>1, Iterated
  <2>3. f \in [0 .. n -> ItemSets]
    <3>. HIDE DEF step, n
    <3>. QED BY <2>2 DEF IsIteration
  <2>4. ASSUME NEW k \in 0 .. n PROVE f[k] = IF k = 0 THEN s ELSE Insert(f[k - 1], list[k])
    <3>1. k # 0 => k \in 1 .. n /\ f[k - 1] \in ItemSets
      BY <1>1, <2>3
    <3>2. f[k] = IF k = 0 THEN s ELSE step[k][f[k - 1]]
      <4>. HIDE DEF step, n
      <4>. QED BY <2>2 DEF IsIteration
    <3>. QED BY <3>1, <3>2
  <2>5. IsUpto(f)
    BY <2>3, <2>4
  <2>. QED BY <2>5
<1>3. InsertAll(s, list) = upto[n]
  BY DEF InsertAll
<1>. HIDE DEF upto
<1>4. upto[0] = s /\ \A k \in 1 .. n : upto[k] = Insert(upto[k - 1], list[k])
  <2>1. \A k \in 0 .. n : upto[k] = IF k = 0 THEN s ELSE Insert(upto[k - 1], list[k])
    BY <1>2
  <2>2. 0 \in 0 .. n /\ \A k \in 1 .. n : k \in 0 .. n /\ k # 0
    BY <1>1
  <2>. HIDE DEF n
  <2>. QED BY <2>1, <2>2
<1>. DEFINE Right(k) == /\ upto[k] \in ItemSets
                        /\ AsSet(upto[k]) = AsSet(s) \cup {list[j] : j \in 1 .. k}
            D == {k \in 0 .. n : Right(k)}
<1>5. 0 \in D
  BY <1>1, <1>4
<1>6. ASSUME NEW k \in 1 .. n, k - 1 \in D PROVE k \in D
  <2>1. upto[k - 1] \in ItemSets /\ AsSet(upto[k - 1]) = AsSet(s) \cup {list[j] : j \in 1 .. k - 1}
    BY <1>6
  <2>2. list[k] \in Nat /\ upto[k] = Insert(upto[k - 1], list[k])
    BY <1>1, <1>4
  <2>3. upto[k] \in ItemSets /\ AsSet(upto[k]) = AsSet(upto[k - 1]) \cup {list[k]}
    <3>. DEFINE t == upto[k - 1]
                i == list[k]
    <3>1. t \in ItemSets /\ i \in Nat
      BY <2>1, <2>2
    <3>. HIDE DEF t, i
    <3>. QED BY <2>2, <3>1, InsertCorrect DEF t, i
  <2>4. 1 .. k = (1 .. k - 1) \cup {k}
    OBVIOUS
  <2>5. {list[j] : j \in 1 .. k} = {list[j] : j \in 1 .. k - 1} \cup {list[k]}
    BY <2>4
  <2>. QED BY <2>1, <2>3, <2>5
<1>7. D = 0 .. n
  <2>1. D \in SUBSET (0 .. n)
    OBVIOUS
  <2>. HIDE DEF D
  <2>. QED BY <1>1, <1>5, <1>6, <2>1, Climb
<1>8. Right(n)
  BY <1>1, <1>7
<1>9. ToSet(list) = {list[j] : j \in 1 .. n}
  BY DEF ToSet
<1>. QED BY <1>3, <1>8, <1>9

\* Indexes that are there change nothing.
LEMMA InsertAllAbsorbs ==
    ASSUME NEW s \in ItemSets, NEW list \in Seq(Nat), ToSet(list) \subseteq AsSet(s)
    PROVE  InsertAll(s, list) = s
<1>1. /\ InsertAll(s, list) \in ItemSets
      /\ AsSet(InsertAll(s, list)) = AsSet(s) \cup ToSet(list)
  BY InsertAllCorrect
<1>2. AsSet(InsertAll(s, list)) = AsSet(s)
  BY <1>1
<1>. QED BY <1>1, <1>2, Canonical

\* Each index of the list is toggled once.
LEMMA ToggleAllCorrect ==
    ASSUME NEW s \in ItemSets, NEW list \in Seq(Nat),
           \A j, k \in 1 .. Len(list) : j # k => list[j] # list[k]
    PROVE  /\ ToggleAll(s, list) \in ItemSets
           /\ AsSet(ToggleAll(s, list)) = (AsSet(s) \ ToSet(list)) \cup (ToSet(list) \ AsSet(s))
<1>. DEFINE n == Len(list)
            step == [k \in 1 .. n |-> [t \in ItemSets |-> ToggleItem(t, list[k])]]
            IsUpto(f) == f = [k \in 0 .. n |-> IF k = 0 THEN s ELSE ToggleItem(f[k - 1], list[k])]
            upto == CHOOSE f : IsUpto(f)
<1>1. n \in Nat /\ \A k \in 1 .. n : list[k] \in Nat
  OBVIOUS
<1>2. IsUpto(upto)
  <2>1. step \in [1 .. n -> [ItemSets -> ItemSets]]
    BY <1>1, ToggleCorrect
  <2>2. PICK f : IsIteration(f, n, ItemSets, s, step)
    <3>. HIDE DEF step, n
    <3>. QED BY <1>1, <2>1, Iterated
  <2>3. f \in [0 .. n -> ItemSets]
    <3>. HIDE DEF step, n
    <3>. QED BY <2>2 DEF IsIteration
  <2>4. ASSUME NEW k \in 0 .. n PROVE f[k] = IF k = 0 THEN s ELSE ToggleItem(f[k - 1], list[k])
    <3>1. k # 0 => k \in 1 .. n /\ f[k - 1] \in ItemSets
      BY <1>1, <2>3
    <3>2. f[k] = IF k = 0 THEN s ELSE step[k][f[k - 1]]
      <4>. HIDE DEF step, n
      <4>. QED BY <2>2 DEF IsIteration
    <3>. QED BY <3>1, <3>2
  <2>5. IsUpto(f)
    BY <2>3, <2>4
  <2>. QED BY <2>5
<1>3. ToggleAll(s, list) = upto[n]
  BY DEF ToggleAll
<1>. HIDE DEF upto
<1>4. upto[0] = s /\ \A k \in 1 .. n : upto[k] = ToggleItem(upto[k - 1], list[k])
  <2>1. \A k \in 0 .. n : upto[k] = IF k = 0 THEN s ELSE ToggleItem(upto[k - 1], list[k])
    BY <1>2
  <2>2. 0 \in 0 .. n /\ \A k \in 1 .. n : k \in 0 .. n /\ k # 0
    BY <1>1
  <2>. HIDE DEF n
  <2>. QED BY <2>1, <2>2
<1>. DEFINE First(k) == {list[j] : j \in 1 .. k}
            Right(k) == /\ upto[k] \in ItemSets
                        /\ AsSet(upto[k]) = (AsSet(s) \ First(k)) \cup (First(k) \ AsSet(s))
            D == {k \in 0 .. n : Right(k)}
<1>5. 0 \in D
  BY <1>1, <1>4
<1>6. ASSUME NEW k \in 1 .. n, k - 1 \in D PROVE k \in D
  <2>1. Right(k - 1)
    BY <1>6
  <2>2. list[k] \in Nat /\ upto[k] = ToggleItem(upto[k - 1], list[k])
    BY <1>1, <1>4
  <2>3. /\ upto[k] \in ItemSets
        /\ AsSet(upto[k]) = IF list[k] \in AsSet(upto[k - 1]) THEN AsSet(upto[k - 1]) \ {list[k]}
                            ELSE AsSet(upto[k - 1]) \cup {list[k]}
    <3>. DEFINE t == upto[k - 1]
                i == list[k]
    <3>1. t \in ItemSets /\ i \in Nat /\ upto[k] = ToggleItem(t, i)
      BY <2>1, <2>2
    <3>. HIDE DEF t, i
    <3>2. /\ upto[k] \in ItemSets
          /\ AsSet(upto[k]) = IF i \in AsSet(t) THEN AsSet(t) \ {i} ELSE AsSet(t) \cup {i}
      BY <3>1, ToggleCorrect
    <3>. QED BY <3>2 DEF t, i
  <2>4. 1 .. k = (1 .. k - 1) \cup {k}
    OBVIOUS
  <2>5. First(k) = First(k - 1) \cup {list[k]}
    BY <2>4
  <2>6. list[k] \notin First(k - 1)
    <3>1. \A j \in 1 .. k - 1 : j \in 1 .. n /\ j # k
      BY <1>1
    <3>. QED BY <3>1
  <2>. HIDE DEF First
  <2>7. AsSet(upto[k]) = (AsSet(s) \ First(k)) \cup (First(k) \ AsSet(s))
    BY <2>1, <2>3, <2>5, <2>6
  <2>. QED BY <2>3, <2>7
<1>7. D = 0 .. n
  <2>1. D \in SUBSET (0 .. n)
    OBVIOUS
  <2>. HIDE DEF D
  <2>. QED BY <1>1, <1>5, <1>6, <2>1, Climb
<1>8. Right(n)
  BY <1>1, <1>7
<1>9. ToSet(list) = First(n)
  BY DEF ToSet
<1>. QED BY <1>3, <1>8, <1>9

--------------------------------------------------------------------------------
(* begin() to end()                                                         *)

\* FlattenSeq() puts the lists together one after the other.
LEMMA Flattened ==
    ASSUME NEW S, NEW ls \in Seq(Seq(S)), Len(ls) > 0
    PROVE  \E f \in [1 .. Len(ls) -> Seq(S)] :
              /\ FlattenSeq(ls) = f[Len(ls)] /\ f[1] = ls[1]
              /\ \A i \in 2 .. Len(ls) : f[i] = f[i - 1] \o ls[i]
<1>. DEFINE n == Len(ls)
            p == n - 1
            X == Seq(S)
            step == [i \in 1 .. p |-> [x \in X |-> x \o ls[i + 1]]]
            IsFlat(f) == f = [i \in 1 .. n |-> IF i = 1 THEN ls[i] ELSE f[i - 1] \o ls[i]]
            flatten == CHOOSE f : IsFlat(f)
<1>1. n \in Nat /\ n > 0 /\ p \in Nat /\ \A i \in 1 .. n : ls[i] \in X
  OBVIOUS
<1>2. \A i \in 1 .. p : \A x \in X : x \o ls[i + 1] \in X
  <2>. SUFFICES ASSUME NEW i \in 1 .. p, NEW x \in X PROVE x \o ls[i + 1] \in X
    OBVIOUS
  <2>1. i + 1 \in 1 .. n
    BY <1>1
  <2>2. ls[i + 1] \in X
    BY <1>1, <2>1
  <2>. DEFINE y == ls[i + 1]
  <2>. HIDE DEF y
  <2>. QED BY <2>2, ConcatProperties DEF y
<1>3. PICK f : IsIteration(f, p, X, ls[1], step)
  <2>1. step \in [1 .. p -> [X -> X]]
    BY <1>2
  <2>2. ls[1] \in X
    BY <1>1
  <2>. HIDE DEF step, p, n, X
  <2>. QED BY <1>1, <2>1, <2>2, Iterated
<1>4. f \in [0 .. p -> X] /\ \A i \in 0 .. p : f[i] = IF i = 0 THEN ls[1] ELSE step[i][f[i - 1]]
  <2>. HIDE DEF step, p, n, X
  <2>. QED BY <1>3 DEF IsIteration
<1>. DEFINE g == [i \in 1 .. n |-> f[i - 1]]
<1>5. g \in [1 .. n -> X] /\ g[1] = ls[1]
  <2>1. \A i \in 1 .. n : i - 1 \in 0 .. p
    BY <1>1
  <2>2. \A i \in 1 .. n : f[i - 1] \in X
    <3>. HIDE DEF p, n, X
    <3>. QED BY <1>4, <2>1
  <2>3. 1 \in 1 .. n /\ 0 \in 0 .. p /\ g[1] = f[0]
    BY <1>1
  <2>4. f[0] = ls[1]
    BY <1>4, <2>3
  <2>. QED BY <2>2, <2>3, <2>4
<1>6. ASSUME NEW i \in 2 .. n PROVE g[i] = g[i - 1] \o ls[i]
  <2>1. /\ i - 1 \in 1 .. p /\ i - 1 \in 0 .. p /\ i - 1 # 0 /\ i \in 1 .. n /\ i - 1 \in 1 .. n
        /\ i - 1 + 1 = i /\ i - 1 - 1 \in 0 .. p
    BY <1>1
  <2>2. f[i - 1] = step[i - 1][f[i - 1 - 1]] /\ f[i - 1 - 1] \in X
    <3>. HIDE DEF step
    <3>. QED BY <1>4, <2>1
  <2>3. g[i] = f[i - 1] /\ g[i - 1] = f[i - 1 - 1]
    BY <2>1
  <2>4. step[i - 1][f[i - 1 - 1]] = f[i - 1 - 1] \o ls[i]
    BY <2>1, <2>2
  <2>. QED BY <2>2, <2>3, <2>4
<1>7. IsFlat(g)
  <2>1. \A i \in 1 .. n : g[i] = IF i = 1 THEN ls[i] ELSE g[i - 1] \o ls[i]
    <3>1. \A i \in 1 .. n : i # 1 => i \in 2 .. n
      BY <1>1
    <3>. HIDE DEF g, n
    <3>. QED BY <1>5, <1>6, <3>1
  <2>2. g = [i \in 1 .. n |-> g[i]]
    OBVIOUS
  <2>. HIDE DEF g, n
  <2>. QED BY <2>1, <2>2
<1>8. IsFlat(flatten)
  <2>. HIDE DEF g
  <2>. QED BY <1>7
<1>9. FlattenSeq(ls) = flatten[n]
  <2>1. ~(Len(ls) = 0)
    BY <1>1
  <2>. QED BY <2>1 DEF FlattenSeq
<1>. HIDE DEF flatten
<1>10. \A i \in 1 .. n : flatten[i] = IF i = 1 THEN ls[i] ELSE flatten[i - 1] \o ls[i]
  BY <1>8
<1>. DEFINE D == {i \in 0 .. p : flatten[i + 1] = g[i + 1]}
<1>11. 0 \in D
  <2>1. 1 \in 1 .. n /\ 0 \in 0 .. p
    BY <1>1
  <2>2. flatten[1] = ls[1]
    BY <1>10, <2>1
  <2>. HIDE DEF g, n, p
  <2>. QED BY <1>5, <2>1, <2>2
<1>12. ASSUME NEW i \in 1 .. p, i - 1 \in D PROVE i \in D
  <2>1. i + 1 \in 2 .. n /\ i + 1 \in 1 .. n /\ i + 1 # 1 /\ i - 1 + 1 = i /\ i + 1 - 1 = i /\ i \in 0 .. p
    BY <1>1
  <2>2. flatten[i] = g[i]
    <3>. HIDE DEF g
    <3>. QED BY <1>12, <2>1
  <2>3. flatten[i + 1] = flatten[i] \o ls[i + 1]
    <3>. DEFINE j == i + 1
    <3>1. j \in 1 .. n /\ j # 1
      BY <2>1
    <3>. HIDE DEF n, j
    <3>2. flatten[j] = flatten[j - 1] \o ls[j]
      BY <1>10, <3>1
    <3>3. j - 1 = i
      BY DEF j
    <3>4. flatten[j] = flatten[i] \o ls[j]
      BY <3>2, <3>3
    <3>. QED BY <3>4 DEF j
  <2>4. g[i + 1] = g[i] \o ls[i + 1]
    <3>. DEFINE j == i + 1
    <3>1. j \in 2 .. n
      BY <2>1
    <3>. HIDE DEF g, n, j
    <3>2. g[j] = g[j - 1] \o ls[j]
      BY <1>6, <3>1
    <3>3. j - 1 = i
      BY DEF j
    <3>4. g[j] = g[i] \o ls[j]
      BY <3>2, <3>3
    <3>. QED BY <3>4 DEF j
  <2>. HIDE DEF g
  <2>. QED BY <2>1, <2>2, <2>3, <2>4
<1>13. D = 0 .. p
  <2>1. D \in SUBSET (0 .. p)
    OBVIOUS
  <2>. HIDE DEF D, p
  <2>. QED BY <1>1, <1>11, <1>12, <2>1, Climb
<1>14. flatten[n] = g[n]
  <2>1. p \in D /\ p + 1 = n
    <3>. HIDE DEF D
    <3>. QED BY <1>1, <1>13
  <2>. HIDE DEF g, n, p
  <2>. QED BY <2>1
<1>15. /\ g \in [1 .. n -> X] /\ FlattenSeq(ls) = g[n] /\ g[1] = ls[1]
       /\ \A i \in 2 .. n : g[i] = g[i - 1] \o ls[i]
  <2>. HIDE DEF g, n, X
  <2>. QED BY <1>5, <1>6, <1>9, <1>14
<1>. HIDE DEF g
<1>. QED BY <1>15

Ascends(l) == \A j, k \in 1 .. Len(l) : j < k => l[j] < l[k]

LEMMA InToSet ==
    ASSUME NEW S, NEW l \in Seq(S)
    PROVE  \A x : x \in ToSet(l) <=> \E j \in 1 .. Len(l) : x = l[j]
BY DEF ToSet

LEMMA AscendsOn ==
    ASSUME NEW a \in Seq(Nat), NEW b \in Seq(Nat), Ascends(a), Ascends(b),
           \A j \in 1 .. Len(a) : \A k \in 1 .. Len(b) : a[j] < b[k]
    PROVE  a \o b \in Seq(Nat) /\ Ascends(a \o b) /\ ToSet(a \o b) = ToSet(a) \cup ToSet(b)
<1>. DEFINE c == a \o b
<1>1. /\ c \in Seq(Nat) /\ Len(c) = Len(a) + Len(b)
      /\ \A j \in 1 .. Len(a) + Len(b) : c[j] = IF j <= Len(a) THEN a[j] ELSE b[j - Len(a)]
  BY ConcatProperties
<1>. HIDE DEF c
<1>2. Len(a) \in Nat /\ Len(b) \in Nat
  OBVIOUS
<1>3. ASSUME NEW j \in 1 .. Len(c), NEW k \in 1 .. Len(c), j < k PROVE c[j] < c[k]
  <2>1. CASE k <= Len(a)
    <3>1. k \in 1 .. Len(a) /\ j \in 1 .. Len(a) /\ c[j] = a[j] /\ c[k] = a[k]
      BY <1>1, <1>2, <1>3, <2>1
    <3>. QED BY <1>3, <3>1 DEF Ascends
  <2>2. CASE j <= Len(a) /\ ~(k <= Len(a))
    <3>1. k - Len(a) \in 1 .. Len(b) /\ j \in 1 .. Len(a) /\ c[j] = a[j] /\ c[k] = b[k - Len(a)]
      BY <1>1, <1>2, <2>2
    <3>. QED BY <3>1
  <2>3. CASE ~(j <= Len(a))
    <3>1. /\ k - Len(a) \in 1 .. Len(b) /\ c[k] = b[k - Len(a)] /\ c[j] = b[j - Len(a)]
          /\ j - Len(a) \in 1 .. Len(b) /\ j - Len(a) < k - Len(a)
      BY <1>1, <1>2, <1>3, <2>3
    <3>. QED BY <3>1 DEF Ascends
  <2>. QED BY <1>2, <1>3, <2>1, <2>2, <2>3
<1>4. ToSet(c) = ToSet(a) \cup ToSet(b)
  <2>1. ASSUME NEW j \in 1 .. Len(c)
        PROVE  (\E i \in 1 .. Len(a) : c[j] = a[i]) \/ (\E i \in 1 .. Len(b) : c[j] = b[i])
    <3>1. CASE j <= Len(a)
      BY <1>1, <1>2, <3>1
    <3>2. CASE ~(j <= Len(a))
      <4>1. j - Len(a) \in 1 .. Len(b) /\ c[j] = b[j - Len(a)]
        BY <1>1, <1>2, <3>2
      <4>. QED BY <4>1
    <3>. QED BY <3>1, <3>2
  <2>2. ASSUME NEW j \in 1 .. Len(a) PROVE \E i \in 1 .. Len(c) : c[i] = a[j]
    <3>1. j \in 1 .. Len(c) /\ c[j] = a[j]
      BY <1>1, <1>2
    <3>. QED BY <3>1
  <2>3. ASSUME NEW j \in 1 .. Len(b) PROVE \E i \in 1 .. Len(c) : c[i] = b[j]
    <3>1. j + Len(a) \in 1 .. Len(c) /\ ~(j + Len(a) <= Len(a)) /\ j + Len(a) - Len(a) = j
      BY <1>1, <1>2
    <3>2. c[j + Len(a)] = b[j]
      BY <1>1, <3>1
    <3>. QED BY <3>1, <3>2
  <2>4. /\ \A x : x \in ToSet(c) <=> \E j \in 1 .. Len(c) : x = c[j]
        /\ \A x : x \in ToSet(a) <=> \E j \in 1 .. Len(a) : x = a[j]
        /\ \A x : x \in ToSet(b) <=> \E j \in 1 .. Len(b) : x = b[j]
    BY <1>1, InToSet
  <2>5. ASSUME NEW x PROVE x \in ToSet(c) <=> x \in ToSet(a) \/ x \in ToSet(b)
    <3>1. x \in ToSet(c) => x \in ToSet(a) \/ x \in ToSet(b)
      BY <2>1, <2>4
    <3>2. x \in ToSet(a) => x \in ToSet(c)
      BY <2>2, <2>4
    <3>3. x \in ToSet(b) => x \in ToSet(c)
      BY <2>3, <2>4
    <3>. QED BY <3>1, <3>2, <3>3
  <2>. QED BY <2>5
<1>5. c \in Seq(Nat) /\ Ascends(c)
  BY <1>1, <1>3 DEF Ascends
<1>. QED BY <1>4, <1>5 DEF c

LEMMA OneRange ==
    ASSUME NEW p \in Nat, NEW c \in Nat, NEW l, l = [j \in 1 .. c |-> p + j - 1]
    PROVE  l \in Seq(Nat) /\ Len(l) = c /\ Ascends(l) /\ ToSet(l) = {x \in Nat : p <= x /\ x < p + c}
<1>1. \A j \in 1 .. c : p + j - 1 \in Nat
  OBVIOUS
<1>2. l \in Seq(Nat) /\ Len(l) = c /\ \A j \in 1 .. c : l[j] = p + j - 1
  BY <1>1
<1>3. Ascends(l)
  <2>. SUFFICES ASSUME NEW j \in 1 .. c, NEW k \in 1 .. c, j < k PROVE l[j] < l[k]
    BY <1>2 DEF Ascends
  <2>. QED BY <1>2
<1>4. ASSUME NEW x \in Nat, p <= x, x < p + c PROVE \E j \in 1 .. Len(l) : x = l[j]
  <2>1. x - p + 1 \in 1 .. c /\ p + (x - p + 1) - 1 = x
    BY <1>4
  <2>. QED BY <1>2, <2>1
<1>5. ASSUME NEW j \in 1 .. Len(l) PROVE l[j] \in Nat /\ p <= l[j] /\ l[j] < p + c
  BY <1>2
<1>6. \A x : x \in ToSet(l) <=> \E j \in 1 .. Len(l) : x = l[j]
  BY <1>2, InToSet
<1>7. ASSUME NEW x PROVE x \in ToSet(l) <=> x \in Nat /\ p <= x /\ x < p + c
  <2>1. x \in ToSet(l) => x \in Nat /\ p <= x /\ x < p + c
    BY <1>5, <1>6
  <2>2. x \in Nat /\ p <= x /\ x < p + c => x \in ToSet(l)
    BY <1>4, <1>6
  <2>. QED BY <2>1, <2>2
<1>. QED BY <1>2, <1>3, <1>7

\* begin() to end() visits every index once, in ascending order.
THEOREM AscendingCorrect ==
    ASSUME NEW s \in ItemSets
    PROVE  Ascending(s) \in Seq(Nat) /\ Ascends(Ascending(s)) /\ ToSet(Ascending(s)) = AsSet(s)
<1>. DEFINE n == Len(s)
            Each(k) == [j \in 1 .. s[k].count |-> s[k].index + j - 1]
            ls == [k \in 1 .. n |-> Each(k)]
            All(k) == {x \in Nat : \E j \in 1 .. k : Holds(s, j, x)}
<1>1. s \in Seq(Ranges) /\ n \in Nat /\ DOMAIN s = 1 .. n /\ AsSet(s) = All(n)
  BY ValidParts, Members DEF Covers
<1>2. ASSUME NEW k \in 1 .. n
      PROVE  /\ Each(k) \in Seq(Nat) /\ Ascends(Each(k))
             /\ ToSet(Each(k)) = {x \in Nat : Holds(s, k, x)}
  <2>. DEFINE p == s[k].index
              c == s[k].count
              l == Each(k)
  <2>1. p \in Nat /\ c \in Nat
    BY ValidParts
  <2>2. l = [j \in 1 .. c |-> p + j - 1]
    OBVIOUS
  <2>3. \A x \in Nat : Holds(s, k, x) <=> p <= x /\ x < p + c
    BY HoldsIn
  <2>. HIDE DEF p, c, l
  <2>4. l \in Seq(Nat) /\ Ascends(l) /\ ToSet(l) = {x \in Nat : p <= x /\ x < p + c}
    BY <2>1, <2>2, OneRange
  <2>5. l \in Seq(Nat) /\ Ascends(l) /\ ToSet(l) = {x \in Nat : Holds(s, k, x)}
    BY <2>3, <2>4
  <2>. QED BY <2>5 DEF l
<1>3. Ascending(s) = FlattenSeq(ls)
  BY <1>1 DEF Ascending
<1>. HIDE DEF Each
<1>4. ls \in Seq(Seq(Nat)) /\ Len(ls) = n /\ \A k \in 1 .. n : ls[k] = Each(k)
  <2>1. \A k \in 1 .. n : Each(k) \in Seq(Nat)
    BY <1>2
  <2>. HIDE DEF n
  <2>. QED BY <1>1, <2>1
<1>. HIDE DEF ls
<1>5. CASE n = 0
  <2>1. FlattenSeq(ls) = ls
    BY <1>4, <1>5 DEF FlattenSeq
  <2>2. ls = <<>>
    BY <1>4, <1>5
  <2>3. All(n) = {}
    BY <1>5
  <2>4. <<>> \in Seq(Nat) /\ Ascends(<<>>) /\ ToSet(<<>>) = {}
    BY DEF Ascends, ToSet
  <2>. QED BY <1>1, <1>3, <2>1, <2>2, <2>3, <2>4
<1>6. CASE n # 0
  <2>. DEFINE p == n - 1
  <2>1. n > 0 /\ p \in Nat /\ 1 \in 1 .. n
    BY <1>1, <1>6
  <2>2. PICK f \in [1 .. n -> Seq(Nat)] :
           /\ FlattenSeq(ls) = f[n] /\ f[1] = ls[1]
           /\ \A i \in 2 .. n : f[i] = f[i - 1] \o ls[i]
    <3>. HIDE DEF n
    <3>1. \E f \in [1 .. Len(ls) -> Seq(Nat)] :
             /\ FlattenSeq(ls) = f[Len(ls)] /\ f[1] = ls[1]
             /\ \A i \in 2 .. Len(ls) : f[i] = f[i - 1] \o ls[i]
      BY <1>4, <2>1, Flattened
    <3>. QED BY <1>4, <3>1
  <2>. DEFINE Right(k) == f[k] \in Seq(Nat) /\ Ascends(f[k]) /\ ToSet(f[k]) = All(k)
              D == {k \in 0 .. p : Right(k + 1)}
  <2>3. 0 \in D
    <3>1. f[1] = Each(1)
      BY <1>4, <2>1, <2>2
    <3>2. All(1) = {x \in Nat : Holds(s, 1, x)}
      OBVIOUS
    <3>3. Each(1) \in Seq(Nat) /\ Ascends(Each(1)) /\ ToSet(Each(1)) = All(1)
      BY <1>2, <2>1, <3>2
    <3>4. Right(1)
      BY <3>1, <3>3
    <3>5. 0 \in 0 .. p /\ 0 + 1 = 1
      BY <2>1
    <3>. HIDE DEF Right
    <3>. QED BY <3>4, <3>5
  <2>4. ASSUME NEW i \in 1 .. p, i - 1 \in D PROVE i \in D
    <3>. DEFINE k == i + 1
                a == f[i]
                b == Each(k)
    <3>1. k \in 2 .. n /\ k \in 1 .. n /\ k - 1 = i /\ i - 1 + 1 = i /\ i \in 0 .. p /\ i \in 1 .. n
      BY <2>1
    <3>2. Right(i)
      <4>. HIDE DEF Right
      <4>. QED BY <2>4, <3>1
    <3>3. f[k] = a \o b
      <4>. HIDE DEF n, k
      <4>1. f[k] = f[k - 1] \o ls[k]
        BY <2>2, <3>1
      <4>2. ls[k] = b
        BY <1>4, <3>1
      <4>. QED BY <3>1, <4>1, <4>2
    <3>4. b \in Seq(Nat) /\ Ascends(b) /\ ToSet(b) = {x \in Nat : Holds(s, k, x)}
      <4>. HIDE DEF k, n
      <4>. QED BY <1>2, <3>1
    <3>5. a \in Seq(Nat) /\ Ascends(a) /\ ToSet(a) = All(i)
      BY <3>2
    <3>. HIDE DEF a, b, k
    <3>6. ASSUME NEW x \in All(i), NEW y \in Nat, Holds(s, k, y) PROVE x < y
      <4>1. PICK j \in 1 .. i : Holds(s, j, x) /\ x \in Nat
        OBVIOUS
      <4>2. j \in 1 .. n /\ j < k
        BY <3>1
      <4>. DEFINE u == s[j].index + s[j].count
                  v == s[k].index
      <4>3. u < v /\ x < u /\ v <= y
        BY <3>1, <3>6, <4>1, <4>2, Apart DEF Holds
      <4>4. u \in Nat /\ v \in Nat
        <5>1. s[j].index \in Nat /\ s[j].count \in Nat /\ s[k].index \in Nat
          BY <3>1, <4>2, ValidParts
        <5>. QED BY <5>1
      <4>. HIDE DEF u, v
      <4>. QED BY <4>1, <4>3, <4>4
    <3>7. \A j \in 1 .. Len(a) : \A m \in 1 .. Len(b) : a[j] < b[m]
      <4>. SUFFICES ASSUME NEW j \in 1 .. Len(a), NEW m \in 1 .. Len(b) PROVE a[j] < b[m]
        OBVIOUS
      <4>1. a[j] \in ToSet(a) /\ b[m] \in ToSet(b)
        BY <3>4, <3>5, InToSet
      <4>. QED BY <3>4, <3>5, <3>6, <4>1
    <3>8. a \o b \in Seq(Nat) /\ Ascends(a \o b) /\ ToSet(a \o b) = ToSet(a) \cup ToSet(b)
      BY <3>4, <3>5, <3>7, AscendsOn
    <3>9. All(k) = All(i) \cup {x \in Nat : Holds(s, k, x)}
      <4>1. 1 .. k = (1 .. i) \cup {k}
        BY <3>1 DEF k
      <4>. QED BY <4>1
    <3>10. Right(k)
      <4>. HIDE DEF All
      <4>. QED BY <3>3, <3>4, <3>5, <3>8, <3>9
    <3>11. Right(i + 1)
      <4>. HIDE DEF Right
      <4>. QED BY <3>10 DEF k
    <3>. HIDE DEF Right
    <3>. QED BY <3>1, <3>11
  <2>5. D = 0 .. p
    <3>1. D \in SUBSET (0 .. p)
      OBVIOUS
    <3>. HIDE DEF D, p
    <3>. QED BY <2>1, <2>3, <2>4, <3>1, Climb
  <2>6. Right(n)
    <3>1. p \in 0 .. p /\ p + 1 = n
      BY <2>1
    <3>2. p \in D
      <4>. HIDE DEF D, p
      <4>. QED BY <2>5, <3>1
    <3>. HIDE DEF Right, n
    <3>. QED BY <3>1, <3>2
  <2>. QED BY <1>1, <1>3, <2>2, <2>6
<1>. QED BY <1>5, <1>6

--------------------------------------------------------------------------------
(* fromSortedContainer()                                                    *)

LEMMA AppendIsInsert ==
    ASSUME NEW S, NEW l \in Seq(S), NEW c \in S
    PROVE  Append(l, c) = InsertAt(l, Len(l) + 1, c)
<1>1. Len(l) + 1 \in 1 .. Len(l) + 1 /\ Len(l) \in Nat
  OBVIOUS
<1>. DEFINE a == Append(l, c)
            b == InsertAt(l, Len(l) + 1, c)
            n == Len(l)
<1>2. a \in Seq(S) /\ IsInserted(a, l, n + 1, c)
  BY AppendInserts
<1>3. b \in Seq(S) /\ IsInserted(b, l, n + 1, c)
  BY <1>1, InsertAtInserts
<1>. HIDE DEF a, b
<1>4. Len(a) = n + 1 /\ Len(b) = n + 1 /\ \A j \in 1 .. n + 1 : a[j] = b[j]
  BY <1>2, <1>3 DEF IsInserted
<1>5. a = b
  BY <1>1, <1>2, <1>3, <1>4, SeqEqual
<1>. QED BY <1>5 DEF a, b

LEMMA MaxBelow ==
    ASSUME NEW b \in Nat, NEW S \in SUBSET (0 .. b - 1)
    PROVE  /\ Max(S \cup {-1}) \in Int /\ Max(S \cup {-1}) + 1 \in 0 .. b
           /\ \A x \in S : x <= Max(S \cup {-1})
           /\ Max(S \cup {-1}) >= 0 => Max(S \cup {-1}) \in S
<1>. DEFINE T == S \cup {-1}
            U == {u \in Nat : \A x \in S : x < u}
<1>1. b \in U /\ U \in SUBSET Nat
  OBVIOUS
<1>2. PICK u \in U : \A v \in U : u <= v
  <2>. HIDE DEF U
  <2>. QED BY <1>1, Least
<1>3. u - 1 \in T
  <2>. SUFFICES ASSUME u # 0, u - 1 \notin S PROVE FALSE
    OBVIOUS
  <2>1. u - 1 \in Nat /\ \A x \in S : x < u - 1
    OBVIOUS
  <2>2. u - 1 \in U
    BY <2>1
  <2>. QED BY <1>2, <2>2
<1>4. \A y \in T : u - 1 >= y
  OBVIOUS
<1>5. Max(T) \in T /\ \A y \in T : Max(T) >= y
  <2>. HIDE DEF T
  <2>. QED BY <1>3, <1>4 DEF Max
<1>. DEFINE m == Max(T)
<1>6. m \in T /\ \A y \in T : m >= y
  BY <1>5
<1>. HIDE DEF m
<1>7. m \in Int /\ m + 1 \in 0 .. b /\ (\A x \in S : x <= m) /\ (m >= 0 => m \in S)
  BY <1>6
<1>. QED BY <1>7 DEF m

\* fromSortedContainer() returns the valid list of the indexes.
THEOREM RangesOfCorrect ==
    ASSUME NEW b \in Nat, NEW S \in SUBSET (0 .. b - 1)
    PROVE  RangesOf(S) \in ItemSets /\ AsSet(RangesOf(S)) = S
<1>. DEFINE n == Max(S \cup {-1}) + 1
            Next(k, r) == IF k - 1 \notin S THEN r
                          ELSE IF r # <<>> /\ Behind(r[Len(r)]) = k - 1
                          THEN ReplaceAt(r, Len(r), KItemRange(r[Len(r)].index, r[Len(r)].count + 1))
                          ELSE Append(r, KItemRange(k - 1, 1))
            X == Seq(Ranges)
            step == [k \in 1 .. n |-> [r \in X |-> Next(k, r)]]
            IsUpto(f) == f = [k \in 0 .. n |-> IF k = 0 THEN <<>> ELSE Next(k, f[k - 1])]
            upto == CHOOSE f : IsUpto(f)
<1>1. n \in Nat /\ S \subseteq 0 .. n - 1
  <2>. DEFINE m == Max(S \cup {-1})
  <2>1. m \in Int /\ m + 1 \in 0 .. b /\ \A x \in S : x <= m
    BY MaxBelow
  <2>2. n = m + 1
    OBVIOUS
  <2>. HIDE DEF m, n
  <2>. QED BY <2>1, <2>2
<1>2. ASSUME NEW k \in 1 .. n, NEW r \in X PROVE Next(k, r) \in X
  <2>1. k - 1 \in Nat /\ KItemRange(k - 1, 1) \in Ranges
    <3>1. k - 1 \in Nat
      BY <1>1
    <3>. QED BY <3>1, NewRange
  <2>2. Append(r, KItemRange(k - 1, 1)) \in X
    BY <2>1
  <2>3. ASSUME r # <<>>
        PROVE  ReplaceAt(r, Len(r), KItemRange(r[Len(r)].index, r[Len(r)].count + 1)) \in X
    <3>1. Len(r) \in 1 .. Len(r)
      BY <2>3
    <3>2. r[Len(r)].index \in Nat /\ r[Len(r)].count + 1 \in Nat
      BY <3>1, RangeParts
    <3>. DEFINE q == KItemRange(r[Len(r)].index, r[Len(r)].count + 1)
    <3>3. q \in Ranges
      BY <3>2, NewRange
    <3>. HIDE DEF q
    <3>. QED BY <3>1, <3>3, ReplaceAtReplaces DEF q
  <2>. QED BY <2>2, <2>3
<1>3. IsUpto(upto)
  <2>1. step \in [1 .. n -> [X -> X]]
    <3>. HIDE DEF Next, n, X
    <3>. QED BY <1>2
  <2>2. PICK f : IsIteration(f, n, X, <<>>, step)
    <3>1. <<>> \in X
      OBVIOUS
    <3>. HIDE DEF step, n, X
    <3>. QED BY <1>1, <2>1, <3>1, Iterated
  <2>3. f \in [0 .. n -> X]
    <3>. HIDE DEF step, n, X
    <3>. QED BY <2>2 DEF IsIteration
  <2>4. ASSUME NEW k \in 0 .. n PROVE f[k] = IF k = 0 THEN <<>> ELSE Next(k, f[k - 1])
    <3>1. k # 0 => k \in 1 .. n /\ k - 1 \in 0 .. n
      BY <1>1
    <3>2. k # 0 => f[k - 1] \in X
      <4>. HIDE DEF X, n
      <4>. QED BY <2>3, <3>1
    <3>3. f[k] = IF k = 0 THEN <<>> ELSE step[k][f[k - 1]]
      <4>. HIDE DEF step, n
      <4>. QED BY <2>2 DEF IsIteration
    <3>. HIDE DEF Next, n, X
    <3>. QED BY <3>1, <3>2, <3>3
  <2>5. IsUpto(f)
    <3>. HIDE DEF Next, n
    <3>. QED BY <2>3, <2>4
  <2>. HIDE DEF IsUpto
  <2>. QED BY <2>5
<1>4. RangesOf(S) = upto[n]
  BY DEF RangesOf
<1>. HIDE DEF upto
<1>5. upto[0] = <<>> /\ \A k \in 1 .. n : upto[k] = Next(k, upto[k - 1])
  <2>. HIDE DEF Next
  <2>1. \A k \in 0 .. n : upto[k] = IF k = 0 THEN <<>> ELSE Next(k, upto[k - 1])
    BY <1>3
  <2>2. 0 \in 0 .. n /\ \A k \in 1 .. n : k \in 0 .. n /\ k # 0
    BY <1>1
  <2>. HIDE DEF n
  <2>. QED BY <2>1, <2>2
<1>. DEFINE Right(k) == upto[k] \in ItemSets /\ AsSet(upto[k]) = S \cap (0 .. k - 1)
            D == {k \in 0 .. n : Right(k)}
<1>6. 0 \in D
  <2>1. <<>> \in ItemSets /\ AsSet(<<>>) = {}
    BY EmptySet
  <2>. HIDE DEF n, Next
  <2>. QED BY <1>1, <1>5, <2>1
<1>7. ASSUME NEW k \in 1 .. n, k - 1 \in D PROVE k \in D
  <2>. DEFINE r == upto[k - 1]
              m == upto[k]
              i == k - 1
              e == Len(r)
  <2>1. r \in ItemSets /\ AsSet(r) = S \cap (0 .. i - 1)
    <3>. HIDE DEF n, Next
    <3>. QED BY <1>7
  <2>2. m = Next(k, r) /\ i \in Nat /\ k \in 0 .. n
    <3>1. i \in Nat /\ k \in 0 .. n
      BY <1>1
    <3>. HIDE DEF n, Next
    <3>. QED BY <1>5, <3>1
  <2>. HIDE DEF r, m, n
  <2>3. r \in Seq(Ranges) /\ e \in Nat /\ (e = 0 <=> r = <<>>)
    <3>1. r \in Seq(Ranges)
      BY <2>1, ValidParts
    <3>. QED BY <3>1
  <2>. DEFINE p == r[e].index
              c == r[e].count
  <2>4. e > 0 => e \in 1 .. e /\ p \in Nat /\ c \in Nat /\ c > 0
    BY <2>1, <2>3, ValidParts
  <2>5. e > 0 => p + c <= i
    <3>. SUFFICES ASSUME e > 0 PROVE p + c <= i
      OBVIOUS
    <3>1. p + c - 1 \in Nat /\ p <= p + c - 1 /\ p + c - 1 < p + c
      <4>. HIDE DEF p, c, e
      <4>. QED BY <2>4
    <3>2. Holds(r, e, p + c - 1)
      BY <3>1 DEF Holds
    <3>3. p + c - 1 \in AsSet(r)
      <4>. HIDE DEF p, c
      <4>. QED BY <2>3, <2>4, <3>1, <3>2, Members DEF Covers
    <3>. HIDE DEF p, c, e
    <3>. QED BY <2>1, <2>2, <2>4, <3>3
  <2>6. CASE i \notin S
    <3>1. m = r
      BY <2>2, <2>6
    <3>2. S \cap (0 .. k - 1) = S \cap (0 .. i - 1)
      BY <2>2, <2>6
    <3>. QED BY <2>1, <2>2, <3>1, <3>2 DEF m
  <2>7. CASE i \in S
    <3>1. S \cap (0 .. k - 1) = (S \cap (0 .. i - 1)) \cup {i}
      BY <2>2, <2>7
    <3>2. CASE e > 0 /\ i = p + c
      <4>1. m = ReplaceAt(r, e, KItemRange(p, c + 1))
        BY <2>2, <2>3, <2>7, <3>2 DEF Behind
      <4>2. e \in 1 .. e /\ ~(e + 1 <= Len(r))
        BY <2>3, <2>4, <3>2
      <4>. HIDE DEF e, i
      <4>3. m \in ItemSets /\ AsSet(m) = AsSet(r) \cup {i}
        BY <2>1, <2>2, <3>2, <4>1, <4>2, InsertFollows DEF e
      <4>. QED BY <2>1, <2>2, <3>1, <4>3 DEF m
    <3>3. CASE ~(e > 0 /\ i = p + c)
      <4>1. m = Append(r, KItemRange(i, 1))
        BY <2>2, <2>3, <2>7, <3>3 DEF Behind
      <4>2. m = InsertAt(r, e + 1, KItemRange(i, 1))
        <5>1. KItemRange(i, 1) \in Ranges
          BY <2>2, NewRange
        <5>. QED BY <2>3, <4>1, <5>1, AppendIsInsert
      <4>. DEFINE h == e + 1
      <4>3. /\ h \in 1 .. Len(r) + 1 /\ ~(h <= Len(r)) /\ h - 1 = e /\ (h > 1 => e > 0)
        BY <2>3
      <4>4. h > 1 => r[h - 1].index + r[h - 1].count < i
        <5>1. e > 0 => p + c < i
          <6>. SUFFICES ASSUME e > 0 PROVE p + c < i
            OBVIOUS
          <6>1. p + c <= i /\ i # p + c /\ p \in Nat /\ c \in Nat /\ i \in Nat
            BY <2>2, <2>4, <2>5, <3>3
          <6>. HIDE DEF p, c, i
          <6>. QED BY <6>1
        <5>. QED BY <4>3, <5>1
      <4>. HIDE DEF i, h
      <4>5. m \in ItemSets /\ AsSet(m) = AsSet(r) \cup {i}
        BY <2>1, <2>2, <4>2, <4>3, <4>4, InsertAlone DEF h
      <4>. QED BY <2>1, <2>2, <3>1, <4>5 DEF m
    <3>. QED BY <3>2, <3>3
  <2>. QED BY <2>6, <2>7
<1>8. D = 0 .. n
  <2>1. D \in SUBSET (0 .. n)
    OBVIOUS
  <2>. HIDE DEF D, n
  <2>. QED BY <1>1, <1>6, <1>7, <2>1, Climb
<1>9. Right(n) /\ S \cap (0 .. n - 1) = S
  <2>1. n \in 0 .. n
    BY <1>1
  <2>. HIDE DEF n
  <2>. QED BY <1>1, <1>8, <2>1
<1>. QED BY <1>4, <1>9

\* The loops of itemsInserted(), itemsRemoved() and itemsMoved(): the new set is the
\* image of the old one.
THEOREM MoveAllCorrect ==
    ASSUME NEW s \in ItemSets, NEW to \in [AsSet(s) -> Int]
    PROVE  /\ MoveAll(s, to) \in ItemSets
           /\ AsSet(MoveAll(s, to)) = {to[i] : i \in AsSet(s)} \cap Nat
<1>. DEFINE list == Ascending(s)
            n == Len(list)
            Add(k, t) == IF to[list[k]] < 0 THEN t ELSE Insert(t, to[list[k]])
            step == [k \in 1 .. n |-> [t \in ItemSets |-> Add(k, t)]]
            IsUpto(f) == f = [k \in 0 .. n |-> IF k = 0 THEN <<>>
                                               ELSE IF to[list[k]] < 0 THEN f[k - 1]
                                               ELSE Insert(f[k - 1], to[list[k]])]
            upto == CHOOSE f : IsUpto(f)
<1>1. n \in Nat /\ (\A k \in 1 .. n : to[list[k]] \in Int) /\ AsSet(s) = {list[k] : k \in 1 .. n}
  <2>1. list \in Seq(Nat) /\ ToSet(list) = AsSet(s)
    BY AscendingCorrect
  <2>. HIDE DEF list
  <2>2. \A x : x \in AsSet(s) <=> \E k \in 1 .. n : x = list[k]
    BY <2>1, InToSet
  <2>. QED BY <2>1, <2>2
<1>2. <<>> \in ItemSets /\ AsSet(<<>>) = {}
  BY EmptySet
<1>3. MoveAll(s, to) = upto[n]
  BY DEF MoveAll
<1>. HIDE DEF list
<1>4. ASSUME NEW k \in 1 .. n, NEW t \in ItemSets
      PROVE  Add(k, t) \in ItemSets /\ AsSet(Add(k, t)) = AsSet(t) \cup ({to[list[k]]} \cap Nat)
  <2>. DEFINE i == to[list[k]]
  <2>1. i \in Int
    BY <1>1
  <2>. HIDE DEF i
  <2>2. ~(i < 0) => Insert(t, i) \in ItemSets /\ AsSet(Insert(t, i)) = AsSet(t) \cup {i}
    <3>. SUFFICES ASSUME ~(i < 0)
                  PROVE  Insert(t, i) \in ItemSets /\ AsSet(Insert(t, i)) = AsSet(t) \cup {i}
      OBVIOUS
    <3>1. i \in Nat
      BY <2>1
    <3>. QED BY <3>1, InsertCorrect
  <2>. DEFINE u == Insert(t, i)
  <2>3. Add(k, t) = IF i < 0 THEN t ELSE u
    BY DEF i
  <2>4. ~(i < 0) => u \in ItemSets /\ AsSet(u) = AsSet(t) \cup {i}
    BY <2>2
  <2>. HIDE DEF u
  <2>5. CASE i < 0
    <3>1. Add(k, t) = t
      BY <2>3, <2>5
    <3>2. {i} \cap Nat = {}
      BY <2>1, <2>5
    <3>. HIDE DEF Add
    <3>. QED BY <3>1, <3>2 DEF i
  <2>6. CASE ~(i < 0)
    <3>1. Add(k, t) = u
      BY <2>3, <2>6
    <3>2. {i} \cap Nat = {i}
      BY <2>1, <2>6
    <3>. HIDE DEF Add
    <3>. QED BY <2>4, <2>6, <3>1, <3>2 DEF i
  <2>. QED BY <2>5, <2>6
<1>5. IsUpto(upto)
  <2>1. step \in [1 .. n -> [ItemSets -> ItemSets]]
    <3>. HIDE DEF Add, n
    <3>. QED BY <1>4
  <2>2. PICK f : IsIteration(f, n, ItemSets, <<>>, step)
    <3>. HIDE DEF step, n
    <3>. QED BY <1>1, <1>2, <2>1, Iterated
  <2>3. f \in [0 .. n -> ItemSets]
    <3>. HIDE DEF step, n
    <3>. QED BY <2>2 DEF IsIteration
  <2>4. ASSUME NEW k \in 0 .. n PROVE f[k] = IF k = 0 THEN <<>> ELSE Add(k, f[k - 1])
    <3>1. k # 0 => k \in 1 .. n /\ f[k - 1] \in ItemSets
      <4>. HIDE DEF n
      <4>. QED BY <1>1, <2>3
    <3>2. f[k] = IF k = 0 THEN <<>> ELSE step[k][f[k - 1]]
      <4>. HIDE DEF step, n
      <4>. QED BY <2>2 DEF IsIteration
    <3>. HIDE DEF Add, n
    <3>. QED BY <3>1, <3>2
  <2>5. IsUpto(f)
    BY <2>3, <2>4
  <2>. HIDE DEF IsUpto
  <2>. QED BY <2>5
<1>. HIDE DEF upto
<1>6. upto[0] = <<>> /\ \A k \in 1 .. n : upto[k] = Add(k, upto[k - 1])
  <2>1. \A k \in 0 .. n : upto[k] = IF k = 0 THEN <<>> ELSE Add(k, upto[k - 1])
    BY <1>5
  <2>2. 0 \in 0 .. n /\ \A k \in 1 .. n : k \in 0 .. n /\ k # 0
    BY <1>1
  <2>. HIDE DEF n, Add
  <2>. QED BY <2>1, <2>2
<1>. HIDE DEF Add
<1>. DEFINE Image(k) == {to[list[j]] : j \in 1 .. k}
            Right(k) == upto[k] \in ItemSets /\ AsSet(upto[k]) = Image(k) \cap Nat
            D == {k \in 0 .. n : Right(k)}
<1>7. 0 \in D
  <2>1. Image(0) = {}
    OBVIOUS
  <2>. HIDE DEF n, Image
  <2>. QED BY <1>1, <1>2, <1>6, <2>1
<1>8. ASSUME NEW k \in 1 .. n, k - 1 \in D PROVE k \in D
  <2>. DEFINE t == upto[k - 1]
  <2>1. t \in ItemSets /\ AsSet(t) = Image(k - 1) \cap Nat
    BY <1>8
  <2>2. upto[k] = Add(k, t)
    BY <1>6
  <2>. HIDE DEF t
  <2>3. upto[k] \in ItemSets /\ AsSet(upto[k]) = AsSet(t) \cup ({to[list[k]]} \cap Nat)
    BY <1>4, <2>1, <2>2
  <2>4. 1 .. k = (1 .. k - 1) \cup {k}
    OBVIOUS
  <2>5. Image(k) = Image(k - 1) \cup {to[list[k]]}
    BY <2>4
  <2>6. k \in 0 .. n
    BY <1>1
  <2>. HIDE DEF Image, n
  <2>. QED BY <2>1, <2>3, <2>5, <2>6
<1>9. D = 0 .. n
  <2>1. D \in SUBSET (0 .. n)
    OBVIOUS
  <2>. HIDE DEF D, n
  <2>. QED BY <1>1, <1>7, <1>8, <2>1, Climb
<1>10. Right(n)
  <2>1. n \in 0 .. n
    BY <1>1
  <2>. HIDE DEF n, Right
  <2>. QED BY <1>9, <2>1
<1>11. Image(n) = {to[i] : i \in AsSet(s)}
  BY <1>1
<1>. QED BY <1>3, <1>10, <1>11

--------------------------------------------------------------------------------
(* operator^()                                                              *)

Bounds(u) == {r.index : r \in ToSet(u)} \cup {Behind(r) : r \in ToSet(u)}

\* At the begins and the ends of the ranges, and only there, the set changes.
LEMMA BoundsFlip ==
    ASSUME NEW s \in ItemSets, NEW x \in Nat
    PROVE  x \in Bounds(s) <=> ~(x \in AsSet(s) <=> x - 1 \in AsSet(s))
<1>. DEFINE P(k) == s[k].index
            E(k) == s[k].index + s[k].count
            n == Len(s)
<1>1. s \in Seq(Ranges) /\ n \in Nat /\ AsSet(s) = {y \in Nat : Covers(s, y)}
  BY ValidParts, Members
<1>2. \A k \in 1 .. n : P(k) \in Nat /\ E(k) \in Nat /\ P(k) < E(k)
  <2>. SUFFICES ASSUME NEW k \in 1 .. n PROVE P(k) \in Nat /\ E(k) \in Nat /\ P(k) < E(k)
    OBVIOUS
  <2>. DEFINE p == s[k].index
              c == s[k].count
  <2>1. p \in Nat /\ c \in Nat /\ c > 0
    BY ValidParts
  <2>2. P(k) = p /\ E(k) = p + c
    OBVIOUS
  <2>. HIDE DEF p, c, P, E
  <2>. QED BY <2>1, <2>2
<1>3. \A j, k \in 1 .. n : j < k => E(j) < P(k)
  BY Apart
<1>4. x \in Bounds(s) <=> \E k \in 1 .. n : x = P(k) \/ x = E(k)
  <2>1. \A r : r \in ToSet(s) <=> \E k \in 1 .. n : r = s[k]
    BY <1>1, InToSet
  <2>2. \A k \in 1 .. n : s[k] \in ToSet(s)
    BY <2>1
  <2>. QED BY <2>1, <2>2 DEF Bounds, Behind
<1>5. \A y \in Int : y \in AsSet(s) <=> y \in Nat /\ \E k \in 1 .. n : P(k) <= y /\ y < E(k)
  BY <1>1 DEF Covers, Holds
<1>. HIDE DEF P, E, n
<1>6. ASSUME NEW k \in 1 .. n, x = P(k) PROVE x \in AsSet(s) /\ x - 1 \notin AsSet(s)
  <2>1. x \in AsSet(s)
    BY <1>2, <1>5, <1>6
  <2>2. ASSUME NEW j \in 1 .. n, P(j) <= x - 1, x - 1 < E(j) PROVE FALSE
    <3>1. P(j) \in Nat /\ E(j) \in Nat /\ P(k) \in Nat /\ P(j) < P(k)
      BY <1>2, <1>6, <2>2
    <3>2. (j < k => E(j) < P(k)) /\ (k < j => E(k) < P(j)) /\ P(k) < E(k) /\ E(k) \in Nat
      BY <1>2, <1>3
    <3>3. j # k
      BY <3>1
    <3>4. j < k \/ k < j
      BY <1>1, <3>3
    <3>. QED BY <1>6, <2>2, <3>1, <3>2, <3>4
  <2>. QED BY <1>5, <2>1, <2>2
<1>7. ASSUME NEW k \in 1 .. n, x = E(k) PROVE x \notin AsSet(s) /\ x - 1 \in AsSet(s)
  <2>1. x - 1 \in AsSet(s)
    <3>1. x - 1 \in Nat /\ P(k) <= x - 1 /\ x - 1 < E(k)
      BY <1>2, <1>7
    <3>. QED BY <1>5, <3>1
  <2>2. ASSUME NEW j \in 1 .. n, P(j) <= x, x < E(j) PROVE FALSE
    <3>1. P(j) \in Nat /\ E(j) \in Nat /\ P(k) \in Nat /\ E(k) \in Nat /\ P(k) < E(k)
      BY <1>2
    <3>2. (j < k => E(j) < P(k)) /\ (k < j => E(k) < P(j))
      BY <1>3
    <3>3. j # k
      BY <1>7, <2>2, <3>1
    <3>4. j < k \/ k < j
      BY <1>1, <3>3
    <3>. QED BY <1>7, <2>2, <3>1, <3>2, <3>4
  <2>. QED BY <1>5, <2>1, <2>2
<1>8. ASSUME x \in AsSet(s), x - 1 \notin AsSet(s) PROVE \E k \in 1 .. n : x = P(k)
  <2>1. PICK k \in 1 .. n : P(k) <= x /\ x < E(k)
    BY <1>5, <1>8
  <2>2. P(k) \in Nat /\ E(k) \in Nat
    BY <1>2
  <2>3. ~(x - 1 \in Nat /\ P(k) <= x - 1 /\ x - 1 < E(k))
    BY <1>5, <1>8
  <2>. QED BY <2>1, <2>2, <2>3
<1>9. ASSUME x \notin AsSet(s), x - 1 \in AsSet(s) PROVE \E k \in 1 .. n : x = E(k)
  <2>1. PICK k \in 1 .. n : P(k) <= x - 1 /\ x - 1 < E(k)
    BY <1>5, <1>9
  <2>2. P(k) \in Nat /\ E(k) \in Nat
    BY <1>2
  <2>3. ~(P(k) <= x /\ x < E(k))
    BY <1>5, <1>9
  <2>. QED BY <2>1, <2>2, <2>3
<1>. QED BY <1>4, <1>6, <1>7, <1>8, <1>9

\* A list ends somewhere.
LEMMA Bounded ==
    ASSUME NEW s \in ItemSets
    PROVE  \E b \in Nat : AsSet(s) \subseteq 0 .. b - 1 /\ Bounds(s) \subseteq 0 .. b
<1>. DEFINE P(k) == s[k].index
            E(k) == s[k].index + s[k].count
            n == Len(s)
            b == IF n = 0 THEN 0 ELSE E(n)
<1>1. s \in Seq(Ranges) /\ n \in Nat /\ AsSet(s) = {y \in Nat : Covers(s, y)}
  BY ValidParts, Members
<1>2. \A k \in 1 .. n : P(k) \in Nat /\ E(k) \in Nat /\ P(k) < E(k)
  <2>. SUFFICES ASSUME NEW k \in 1 .. n PROVE P(k) \in Nat /\ E(k) \in Nat /\ P(k) < E(k)
    OBVIOUS
  <2>. DEFINE p == s[k].index
              c == s[k].count
  <2>1. p \in Nat /\ c \in Nat /\ c > 0
    BY ValidParts
  <2>2. P(k) = p /\ E(k) = p + c
    OBVIOUS
  <2>. HIDE DEF p, c, P, E
  <2>. QED BY <2>1, <2>2
<1>3. \A j, k \in 1 .. n : j < k => E(j) < P(k)
  BY Apart
<1>4. \A x : x \in Bounds(s) <=> \E k \in 1 .. n : x = P(k) \/ x = E(k)
  <2>1. \A r : r \in ToSet(s) <=> \E k \in 1 .. n : r = s[k]
    BY <1>1, InToSet
  <2>2. \A k \in 1 .. n : s[k] \in ToSet(s)
    BY <2>1
  <2>. QED BY <2>1, <2>2 DEF Bounds, Behind
<1>5. \A y \in AsSet(s) : y \in Nat /\ \E k \in 1 .. n : P(k) <= y /\ y < E(k)
  BY <1>1 DEF Covers, Holds
<1>. HIDE DEF P, E, n
<1>6. b \in Nat
  BY <1>1, <1>2
<1>7. \A k \in 1 .. n : E(k) <= b
  <2>. SUFFICES ASSUME NEW k \in 1 .. n PROVE E(k) <= b
    OBVIOUS
  <2>1. n \in 1 .. n /\ b = E(n) /\ (k = n \/ k < n)
    BY <1>1
  <2>2. k < n => E(k) < P(n)
    BY <1>3, <2>1
  <2>3. E(k) \in Nat /\ P(n) \in Nat /\ E(n) \in Nat /\ P(n) < E(n)
    BY <1>2, <2>1
  <2>. QED BY <2>1, <2>2, <2>3
<1>. HIDE DEF b
<1>8. ASSUME NEW y \in AsSet(s) PROVE y \in 0 .. b - 1
  <2>1. PICK k \in 1 .. n : P(k) <= y /\ y < E(k)
    BY <1>5
  <2>. QED BY <1>2, <1>5, <1>6, <1>7, <2>1
<1>9. ASSUME NEW y \in Bounds(s) PROVE y \in 0 .. b
  <2>1. PICK k \in 1 .. n : y = P(k) \/ y = E(k)
    BY <1>4
  <2>2. P(k) \in Nat /\ E(k) \in Nat /\ P(k) < E(k) /\ E(k) <= b
    BY <1>2, <1>7
  <2>. QED BY <1>6, <2>1, <2>2
<1>. QED BY <1>6, <1>8, <1>9

\* How many of the ascending l are at most x: an odd number when x is in A.
Parted(l, A, x) ==
    \E k \in 0 .. Len(l), h \in Nat :
        /\ k = IF x \in A THEN 2 * h + 1 ELSE 2 * h
        /\ \A j \in 1 .. k : l[j] <= x
        /\ \A j \in k + 1 .. Len(l) : l[j] > x

LEMMA PartedBy ==
    ASSUME NEW l \in Seq(Nat), Ascends(l), NEW A \in SUBSET Nat, NEW N \in Nat,
           \A x \in Nat : x \in ToSet(l) <=> ~(x \in A <=> x - 1 \in A)
    PROVE  \A x \in 0 .. N : Parted(l, A, x - 1)
<1>. DEFINE D == {x \in 0 .. N : Parted(l, A, x - 1)}
            n == Len(l)
<1>1. n \in Nat /\ \A j \in 1 .. n : l[j] \in Nat
  OBVIOUS
<1>2. \A y : y \in ToSet(l) <=> \E j \in 1 .. n : y = l[j]
  BY InToSet
<1>3. \A j, k \in 1 .. n : j < k => l[j] < l[k]
  BY DEF Ascends
<1>4. 0 \in D
  <2>1. 0 - 1 \notin A /\ \A j \in 1 .. n : l[j] > 0 - 1
    BY <1>1
  <2>2. 0 \in 0 .. n /\ 0 = 2 * 0 /\ 0 \in Nat
    BY <1>1
  <2>3. Parted(l, A, 0 - 1)
    <3>. DEFINE y == 0 - 1
                k == 0
    <3>1. k = IF y \in A THEN 2 * 0 + 1 ELSE 2 * 0
      BY <2>1
    <3>2. (\A j \in 1 .. k : l[j] <= y) /\ (\A j \in k + 1 .. Len(l) : l[j] > y)
      BY <2>1
    <3>3. k \in 0 .. Len(l) /\ 0 \in Nat
      BY <2>2
    <3>. HIDE DEF y, k
    <3>4. Parted(l, A, y)
      BY <3>1, <3>2, <3>3 DEF Parted
    <3>. QED BY <3>4 DEF y
  <2>. QED BY <2>3
<1>5. ASSUME NEW i \in 1 .. N, i - 1 \in D PROVE i \in D
  <2>. DEFINE x == i - 1
  <2>1. x \in Nat /\ i \in 0 .. N
    OBVIOUS
  <2>2. PICK k \in 0 .. n, h \in Nat :
           /\ k = IF x - 1 \in A THEN 2 * h + 1 ELSE 2 * h
           /\ \A j \in 1 .. k : l[j] <= x - 1
           /\ \A j \in k + 1 .. n : l[j] > x - 1
    BY <1>5 DEF Parted
  <2>. HIDE DEF n
  <2>3. x \in ToSet(l) <=> ~(x \in A <=> x - 1 \in A)
    BY <2>1
  <2>. HIDE DEF x
  <2>4. CASE x \notin ToSet(l)
    <3>1. /\ \A j \in 1 .. k : l[j] <= x
          /\ \A j \in k + 1 .. n : l[j] > x
      <4>1. \A j \in 1 .. n : l[j] # x
        BY <1>2, <2>4
      <4>2. ASSUME NEW j \in 1 .. k PROVE l[j] <= x
        <5>1. l[j] <= x - 1 /\ j \in 1 .. n
          BY <1>1, <2>2
        <5>. DEFINE a == l[j]
        <5>2. a \in Nat /\ a <= x - 1
          BY <1>1, <5>1
        <5>. HIDE DEF a
        <5>3. a <= x
          BY <2>1, <5>2
        <5>. QED BY <5>3 DEF a
      <4>3. ASSUME NEW j \in k + 1 .. n PROVE l[j] > x
        <5>1. l[j] > x - 1 /\ j \in 1 .. n
          BY <1>1, <2>2
        <5>. DEFINE a == l[j]
        <5>2. a \in Nat /\ a # x /\ a > x - 1
          BY <1>1, <4>1, <5>1
        <5>. HIDE DEF a
        <5>3. a > x
          BY <2>1, <5>2
        <5>. QED BY <5>3 DEF a
      <4>. QED BY <4>2, <4>3
    <3>2. k = IF x \in A THEN 2 * h + 1 ELSE 2 * h
      BY <2>2, <2>3, <2>4
    <3>3. Parted(l, A, x)
      BY <3>1, <3>2 DEF Parted, n
    <3>. QED BY <2>1, <3>3 DEF x
  <2>5. CASE x \in ToSet(l)
    <3>1. PICK p \in 1 .. n : x = l[p]
      BY <1>2, <2>5
    <3>2. p = k + 1
      <4>1. ~(p <= k)
        <5>. SUFFICES ASSUME p <= k PROVE FALSE
          OBVIOUS
        <5>1. p \in 1 .. k
          BY <1>1
        <5>2. x <= x - 1
          BY <2>2, <3>1, <5>1
        <5>. QED BY <2>1, <5>2
      <4>2. ~(k + 1 < p)
        <5>. SUFFICES ASSUME k + 1 < p PROVE FALSE
          OBVIOUS
        <5>1. k + 1 \in 1 .. n /\ k + 1 \in k + 1 .. n
          BY <1>1
        <5>. DEFINE a == l[k + 1]
        <5>2. a < x /\ a > x - 1 /\ a \in Nat
          BY <1>1, <1>3, <2>2, <3>1, <5>1
        <5>. HIDE DEF a
        <5>. QED BY <2>1, <5>2
      <4>. QED BY <1>1, <4>1, <4>2
    <3>. DEFINE g == IF x \in A THEN h ELSE h + 1
    <3>3. k + 1 = IF x \in A THEN 2 * g + 1 ELSE 2 * g
      BY <2>2, <2>3, <2>5
    <3>4. g \in Nat /\ k + 1 \in 0 .. n
      BY <1>1, <3>2
    <3>5. \A j \in 1 .. k + 1 : l[j] <= x
      <4>. SUFFICES ASSUME NEW j \in 1 .. k + 1 PROVE l[j] <= x
        OBVIOUS
      <4>1. CASE j = k + 1
        BY <1>1, <2>1, <3>1, <3>2, <4>1
      <4>2. CASE j # k + 1
        <5>1. j \in 1 .. k /\ j \in 1 .. n
          BY <1>1, <4>2
        <5>. DEFINE u == l[j]
        <5>2. u <= x - 1 /\ u \in Nat
          BY <1>1, <2>2, <5>1
        <5>. HIDE DEF u
        <5>3. u <= x
          BY <2>1, <5>2
        <5>. QED BY <5>3 DEF u
      <4>. QED BY <4>1, <4>2
    <3>6. \A j \in k + 1 + 1 .. n : l[j] > x
      <4>. SUFFICES ASSUME NEW j \in k + 1 + 1 .. n PROVE l[j] > x
        OBVIOUS
      <4>1. j \in 1 .. n /\ p < j
        BY <1>1, <3>2
      <4>2. l[p] < l[j]
        BY <1>3, <4>1
      <4>. QED BY <1>1, <3>1, <4>1, <4>2
    <3>. HIDE DEF g
    <3>7. Parted(l, A, x)
      BY <3>3, <3>4, <3>5, <3>6 DEF Parted, n
    <3>. QED BY <2>1, <3>7 DEF x
  <2>. QED BY <2>4, <2>5
<1>6. D = 0 .. N
  <2>1. D \in SUBSET (0 .. N)
    OBVIOUS
  <2>. HIDE DEF D
  <2>. QED BY <1>4, <1>5, <2>1, Climb
<1>. QED BY <1>6

\* Each two of an ascending list bound a range.
LEMMA PairsBound ==
    ASSUME NEW l \in Seq(Nat), Ascends(l), NEW A \in SUBSET Nat, NEW N \in Nat, A \subseteq 0 .. N,
           \A x \in Nat : x \in ToSet(l) <=> ~(x \in A <=> x - 1 \in A),
           ToSet(l) \subseteq 0 .. N, NEW m,
           m = [k \in 1 .. Len(l) \div 2 |-> KItemRange(l[2*k - 1], l[2*k] - l[2*k - 1])]
    PROVE  m \in ItemSets /\ AsSet(m) = A
<1>. DEFINE n == Len(l)
            half == n \div 2
<1>1. n \in Nat /\ \A j \in 1 .. n : l[j] \in Nat
  OBVIOUS
<1>2. half \in Nat /\ \A k \in Nat : k \in 1 .. half <=> k >= 1 /\ 2 * k <= n
  BY <1>1
<1>3. \A j, k \in 1 .. n : j < k => l[j] < l[k]
  BY DEF Ascends
<1>4. \A y : y \in ToSet(l) <=> \E j \in 1 .. n : y = l[j]
  BY InToSet
<1>5. m = [k \in 1 .. half |-> KItemRange(l[2*k - 1], l[2*k] - l[2*k - 1])]
  OBVIOUS
<1>. HIDE DEF half
<1>6. ASSUME NEW k \in 1 .. half
      PROVE  /\ m[k] \in Ranges /\ m[k].index = l[2*k - 1] /\ m[k].count = l[2*k] - l[2*k - 1]
             /\ 2*k - 1 \in 1 .. n /\ 2*k \in 1 .. n /\ l[2*k - 1] < l[2*k]
             /\ l[2*k - 1] \in Nat /\ l[2*k] \in Nat
  <2>1. 2*k - 1 \in 1 .. n /\ 2*k \in 1 .. n /\ 2*k - 1 < 2*k
    <3>1. k >= 1 /\ 2 * k <= n
      BY <1>2
    <3>. QED BY <1>1, <1>2, <3>1
  <2>. DEFINE a == l[2*k - 1]
              b == l[2*k]
              c == b - a
  <2>2. a < b /\ a \in Nat /\ b \in Nat
    BY <1>1, <1>3, <2>1
  <2>3. m[k] = KItemRange(a, c)
    BY <1>5
  <2>. HIDE DEF a, b
  <2>4. c \in Nat
    BY <2>2
  <2>. HIDE DEF c
  <2>5. KItemRange(a, c) \in Ranges /\ KItemRange(a, c).index = a /\ KItemRange(a, c).count = c
    BY <2>2, <2>4, NewRange
  <2>6. m[k] \in Ranges /\ m[k].index = a /\ m[k].count = c
    BY <2>3, <2>5
  <2>. QED BY <2>1, <2>2, <2>6 DEF a, b, c
<1>7. m \in Seq(Ranges) /\ Len(m) = half
  <2>1. \A k \in 1 .. half : m[k] \in Ranges
    BY <1>6
  <2>2. DOMAIN m = 1 .. half /\ m = [k \in 1 .. half |-> m[k]]
    BY <1>5
  <2>3. m \in [1 .. half -> Ranges]
    BY <2>1, <2>2
  <2>. QED BY <1>2, <2>3
<1>8. ASSUME NEW k \in 1 .. half, NEW x \in Nat
      PROVE  Holds(m, k, x) <=> l[2*k - 1] <= x /\ x < l[2*k]
  <2>. DEFINE a == l[2*k - 1]
              b == l[2*k]
  <2>1. m[k].index = a /\ m[k].count = b - a /\ a \in Nat /\ b \in Nat
    BY <1>6
  <2>. HIDE DEF a, b
  <2>2. Holds(m, k, x) <=> a <= x /\ x < a + (b - a)
    BY <2>1 DEF Holds
  <2>3. a + (b - a) = b
    BY <2>1
  <2>. QED BY <2>2, <2>3 DEF a, b
<1>9. m \in ItemSets
  <2>1. \A k \in 1 .. Len(m) : m[k].count > 0
    <3>. SUFFICES ASSUME NEW k \in 1 .. half PROVE m[k].count > 0
      BY <1>7
    <3>. DEFINE a == l[2*k - 1]
                b == l[2*k]
    <3>1. m[k].count = b - a /\ a < b /\ a \in Nat /\ b \in Nat
      BY <1>6
    <3>. HIDE DEF a, b
    <3>2. b - a > 0
      BY <3>1
    <3>. QED BY <3>1, <3>2
  <2>2. \A k \in 2 .. Len(m) : m[k - 1].index + m[k - 1].count < m[k].index
    <3>. SUFFICES ASSUME NEW k \in 2 .. half PROVE m[k - 1].index + m[k - 1].count < m[k].index
      BY <1>7
    <3>. DEFINE j == k - 1
                a == l[2*j - 1]
                b == l[2*j]
                c == l[2*k - 1]
    <3>1. j \in 1 .. half /\ k \in 1 .. half /\ 2*j < 2*k - 1
      BY <1>2
    <3>2. m[k].index = c /\ c \in Nat /\ 2*k - 1 \in 1 .. n
      BY <1>6, <3>1
    <3>. HIDE DEF j
    <3>3. m[j].index = a /\ m[j].count = b - a /\ a \in Nat /\ b \in Nat /\ 2*j \in 1 .. n
      BY <1>6, <3>1
    <3>4. b < c
      BY <1>3, <3>1, <3>2, <3>3
    <3>. HIDE DEF a, b, c
    <3>5. a + (b - a) < c
      BY <3>3, <3>4
    <3>6. m[j].index + m[j].count < m[k].index
      BY <3>2, <3>3, <3>5
    <3>. QED BY <3>6 DEF j
  <2>. QED BY <1>7, <2>1, <2>2, ValidIf
<1>10. ASSUME NEW x \in 0 .. N
       PROVE  \E k \in 0 .. n, h \in Nat :
                 /\ k = IF x \in A THEN 2 * h + 1 ELSE 2 * h
                 /\ \A j \in 1 .. k : l[j] <= x
                 /\ \A j \in k + 1 .. n : l[j] > x
  <2>. DEFINE M == N + 1
              y == x + 1
  <2>1. M \in Nat /\ y \in 0 .. M /\ y - 1 = x
    OBVIOUS
  <2>2. Parted(l, A, y - 1)
    <3>. HIDE DEF M, y
    <3>. QED BY <2>1, PartedBy
  <2>3. Parted(l, A, x)
    BY <2>1, <2>2
  <2>. QED BY <2>3 DEF Parted
<1>11. ASSUME NEW x \in Nat, NEW k \in 1 .. half, Holds(m, k, x) PROVE x \in A
  <2>. DEFINE e == 2 * k
  <2>1. l[e - 1] <= x /\ x < l[e] /\ e - 1 \in 1 .. n /\ e \in 1 .. n /\ l[e - 1] \in Nat /\ l[e] \in Nat
    BY <1>6, <1>8, <1>11
  <2>2. x \in 0 .. N
    <3>. DEFINE u == l[e]
    <3>1. u \in 0 .. N /\ x < u
      BY <1>4, <2>1
    <3>. HIDE DEF u
    <3>. QED BY <3>1
  <2>3. PICK c \in 0 .. n, h \in Nat :
           /\ c = IF x \in A THEN 2 * h + 1 ELSE 2 * h
           /\ \A j \in 1 .. c : l[j] <= x
           /\ \A j \in c + 1 .. n : l[j] > x
    BY <1>10, <2>2
  <2>. HIDE DEF e
  <2>4. ~(e <= c)
    <3>. SUFFICES ASSUME e <= c PROVE FALSE
      OBVIOUS
    <3>1. e \in 1 .. c
      BY <1>1, <2>1
    <3>2. l[e] <= x
      BY <2>3, <3>1
    <3>. DEFINE u == l[e]
    <3>3. u <= x /\ x < u /\ u \in Nat
      BY <2>1, <3>2
    <3>. HIDE DEF u
    <3>. QED BY <3>3
  <2>5. ~(e - 1 > c)
    <3>. SUFFICES ASSUME e - 1 > c PROVE FALSE
      OBVIOUS
    <3>. DEFINE d == e - 1
                u == l[d]
    <3>1. d \in c + 1 .. n
      BY <1>1, <2>1
    <3>. HIDE DEF d
    <3>2. l[d] > x
      BY <2>3, <3>1
    <3>3. u > x /\ u <= x /\ u \in Nat
      BY <2>1, <3>2 DEF d
    <3>. HIDE DEF u
    <3>. QED BY <3>3
  <2>6. c = e - 1
    BY <1>1, <2>1, <2>4, <2>5
  <2>7. x \notin A => 2 * h = 2 * k - 1
    BY <2>3, <2>6 DEF e
  <2>. QED BY <1>2, <2>7
<1>12. ASSUME NEW x \in A PROVE \E k \in 1 .. half : Holds(m, k, x)
  <2>. DEFINE y == N + 1
              M == y + 1
  <2>1. PICK c \in 0 .. n, h \in Nat :
           /\ c = 2 * h + 1
           /\ \A j \in 1 .. c : l[j] <= x
           /\ \A j \in c + 1 .. n : l[j] > x
    BY <1>10
  <2>2. \E g \in Nat : n = 2 * g
    <3>1. Parted(l, A, M - 1)
      <4>1. M \in Nat /\ M \in 0 .. M
        OBVIOUS
      <4>. HIDE DEF M
      <4>. QED BY <4>1, PartedBy
    <3>2. M - 1 = y /\ y \notin A
      OBVIOUS
    <3>3. PICK d \in 0 .. n, g \in Nat : d = 2 * g /\ \A j \in d + 1 .. n : l[j] > y
      BY <3>1, <3>2 DEF Parted
    <3>4. \A j \in 1 .. n : ~(l[j] > y)
      <4>. SUFFICES ASSUME NEW j \in 1 .. n PROVE ~(l[j] > y)
        OBVIOUS
      <4>. DEFINE u == l[j]
      <4>1. u \in 0 .. N
        BY <1>4
      <4>. HIDE DEF u
      <4>2. ~(u > y)
        BY <4>1
      <4>. QED BY <4>2 DEF u
    <3>5. d = n
      <4>. HIDE DEF y
      <4>. SUFFICES ASSUME d # n PROVE FALSE
        OBVIOUS
      <4>1. d + 1 \in d + 1 .. n /\ d + 1 \in 1 .. n
        BY <1>1
      <4>. QED BY <3>3, <3>4, <4>1
    <3>. QED BY <3>3, <3>5
  <2>. DEFINE k == h + 1
  <2>3. 2 * k - 1 = c /\ 2 * k = c + 1 /\ 2 * k <= n /\ k \in Nat /\ k >= 1
    BY <1>1, <2>1, <2>2
  <2>4. k \in 1 .. half
    BY <1>2, <2>3
  <2>5. l[c] <= x /\ x < l[c + 1]
    <3>1. c \in 1 .. c /\ c + 1 \in c + 1 .. n /\ c + 1 \in 1 .. n
      BY <1>1, <2>1, <2>3
    <3>2. l[c + 1] > x /\ l[c] <= x /\ l[c + 1] \in Nat
      BY <1>1, <2>1, <3>1
    <3>. DEFINE b == l[c + 1]
    <3>. HIDE DEF b
    <3>3. x < b
      BY <3>2 DEF b
    <3>. QED BY <3>2, <3>3 DEF b
  <2>6. l[2 * k - 1] <= x /\ x < l[2 * k]
    <3>. HIDE DEF k
    <3>. QED BY <2>3, <2>5
  <2>. HIDE DEF k
  <2>7. x \in Nat
    OBVIOUS
  <2>. QED BY <1>8, <2>4, <2>6, <2>7
<1>13. AsSet(m) = {x \in Nat : \E k \in 1 .. half : Holds(m, k, x)}
  BY <1>7, Members DEF Covers
<1>. QED BY <1>9, <1>11, <1>12, <1>13

\* operator^() returns the symmetric difference.
THEOREM XorCorrect ==
    ASSUME NEW s \in ItemSets, NEW t \in ItemSets
    PROVE  Xor(s, t) \in ItemSets /\ AsSet(Xor(s, t)) = SymDiff(AsSet(s), AsSet(t))
<1>. DEFINE B == SymDiff(Bounds(s), Bounds(t))
            A == SymDiff(AsSet(s), AsSet(t))
            l == Ascending(RangesOf(B))
            m == Xor(s, t)
<1>1. PICK b \in Nat : AsSet(s) \subseteq 0 .. b - 1 /\ Bounds(s) \subseteq 0 .. b
  BY Bounded
<1>2. PICK c \in Nat : AsSet(t) \subseteq 0 .. c - 1 /\ Bounds(t) \subseteq 0 .. c
  BY Bounded
<1>. DEFINE N == b + c + 1
<1>3. N \in Nat /\ A \subseteq 0 .. N /\ B \subseteq 0 .. N - 1 /\ B \subseteq 0 .. N /\ A \subseteq Nat
  BY <1>1, <1>2 DEF SymDiff
<1>4. l \in Seq(Nat) /\ Ascends(l) /\ ToSet(l) = B
  <2>. HIDE DEF B, N
  <2>1. RangesOf(B) \in ItemSets /\ AsSet(RangesOf(B)) = B
    BY <1>3, RangesOfCorrect
  <2>. QED BY <2>1, AscendingCorrect
<1>5. \A x \in Nat : x \in B <=> ~(x \in A <=> x - 1 \in A)
  BY BoundsFlip DEF SymDiff
<1>6. m = [k \in 1 .. Len(l) \div 2 |-> KItemRange(l[2*k - 1], l[2*k] - l[2*k - 1])]
  BY DEF Xor, Bounds
<1>. HIDE DEF B, A, l, m, N
<1>7. m \in ItemSets /\ AsSet(m) = A
  BY <1>3, <1>4, <1>5, <1>6, PairsBound
<1>. QED BY <1>7 DEF m, A

--------------------------------------------------------------------------------
(* operator+()                                                              *)

Joins(u, k, r) == k <= Len(u) /\ u[k].index <= Behind(r)
After(u, k, r) == IF Joins(u, k, r) THEN k + 1 ELSE k
Grown(u, k, r) == IF Joins(u, k, r)
                  THEN KItemRange(r.index, Max({r.count, Behind(u[k]) - r.index})) ELSE r

\* x is in range r; in one of the first k ranges of u.
In(r, x) == r.index <= x /\ x < r.index + r.count
Upto(u, k, x) == \E j \in 1 .. k : Holds(u, j, x)

LEMMA MaxOfTwo ==
    ASSUME NEW a \in Int, NEW b \in Int
    PROVE  Max({a, b}) = IF a >= b THEN a ELSE b
<1>. DEFINE m == IF a >= b THEN a ELSE b
            T == {a, b}
<1>1. m \in T /\ \A y \in T : m >= y
  OBVIOUS
<1>2. \A z \in T : (\A y \in T : z >= y) => z = m
  OBVIOUS
<1>. HIDE DEF m
<1>3. Max(T) = m
  <2>1. Max(T) \in T /\ \A y \in T : Max(T) >= y
    <3>. HIDE DEF T
    <3>. QED BY <1>1 DEF Max
  <2>. HIDE DEF T
  <2>. QED BY <1>2, <2>1
<1>. QED BY <1>3 DEF m

\* A range of the sum takes the next range of one list.
LEMMA GrownBy ==
    ASSUME NEW u \in ItemSets, NEW k \in 1 .. Len(u) + 1, NEW r \in Ranges,
           k <= Len(u) => r.index <= u[k].index
    PROVE  /\ Grown(u, k, r) \in Ranges /\ Grown(u, k, r).index = r.index
           /\ r.count <= Grown(u, k, r).count
           /\ After(u, k, r) \in 1 .. Len(u) + 1
           /\ After(u, k, r) <= Len(u) => r.index <= u[After(u, k, r)].index
           /\ Joins(u, k, r) => After(u, k, r) = k + 1 /\ Grown(u, k, r).count > 0
           /\ ~Joins(u, k, r) => After(u, k, r) = k /\ Grown(u, k, r) = r
           /\ \A x \in Nat : In(Grown(u, k, r), x) \/ Upto(u, k - 1, x)
                                <=> In(r, x) \/ Upto(u, After(u, k, r) - 1, x)
<1>1. r.index \in Nat /\ r.count \in Nat /\ Len(u) \in Nat
  BY ValidParts DEF Ranges
<1>2. CASE ~Joins(u, k, r)
  <2>1. After(u, k, r) = k /\ Grown(u, k, r) = r
    BY <1>2 DEF After, Grown
  <2>. QED BY <1>1, <1>2, <2>1
<1>3. CASE Joins(u, k, r)
  <2>. DEFINE a == r.index
              c == r.count
              p == u[k].index
              d == u[k].count
              e == p + d - a
              g == IF c >= e THEN c ELSE e
              w == Grown(u, k, r)
  <2>1. k <= Len(u) /\ k \in 1 .. Len(u) /\ p <= a + c /\ a <= p
    BY <1>1, <1>3 DEF Joins, Behind
  <2>2. p \in Nat /\ d \in Nat /\ d > 0 /\ a \in Nat /\ c \in Nat
    BY <1>1, <2>1, ValidParts
  <2>3. e \in Int /\ e > 0 /\ g \in Nat /\ g > 0 /\ c <= g
    <3>. HIDE DEF a, c, p, d
    <3>. QED BY <2>1, <2>2
  <2>4. w = KItemRange(a, Max({c, e})) /\ After(u, k, r) = k + 1
    <3>1. w = KItemRange(a, Max({c, (p + d) - a})) /\ After(u, k, r) = k + 1
      BY <1>3 DEF Grown, After, Behind
    <3>2. (p + d) - a = e
      BY <2>2
    <3>. QED BY <3>1, <3>2
  <2>5. \A x \in Nat : Holds(u, k, x) <=> p <= x /\ x < p + d
    BY HoldsIn
  <2>6. k + 1 <= Len(u) => p <= u[k + 1].index /\ u[k + 1].index \in Nat
    <3>. SUFFICES ASSUME k + 1 <= Len(u) PROVE p <= u[k + 1].index /\ u[k + 1].index \in Nat
      OBVIOUS
    <3>1. k + 1 \in 1 .. Len(u) /\ k < k + 1
      BY <1>1
    <3>. DEFINE q == u[k + 1].index
    <3>2. q \in Nat /\ p + d < q
      BY <2>1, <3>1, Apart, ValidParts
    <3>. HIDE DEF p, d, q
    <3>3. p <= q
      BY <2>2, <3>2
    <3>. QED BY <3>2, <3>3 DEF q
  <2>7. Max({c, e}) = g
    <3>. HIDE DEF c, e
    <3>. QED BY <2>2, <2>3, MaxOfTwo DEF c
  <2>. HIDE DEF a, c, p, d, e, g, w
  <2>8. w \in Ranges /\ w.index = a /\ w.count = g
    BY <2>2, <2>3, <2>4, <2>7, NewRange
  <2>9. \A x \in Nat : Upto(u, k, x) <=> Upto(u, k - 1, x) \/ Holds(u, k, x)
    <3>1. 1 .. k = (1 .. k - 1) \cup {k}
      BY <1>1
    <3>. QED BY <3>1 DEF Upto
  <2>10. \A x \in Nat : In(w, x) <=> (a <= x /\ x < a + c) \/ Holds(u, k, x)
    <3>. SUFFICES ASSUME NEW x \in Nat
                  PROVE  a <= x /\ x < a + g <=> (a <= x /\ x < a + c) \/ (p <= x /\ x < p + d)
      BY <2>5, <2>8 DEF In
    <3>. QED BY <2>1, <2>2, <2>3 DEF e, g
  <2>11. \A x \in Nat : In(w, x) \/ Upto(u, k - 1, x) <=> In(r, x) \/ Upto(u, k, x)
    BY <2>9, <2>10 DEF In, a, c
  <2>12. k + 1 - 1 = k /\ k + 1 \in 1 .. Len(u) + 1
    BY <1>1, <2>1
  <2>13. k + 1 <= Len(u) => a <= u[k + 1].index
    <3>. DEFINE q == u[k + 1].index
    <3>1. k + 1 <= Len(u) => p <= q /\ q \in Nat
      BY <2>6
    <3>. HIDE DEF q
    <3>2. k + 1 <= Len(u) => a <= q
      BY <2>1, <2>2, <3>1
    <3>. QED BY <3>2 DEF q
  <2>14. /\ w \in Ranges /\ w.index = r.index /\ r.count <= w.count /\ w.count > 0
    BY <2>3, <2>8 DEF a, c
  <2>15. /\ After(u, k, r) \in 1 .. Len(u) + 1
         /\ After(u, k, r) <= Len(u) => r.index <= u[After(u, k, r)].index
    BY <2>4, <2>12, <2>13 DEF a
  <2>16. \A x \in Nat : In(w, x) \/ Upto(u, k - 1, x) <=> In(r, x) \/ Upto(u, After(u, k, r) - 1, x)
    <3>1. After(u, k, r) - 1 = k
      BY <2>4, <2>12
    <3>. QED BY <2>11, <3>1
  <2>17. w = Grown(u, k, r) /\ After(u, k, r) = k + 1
    BY <2>4 DEF w
  <2>. HIDE DEF w
  <2>. QED BY <1>3, <2>14, <2>15, <2>16, <2>17
<1>. QED BY <1>2, <1>3

\* The positions in s and in t, and the sum of the ranges before them.
SumSoFar(s, t, p) ==
    /\ p \in Int \X Int \X ItemSets
    /\ p[1] \in 1 .. Len(s) + 1 /\ p[2] \in 1 .. Len(t) + 1
    /\ \A x \in Nat : x \in AsSet(p[3]) <=> Upto(s, p[1] - 1, x) \/ Upto(t, p[2] - 1, x)
    /\ Len(p[3]) > 0 => /\ p[1] <= Len(s) => Last(p[3]).index <= s[p[1]].index
                        /\ p[2] <= Len(t) => Last(p[3]).index <= t[p[2]].index

Read(s, t, p, before, r) ==
    LET both == Grown(s, p[1], r)
    IN <<After(s, p[1], r), After(t, p[2], both), Append(before, Grown(t, p[2], both))>>
Joining(s, t, p) ==
    p[3] # <<>> /\ (Joins(s, p[1], Last(p[3])) \/ Joins(t, p[2], Last(p[3])))
AtAnEnd(s, t, p) == p[1] > Len(s) \/ p[2] > Len(t)
Round(s, t, p) ==
    IF Joining(s, t, p) THEN Read(s, t, p, Front(p[3]), Last(p[3]))
    ELSE IF AtAnEnd(s, t, p)
    THEN <<Len(s) + 1, Len(t) + 1,
           p[3] \o SubSeq(s, p[1], Len(s)) \o SubSeq(t, p[2], Len(t))>>
    ELSE Read(s, t, p, p[3], KItemRange(Min({s[p[1]].index, t[p[2]].index}), 0))

ReadRight(s, t, i, j, r, v, k, l) ==
    /\ k \in 1 .. Len(s) + 1 /\ l \in 1 .. Len(t) + 1 /\ i + j < k + l /\ i <= k /\ j <= l
    /\ v \in Ranges /\ v.index = r.index /\ r.count <= v.count /\ v.count > 0
    /\ k <= Len(s) => r.index <= s[k].index
    /\ l <= Len(t) => r.index <= t[l].index
    /\ \A x \in Nat : In(v, x) \/ Upto(s, i - 1, x) \/ Upto(t, j - 1, x)
                         <=> In(r, x) \/ Upto(s, k - 1, x) \/ Upto(t, l - 1, x)

\* What a round does that reads the next range of one list or of both.
LEMMA ReadBoth ==
    ASSUME NEW s \in ItemSets, NEW t \in ItemSets, NEW i \in 1 .. Len(s) + 1,
           NEW j \in 1 .. Len(t) + 1, NEW r \in Ranges,
           i <= Len(s) => r.index <= s[i].index, j <= Len(t) => r.index <= t[j].index,
           Joins(s, i, r) \/ Joins(t, j, r),
           NEW both, both = Grown(s, i, r), NEW v, v = Grown(t, j, both),
           NEW k, k = After(s, i, r), NEW l, l = After(t, j, both)
    PROVE  ReadRight(s, t, i, j, r, v, k, l)
<1>1. /\ both \in Ranges /\ both.index = r.index /\ r.count <= both.count
      /\ k \in 1 .. Len(s) + 1 /\ (k <= Len(s) => r.index <= s[k].index)
      /\ Joins(s, i, r) => k = i + 1 /\ both.count > 0
      /\ ~Joins(s, i, r) => k = i /\ both = r
      /\ \A x \in Nat : In(both, x) \/ Upto(s, i - 1, x) <=> In(r, x) \/ Upto(s, k - 1, x)
  BY GrownBy
<1>2. j <= Len(t) => both.index <= t[j].index
  BY <1>1
<1>3. /\ v \in Ranges /\ v.index = both.index /\ both.count <= v.count
      /\ l \in 1 .. Len(t) + 1 /\ (l <= Len(t) => both.index <= t[l].index)
      /\ Joins(t, j, both) => l = j + 1 /\ v.count > 0
      /\ ~Joins(t, j, both) => l = j /\ v = both
      /\ \A x \in Nat : In(v, x) \/ Upto(t, j - 1, x) <=> In(both, x) \/ Upto(t, l - 1, x)
  BY <1>1, <1>2, GrownBy
<1>. DEFINE a == r.count
            b == both.count
            c == v.count
<1>4. a \in Nat /\ b \in Nat /\ c \in Nat
  BY <1>1, <1>3 DEF Ranges
<1>5. i + j < k + l /\ i <= k /\ j <= l /\ r.count <= v.count /\ v.count > 0
  <2>1. a <= b /\ b <= c /\ (Joins(s, i, r) => b > 0) /\ (Joins(t, j, both) => c > 0)
    BY <1>1, <1>3
  <2>2. ~Joins(s, i, r) => both = r
    BY <1>1
  <2>3. Joins(s, i, r) \/ Joins(t, j, both)
    BY <2>2
  <2>4. (Joins(s, i, r) => k = i + 1) /\ (~Joins(s, i, r) => k = i)
        /\ (Joins(t, j, both) => l = j + 1) /\ (~Joins(t, j, both) => l = j)
    BY <1>1, <1>3
  <2>5. Len(s) \in Nat /\ Len(t) \in Nat
    BY ValidParts
  <2>6. i + j < k + l /\ i <= k /\ j <= l
    BY <2>3, <2>4, <2>5
  <2>. HIDE DEF a, b, c
  <2>7. a <= c /\ c > 0
    BY <1>4, <2>1, <2>3
  <2>. QED BY <2>6, <2>7 DEF a, c
<1>6. /\ k \in 1 .. Len(s) + 1 /\ l \in 1 .. Len(t) + 1
      /\ v \in Ranges /\ v.index = r.index
      /\ k <= Len(s) => r.index <= s[k].index
      /\ l <= Len(t) => r.index <= t[l].index
      /\ \A x \in Nat : In(v, x) \/ Upto(s, i - 1, x) \/ Upto(t, j - 1, x)
                           <=> In(r, x) \/ Upto(s, k - 1, x) \/ Upto(t, l - 1, x)
  BY <1>1, <1>3
<1>. QED BY <1>5, <1>6 DEF ReadRight

\* The last range of the sum has grown; a range is new behind it; the rest of a
\* list is behind it.
LEMMA LastGrown ==
    ASSUME NEW s \in ItemSets, Len(s) > 0, NEW v \in Ranges, v.index = Last(s).index,
           Last(s).count <= v.count, v.count > 0, NEW m, m = Append(Front(s), v)
    PROVE  /\ m \in ItemSets /\ Last(m) = v
           /\ \A x \in Nat : x \in AsSet(m) <=> x \in AsSet(s) \/ In(v, x)
<1>. DEFINE e == Len(s)
            d == e - 1
            f == Front(s)
<1>1. s \in Seq(Ranges) /\ e \in Nat /\ e \in 1 .. e /\ d \in Nat /\ d + 1 = e /\ d + 1 - 1 = d
  BY ValidParts
<1>2. f \in Seq(Ranges) /\ Len(f) = d /\ \A j \in 1 .. d : f[j] = s[j]
  <2>1. \A j \in 1 .. d : s[j] \in Ranges
    BY <1>1
  <2>2. f = SubSeq(s, 1, d)
    BY DEF Front
  <2>. HIDE DEF f
  <2>3. /\ SubSeq(s, 1, d) \in Seq(Ranges)
        /\ Len(SubSeq(s, 1, d)) = IF 1 <= d THEN d - 1 + 1 ELSE 0
        /\ \A j \in 1 .. d - 1 + 1 : SubSeq(s, 1, d)[j] = s[1 + j - 1]
    <3>1. 1 \in Int /\ d \in Int
      BY <1>1
    <3>. HIDE DEF d
    <3>. QED BY <2>1, <3>1, SubSeqProperties
  <2>4. d - 1 + 1 = d /\ (IF 1 <= d THEN d - 1 + 1 ELSE 0) = d
    BY <1>1
  <2>5. \A j \in 1 .. d : 1 + j - 1 = j
    BY <1>1
  <2>. HIDE DEF d
  <2>. QED BY <2>2, <2>3, <2>4, <2>5
<1>. HIDE DEF f, d
<1>3. m \in Seq(Ranges) /\ Len(m) = e /\ \A j \in 1 .. e : m[j] = IF j = e THEN v ELSE s[j]
  <2>1. m = Append(f, v)
    BY DEF f
  <2>2. m \in Seq(Ranges) /\ Len(m) = d + 1 /\ m[d + 1] = v /\ \A j \in 1 .. d : m[j] = f[j]
    BY <1>1, <1>2, <2>1
  <2>3. \A j \in 1 .. e : j # e => j \in 1 .. d
    BY <1>1
  <2>. QED BY <1>1, <1>2, <2>2, <2>3
<1>4. Last(m) = v /\ Last(s) = s[e]
  BY <1>1, <1>3 DEF Last
<1>. DEFINE b == e + 1
<1>5. IsSpliced(m, s, d, b, v)
  <2>1. Len(m) = d + 1 + (Len(s) + 1 - b)
    BY <1>1, <1>3
  <2>2. ASSUME NEW j \in 1 .. Len(m)
        PROVE  m[j] = IF j <= d THEN s[j] ELSE IF j = d + 1 THEN v ELSE s[j - d - 2 + b]
    <3>1. j \in 1 .. e /\ (j <= d <=> j # e) /\ (j = d + 1 <=> j = e)
      BY <1>1, <1>3
    <3>. QED BY <1>3, <3>1
  <2>. QED BY <1>3, <2>1, <2>2 DEF IsSpliced
<1>6. /\ d \in 0 .. Len(s) /\ b \in d + 1 .. Len(s) + 1
      /\ d > 0 => s[d].index + s[d].count < v.index
      /\ ~(b <= Len(s))
  <2>1. d > 0 => e \in 2 .. Len(s) /\ e - 1 = d
    BY <1>1
  <2>2. d > 0 => s[d].index + s[d].count < s[e].index
    BY <2>1, ValidParts
  <2>. QED BY <1>1, <1>4, <2>2
<1>7. m \in ItemSets /\ AsSet(m) = Around(s, d, b) \cup {x \in Nat : v.index <= x /\ x < v.index + v.count}
  <2>. HIDE DEF b
  <2>. QED BY <1>5, <1>6, Spliced
<1>8. ASSUME NEW x \in Nat PROVE x \in AsSet(m) <=> x \in AsSet(s) \/ In(v, x)
  <2>1. x \in AsSet(m) <=> x \in Around(s, d, b) \/ In(v, x)
    BY <1>7 DEF In
  <2>2. x \in AsSet(s) <=> Covers(s, x)
    BY <1>1, Members
  <2>3. x \in Around(s, d, b) => Covers(s, x)
    BY DEF Around, Covers
  <2>4. Covers(s, x) => x \in Around(s, d, b) \/ Holds(s, e, x)
    <3>1. \A j \in 1 .. Len(s) : j <= d \/ j = e
      BY <1>1
    <3>. QED BY <3>1 DEF Around, Covers
  <2>5. Holds(s, e, x) => In(v, x)
    <3>. DEFINE p == s[e].index
                c == s[e].count
                g == v.count
    <3>1. p \in Nat /\ c \in Nat /\ g \in Nat /\ c <= g /\ v.index = p
      <4>1. p \in Nat /\ c \in Nat
        BY <1>1, ValidParts
      <4>. QED BY <1>4, <4>1 DEF Ranges
    <3>2. Holds(s, e, x) <=> p <= x /\ x < p + c
      BY HoldsIn
    <3>3. In(v, x) <=> p <= x /\ x < p + g
      BY <3>1 DEF In
    <3>. HIDE DEF p, c, g
    <3>. QED BY <3>1, <3>2, <3>3
  <2>. QED BY <2>1, <2>2, <2>3, <2>4, <2>5
<1>. QED BY <1>4, <1>7, <1>8

LEMMA NewLast ==
    ASSUME NEW s \in ItemSets, NEW v \in Ranges, v.count > 0,
           Len(s) > 0 => Last(s).index + Last(s).count < v.index, NEW m, m = Append(s, v)
    PROVE  /\ m \in ItemSets /\ Last(m) = v
           /\ \A x \in Nat : x \in AsSet(m) <=> x \in AsSet(s) \/ In(v, x)
<1>. DEFINE e == Len(s)
            b == e + 1
<1>1. s \in Seq(Ranges) /\ e \in Nat /\ b - 1 = e
  BY ValidParts
<1>2. Last(m) = v
  BY <1>1 DEF Last
<1>3. IsSpliced(m, s, e, b, v)
  <2>1. b \in 1 .. Len(s) + 1
    BY <1>1
  <2>2. m = InsertAt(s, b, v)
    BY <1>1, AppendIsInsert
  <2>. HIDE DEF b, e
  <2>3. IsSpliced(m, s, b - 1, b, v)
    BY <1>1, <2>1, <2>2, InsertSplices
  <2>. QED BY <1>1, <2>3
<1>4. /\ e \in 0 .. Len(s) /\ b \in e + 1 .. Len(s) + 1 /\ ~(b <= Len(s))
      /\ e > 0 => s[e].index + s[e].count < v.index
  BY <1>1 DEF Last
<1>5. m \in ItemSets /\ AsSet(m) = Around(s, e, b) \cup {x \in Nat : v.index <= x /\ x < v.index + v.count}
  <2>. HIDE DEF b, e
  <2>. QED BY <1>3, <1>4, Spliced
<1>6. ASSUME NEW x \in Nat PROVE x \in AsSet(m) <=> x \in AsSet(s) \/ In(v, x)
  <2>1. x \in AsSet(m) <=> x \in Around(s, e, b) \/ In(v, x)
    BY <1>5 DEF In
  <2>2. x \in AsSet(s) <=> Covers(s, x)
    BY <1>1, Members
  <2>3. x \in Around(s, e, b) <=> Covers(s, x)
    <3>1. \A j \in 1 .. Len(s) : j <= e
      BY <1>1
    <3>. QED BY <3>1 DEF Around, Covers
  <2>. QED BY <2>1, <2>2, <2>3
<1>. QED BY <1>2, <1>5, <1>6

RestIsAdded(s, u, k, m) ==
    /\ m \in ItemSets
    /\ \A x \in Nat :
          /\ x \in AsSet(m) \/ Upto(u, k - 1, x) <=> x \in AsSet(s) \/ Upto(u, Len(u), x)
          /\ x \in AsSet(s) => x \in AsSet(m)

LEMMA RestAdded ==
    ASSUME NEW s \in ItemSets, NEW u \in ItemSets, NEW k \in 1 .. Len(u) + 1,
           Len(s) > 0 /\ k <= Len(u) => Last(s).index + Last(s).count < u[k].index,
           NEW m, m = s \o SubSeq(u, k, Len(u))
    PROVE  RestIsAdded(s, u, k, m)
<1>. DEFINE a == Len(s)
            n == Len(u)
            d == n - k + 1
            w == SubSeq(u, k, n)
<1>1. /\ s \in Seq(Ranges) /\ u \in Seq(Ranges) /\ a \in Nat /\ n \in Nat /\ d \in Nat
      /\ k \in Nat /\ k <= n + 1
  BY ValidParts
<1>2. w \in Seq(Ranges) /\ Len(w) = d /\ \A j \in 1 .. d : w[j] = u[j + k - 1]
  <2>1. \A j \in k .. n : u[j] \in Ranges
    BY <1>1
  <2>2. /\ w \in Seq(Ranges) /\ Len(w) = IF k <= n THEN n - k + 1 ELSE 0
        /\ \A j \in 1 .. n - k + 1 : w[j] = u[k + j - 1]
    <3>1. k \in Int /\ n \in Int
      BY <1>1
    <3>. HIDE DEF n
    <3>. QED BY <2>1, <3>1, SubSeqProperties
  <2>3. (IF k <= n THEN n - k + 1 ELSE 0) = d /\ \A j \in 1 .. d : k + j - 1 = j + k - 1
    BY <1>1
  <2>. HIDE DEF w, n
  <2>. QED BY <2>2, <2>3
<1>3. m = s \o w
  OBVIOUS
<1>. HIDE DEF w
<1>4. /\ m \in Seq(Ranges) /\ Len(m) = a + d
      /\ \A j \in 1 .. a + d : m[j] = IF j <= a THEN s[j] ELSE u[j - a + k - 1]
  <2>1. /\ m \in Seq(Ranges) /\ Len(m) = a + Len(w)
        /\ \A j \in 1 .. a + Len(w) : m[j] = IF j <= a THEN s[j] ELSE w[j - a]
    <3>1. s \in Seq(Ranges) /\ w \in Seq(Ranges)
      BY <1>1, <1>2
    <3>. QED BY <1>3, <3>1, ConcatProperties
  <2>2. ASSUME NEW j \in 1 .. a + d, ~(j <= a) PROVE w[j - a] = u[j - a + k - 1]
    <3>1. j - a \in 1 .. d
      BY <1>1, <2>2
    <3>. QED BY <1>2, <3>1
  <2>. QED BY <1>2, <2>1, <2>2
<1>5. \A j \in 1 .. Len(m) : m[j].count > 0
  <2>. SUFFICES ASSUME NEW j \in 1 .. a + d PROVE m[j].count > 0
    BY <1>4
  <2>1. CASE j <= a
    <3>1. j \in 1 .. Len(s) /\ m[j] = s[j]
      BY <1>1, <1>4, <2>1
    <3>. QED BY <3>1, ValidParts
  <2>2. CASE ~(j <= a)
    <3>. DEFINE i == j - a + k - 1
    <3>1. i \in 1 .. Len(u) /\ m[j] = u[i]
      BY <1>1, <1>4, <2>2
    <3>. HIDE DEF i
    <3>. QED BY <3>1, ValidParts
  <2>. QED BY <2>1, <2>2
<1>6. \A j \in 2 .. Len(m) : m[j - 1].index + m[j - 1].count < m[j].index
  <2>. SUFFICES ASSUME NEW j \in 2 .. a + d PROVE m[j - 1].index + m[j - 1].count < m[j].index
    BY <1>4
  <2>1. CASE j <= a
    <3>1. j \in 2 .. Len(s) /\ j \in 1 .. a + d /\ j - 1 \in 1 .. a + d /\ j - 1 <= a
      BY <1>1, <2>1
    <3>2. m[j] = s[j] /\ m[j - 1] = s[j - 1]
      BY <1>4, <2>1, <3>1
    <3>. QED BY <3>1, <3>2, ValidParts
  <2>2. CASE j = a + 1
    <3>1. /\ j - 1 = a /\ j \in 1 .. a + d /\ a \in 1 .. a + d /\ a <= a /\ a > 0 /\ k <= n
          /\ ~(j <= a) /\ j - a + k - 1 = k
      BY <1>1, <2>2
    <3>2. m[j] = u[k] /\ m[a] = s[a]
      BY <1>4, <3>1
    <3>3. s[a].index + s[a].count < u[k].index
      BY <3>1 DEF Last
    <3>. QED BY <3>1, <3>2, <3>3
  <2>3. CASE j > a + 1
    <3>. DEFINE i == j - a + k - 1
    <3>1. /\ i \in 2 .. Len(u) /\ j \in 1 .. a + d /\ j - 1 \in 1 .. a + d /\ ~(j <= a) /\ ~(j - 1 <= a)
          /\ j - 1 - a + k - 1 = i - 1
      BY <1>1, <2>3
    <3>2. m[j] = u[i] /\ m[j - 1] = u[i - 1]
      BY <1>4, <3>1
    <3>. HIDE DEF i
    <3>. QED BY <3>1, <3>2, ValidParts
  <2>4. j <= a \/ j = a + 1 \/ j > a + 1
    <3>1. a \in Nat /\ d \in Int
      BY <1>1
    <3>. HIDE DEF a, d
    <3>. QED BY <3>1
  <2>. QED BY <2>1, <2>2, <2>3, <2>4
<1>7. m \in ItemSets
  BY <1>4, <1>5, <1>6, ValidIf
<1>8. ASSUME NEW x \in Nat
      PROVE  /\ x \in AsSet(m) \/ Upto(u, k - 1, x) <=> x \in AsSet(s) \/ Upto(u, n, x)
             /\ x \in AsSet(s) => x \in AsSet(m)
  <2>1. /\ x \in AsSet(m) <=> \E j \in 1 .. a + d : Holds(m, j, x)
        /\ x \in AsSet(s) <=> \E j \in 1 .. a : Holds(s, j, x)
    BY <1>1, <1>4, Members DEF Covers
  <2>2. ASSUME NEW j \in 1 .. a + d, Holds(m, j, x) PROVE x \in AsSet(s) \/ Upto(u, n, x)
    <3>1. CASE j <= a
      <4>1. j \in 1 .. a /\ m[j] = s[j]
        BY <1>1, <1>4, <3>1
      <4>2. Holds(s, j, x)
        BY <2>2, <4>1 DEF Holds
      <4>. QED BY <2>1, <4>1, <4>2
    <3>2. CASE ~(j <= a)
      <4>. DEFINE i == j - a + k - 1
      <4>1. i \in 1 .. n /\ m[j] = u[i]
        BY <1>1, <1>4, <3>2
      <4>. HIDE DEF i
      <4>2. Holds(u, i, x)
        BY <2>2, <4>1 DEF Holds
      <4>. QED BY <4>1, <4>2 DEF Upto
    <3>. QED BY <3>1, <3>2
  <2>3. ASSUME NEW j \in 1 .. a, Holds(s, j, x) PROVE x \in AsSet(m)
    <3>1. j \in 1 .. a + d /\ m[j] = s[j]
      BY <1>1, <1>4
    <3>2. Holds(m, j, x)
      BY <2>3, <3>1 DEF Holds
    <3>. QED BY <2>1, <3>1, <3>2
  <2>4. ASSUME NEW i \in 1 .. n, Holds(u, i, x) PROVE x \in AsSet(m) \/ Upto(u, k - 1, x)
    <3>1. CASE i <= k - 1
      <4>1. i \in 1 .. k - 1
        BY <1>1, <3>1
      <4>. QED BY <2>4, <4>1 DEF Upto
    <3>2. CASE ~(i <= k - 1)
      <4>. DEFINE j == i - k + 1 + a
      <4>1. j \in 1 .. a + d /\ ~(j <= a) /\ j - a + k - 1 = i
        <5>1. i >= k /\ i <= n /\ i \in Nat
          BY <1>1, <3>2
        <5>. HIDE DEF a, n
        <5>2. j >= a + 1 /\ j <= a + d /\ j \in Nat
          BY <1>1, <5>1
        <5>3. j - a + k - 1 = i
          BY <1>1, <5>1
        <5>. HIDE DEF j, d
        <5>. QED BY <1>1, <5>2, <5>3
      <4>. HIDE DEF j
      <4>2. m[j] = u[i]
        BY <1>4, <4>1
      <4>3. Holds(m, j, x)
        BY <2>4, <4>2 DEF Holds
      <4>. QED BY <2>1, <4>1, <4>3
    <3>. QED BY <3>1, <3>2
  <2>5. Upto(u, k - 1, x) => Upto(u, n, x)
    <3>1. \A j \in 1 .. k - 1 : j \in 1 .. n
      BY <1>1
    <3>. QED BY <3>1 DEF Upto
  <2>. QED BY <2>1, <2>2, <2>3, <2>4, <2>5 DEF Upto
<1>. QED BY <1>7, <1>8 DEF RestIsAdded

LEMMA MinOfTwo ==
    ASSUME NEW a \in Int, NEW b \in Int
    PROVE  Min({a, b}) = IF a <= b THEN a ELSE b
<1>. DEFINE m == IF a <= b THEN a ELSE b
            T == {a, b}
<1>1. m \in T /\ \A y \in T : m <= y
  OBVIOUS
<1>2. \A z \in T : (\A y \in T : z <= y) => z = m
  OBVIOUS
<1>. HIDE DEF m
<1>3. Min(T) = m
  <2>1. Min(T) \in T /\ \A y \in T : Min(T) <= y
    <3>. HIDE DEF T
    <3>. QED BY <1>1 DEF Min
  <2>. HIDE DEF T
  <2>. QED BY <1>2, <2>1
<1>. QED BY <1>3 DEF m

LEMMA UptoMore ==
    ASSUME NEW u, NEW i \in Int, NEW k \in Int, i <= k, NEW x, Upto(u, i - 1, x)
    PROVE  Upto(u, k - 1, x)
<1>1. \A j \in 1 .. i - 1 : j \in 1 .. k - 1
  OBVIOUS
<1>. QED BY <1>1 DEF Upto

LEMMA SumParts ==
    ASSUME NEW s \in ItemSets, NEW t \in ItemSets, NEW p, SumSoFar(s, t, p)
    PROVE  /\ p[3] \in ItemSets /\ p[1] \in 1 .. Len(s) + 1 /\ p[2] \in 1 .. Len(t) + 1
           /\ p[1] \in Int /\ p[2] \in Int /\ Len(s) \in Nat /\ Len(t) \in Nat
           /\ Len(p[3]) \in Nat /\ p[3] \in Seq(Ranges) /\ (p[3] # <<>> <=> Len(p[3]) > 0)
<1>1. p[3] \in ItemSets
  BY DEF SumSoFar
<1>2. p[3] \in Seq(Ranges)
  BY <1>1, ValidParts
<1>. QED BY <1>1, <1>2, ValidParts DEF SumSoFar

\* What a round leaves: the parts of SumSoFar for its result.
LEMMA SumIs ==
    ASSUME NEW s \in ItemSets, NEW t \in ItemSets, NEW k \in 1 .. Len(s) + 1,
           NEW l \in 1 .. Len(t) + 1, NEW m \in ItemSets,
           \A x \in Nat : x \in AsSet(m) <=> Upto(s, k - 1, x) \/ Upto(t, l - 1, x),
           k <= Len(s) => Last(m).index <= s[k].index,
           l <= Len(t) => Last(m).index <= t[l].index
    PROVE  SumSoFar(s, t, <<k, l, m>>)
<1>1. k \in Int /\ l \in Int
  BY ValidParts
<1>2. <<k, l, m>> \in Int \X Int \X ItemSets
  BY <1>1
<1>. QED BY <1>2 DEF SumSoFar

LEMMA SumGrown ==
    ASSUME NEW s \in ItemSets, NEW t \in ItemSets, NEW sum \in ItemSets,
           NEW i \in 1 .. Len(s) + 1, NEW j \in 1 .. Len(t) + 1, NEW r \in Ranges,
           Len(sum) > 0, r = Last(sum),
           i <= Len(s) => r.index <= s[i].index, j <= Len(t) => r.index <= t[j].index,
           Joins(s, i, r) \/ Joins(t, j, r),
           NEW both, both = Grown(s, i, r), NEW v, v = Grown(t, j, both),
           NEW k, k = After(s, i, r), NEW l, l = After(t, j, both),
           NEW m, m = Append(Front(sum), v),
           \A x \in Nat : x \in AsSet(sum) <=> Upto(s, i - 1, x) \/ Upto(t, j - 1, x)
    PROVE  SumSoFar(s, t, <<k, l, m>>) /\ i + j < k + l
<1>. DEFINE e == Len(sum)
<1>1. i \in Int /\ j \in Int /\ Len(s) \in Nat /\ Len(t) \in Nat /\ e \in 1 .. e /\ r = sum[e]
  BY ValidParts DEF Last
<1>2. /\ k \in 1 .. Len(s) + 1 /\ l \in 1 .. Len(t) + 1 /\ i + j < k + l /\ i <= k /\ j <= l
      /\ v \in Ranges /\ v.index = r.index /\ r.count <= v.count /\ v.count > 0
      /\ k <= Len(s) => r.index <= s[k].index
      /\ l <= Len(t) => r.index <= t[l].index
      /\ \A x \in Nat : In(v, x) \/ Upto(s, i - 1, x) \/ Upto(t, j - 1, x)
                           <=> In(r, x) \/ Upto(s, k - 1, x) \/ Upto(t, l - 1, x)
  <2>1. ReadRight(s, t, i, j, r, v, k, l)
    BY ReadBoth
  <2>. QED BY <2>1 DEF ReadRight
<1>3. /\ m \in ItemSets /\ Last(m) = v
      /\ \A x \in Nat : x \in AsSet(m) <=> x \in AsSet(sum) \/ In(v, x)
  BY <1>2, LastGrown
<1>4. ASSUME NEW x \in Nat PROVE x \in AsSet(m) <=> Upto(s, k - 1, x) \/ Upto(t, l - 1, x)
  <2>1. In(r, x) => x \in AsSet(sum)
    <3>1. In(r, x) => Holds(sum, e, x)
      BY <1>1 DEF In, Holds
    <3>2. Holds(sum, e, x) => Covers(sum, x)
      BY <1>1 DEF Covers
    <3>3. x \in AsSet(sum) <=> Covers(sum, x)
      <4>1. sum \in Seq(Ranges)
        BY ValidParts
      <4>. QED BY <4>1, Members
    <3>. QED BY <3>1, <3>2, <3>3
  <2>2. k \in Int /\ l \in Int
    BY <1>1, <1>2
  <2>3. (Upto(s, i - 1, x) => Upto(s, k - 1, x)) /\ (Upto(t, j - 1, x) => Upto(t, l - 1, x))
    BY <1>1, <1>2, <2>2, UptoMore
  <2>. QED BY <1>2, <1>3, <2>1, <2>3
<1>5. (k <= Len(s) => Last(m).index <= s[k].index) /\ (l <= Len(t) => Last(m).index <= t[l].index)
  BY <1>2, <1>3
<1>. QED BY <1>2, <1>3, <1>4, <1>5, SumIs

LEMMA RoundJoining ==
    ASSUME NEW s \in ItemSets, NEW t \in ItemSets, NEW p, SumSoFar(s, t, p), Joining(s, t, p),
           NEW q, q = Read(s, t, p, Front(p[3]), Last(p[3]))
    PROVE  SumSoFar(s, t, q) /\ p[1] + p[2] < q[1] + q[2]
<1>. DEFINE i == p[1]
            j == p[2]
            sum == p[3]
            r == Last(sum)
            both == Grown(s, i, r)
            v == Grown(t, j, both)
            k == After(s, i, r)
            l == After(t, j, both)
            m == Append(Front(sum), v)
<1>1. sum \in ItemSets /\ i \in 1 .. Len(s) + 1 /\ j \in 1 .. Len(t) + 1
  BY SumParts
<1>2. Len(sum) > 0 /\ (Joins(s, i, r) \/ Joins(t, j, r))
  BY SumParts DEF Joining
<1>3. (i <= Len(s) => r.index <= s[i].index) /\ (j <= Len(t) => r.index <= t[j].index)
  BY <1>2 DEF SumSoFar
<1>4. r \in Ranges
  <2>1. Len(sum) \in 1 .. Len(sum)
    BY <1>1, <1>2, ValidParts
  <2>. QED BY <1>1, <2>1, ValidParts DEF Last
<1>5. \A x \in Nat : x \in AsSet(sum) <=> Upto(s, i - 1, x) \/ Upto(t, j - 1, x)
  BY DEF SumSoFar
<1>6. q = <<k, l, m>>
  BY DEF Read
<1>7. r = Last(sum) /\ both = Grown(s, i, r) /\ v = Grown(t, j, both) /\ k = After(s, i, r)
      /\ l = After(t, j, both) /\ m = Append(Front(sum), v)
  OBVIOUS
<1>. HIDE DEF i, j, sum, r, both, v, k, l, m
<1>8. SumSoFar(s, t, <<k, l, m>>) /\ i + j < k + l
  BY <1>1, <1>2, <1>3, <1>4, <1>5, <1>7, SumGrown
<1>. QED BY <1>6, <1>8 DEF i, j

LEMMA RoundNew ==
    ASSUME NEW s \in ItemSets, NEW t \in ItemSets, NEW p, SumSoFar(s, t, p), ~Joining(s, t, p),
           ~AtAnEnd(s, t, p), NEW q,
           q = Read(s, t, p, p[3], KItemRange(Min({s[p[1]].index, t[p[2]].index}), 0))
    PROVE  SumSoFar(s, t, q) /\ p[1] + p[2] < q[1] + q[2]
<1>. DEFINE i == p[1]
            j == p[2]
            sum == p[3]
            a == s[i].index
            b == t[j].index
            c == Min({a, b})
            r == KItemRange(c, 0)
            both == Grown(s, i, r)
            v == Grown(t, j, both)
            k == After(s, i, r)
            l == After(t, j, both)
            m == Append(sum, v)
            e == Len(sum)
<1>1. /\ sum \in ItemSets /\ i \in 1 .. Len(s) + 1 /\ j \in 1 .. Len(t) + 1 /\ i \in Int /\ j \in Int
      /\ Len(s) \in Nat /\ Len(t) \in Nat /\ e \in Nat /\ sum \in Seq(Ranges) /\ (sum # <<>> <=> e > 0)
  BY SumParts
<1>2. \A x \in Nat : x \in AsSet(sum) <=> Upto(s, i - 1, x) \/ Upto(t, j - 1, x)
  BY DEF SumSoFar
<1>3. i \in 1 .. Len(s) /\ j \in 1 .. Len(t) /\ i <= Len(s) /\ j <= Len(t)
  BY <1>1 DEF AtAnEnd
<1>4. a \in Nat /\ b \in Nat
  BY <1>1, <1>3, ValidParts
<1>5. c \in Nat /\ c <= a /\ c <= b /\ (c = a \/ c = b)
  <2>. HIDE DEF a, b
  <2>1. c = IF a <= b THEN a ELSE b
    BY <1>4, MinOfTwo
  <2>. HIDE DEF c
  <2>. QED BY <1>4, <2>1
<1>6. e > 0 => Last(sum).index + Last(sum).count < a /\ Last(sum).index + Last(sum).count < b
  <2>. SUFFICES ASSUME e > 0
                PROVE  Last(sum).index + Last(sum).count < a /\ Last(sum).index + Last(sum).count < b
    OBVIOUS
  <2>1. ~Joins(s, i, Last(sum)) /\ ~Joins(t, j, Last(sum))
    BY <1>1 DEF Joining
  <2>. DEFINE d == Last(sum).index + Last(sum).count
  <2>2. d \in Nat
    <3>1. e \in 1 .. Len(sum) /\ Last(sum) = sum[e]
      BY <1>1 DEF Last
    <3>2. sum[e].index \in Nat /\ sum[e].count \in Nat
      <4>. HIDE DEF sum, e
      <4>. QED BY <1>1, <3>1, ValidParts
    <3>. QED BY <3>1, <3>2
  <2>3. ~(a <= d) /\ ~(b <= d)
    BY <1>3, <2>1 DEF Joins, Behind
  <2>. HIDE DEF a, b, d
  <2>4. d < a /\ d < b
    BY <1>4, <2>2, <2>3
  <2>. QED BY <2>4 DEF d
<1>7. q = <<k, l, m>>
  BY DEF Read
<1>8. r \in Ranges /\ r.index = c /\ r.count = 0 /\ Behind(r) = c + 0
  <2>1. 0 \in Nat
    OBVIOUS
  <2>. HIDE DEF c
  <2>. QED BY <1>5, <2>1, NewRange
<1>. HIDE DEF r
<1>9. /\ i <= Len(s) => r.index <= s[i].index
      /\ j <= Len(t) => r.index <= t[j].index
      /\ Joins(s, i, r) \/ Joins(t, j, r)
  <2>1. (Joins(s, i, r) <=> a <= c + 0) /\ (Joins(t, j, r) <=> b <= c + 0)
    BY <1>3, <1>8 DEF Joins
  <2>2. a <= c + 0 \/ b <= c + 0
    <3>. HIDE DEF a, b, c
    <3>. QED BY <1>4, <1>5
  <2>. QED BY <1>5, <1>8, <2>1, <2>2
<1>. HIDE DEF i, j, sum, both, v, k, l, m
<1>10. /\ k \in 1 .. Len(s) + 1 /\ l \in 1 .. Len(t) + 1 /\ i + j < k + l /\ i <= k /\ j <= l
       /\ v \in Ranges /\ v.index = r.index /\ r.count <= v.count /\ v.count > 0
       /\ k <= Len(s) => r.index <= s[k].index
       /\ l <= Len(t) => r.index <= t[l].index
       /\ \A x \in Nat : In(v, x) \/ Upto(s, i - 1, x) \/ Upto(t, j - 1, x)
                            <=> In(r, x) \/ Upto(s, k - 1, x) \/ Upto(t, l - 1, x)
  <2>1. r \in Ranges
    BY <1>8
  <2>2. ReadRight(s, t, i, j, r, v, k, l)
    BY <1>1, <1>9, <2>1, ReadBoth DEF both, v, k, l
  <2>. QED BY <2>2 DEF ReadRight
<1>11. /\ m \in ItemSets /\ Last(m) = v
       /\ \A x \in Nat : x \in AsSet(m) <=> x \in AsSet(sum) \/ In(v, x)
  <2>1. Len(sum) > 0 => Last(sum).index + Last(sum).count < v.index
    <3>1. v.index = c
      BY <1>8, <1>10
    <3>. QED BY <1>5, <1>6, <3>1
  <2>2. m = Append(sum, v)
    BY DEF m
  <2>. QED BY <1>1, <1>10, <2>1, <2>2, NewLast
<1>12. ASSUME NEW x \in Nat PROVE x \in AsSet(m) <=> Upto(s, k - 1, x) \/ Upto(t, l - 1, x)
  <2>1. ~In(r, x)
    <3>. HIDE DEF c
    <3>. QED BY <1>5, <1>8 DEF In
  <2>. QED BY <1>2, <1>10, <1>11, <2>1
<1>13. SumSoFar(s, t, <<k, l, m>>)
  BY <1>10, <1>11, <1>12, SumIs
<1>. QED BY <1>7, <1>10, <1>13 DEF i, j


\* What is left behind the end of a list is nothing.
LEMMA NothingLeft ==
    ASSUME NEW sum \in ItemSets, NEW u \in ItemSets
    PROVE  sum \o SubSeq(u, Len(u) + 1, Len(u)) = sum
<1>. DEFINE n == Len(u)
            w == SubSeq(u, n + 1, n)
<1>1. u \in Seq(Ranges) /\ sum \in Seq(Ranges) /\ n \in Nat /\ n + 1 \in Int
  BY ValidParts
<1>2. w = <<>>
  <2>. HIDE DEF n
  <2>1. n + 1 > n
    BY <1>1
  <2>2. SubSeq(u, n + 1, n) \in Seq(Ranges) /\ Len(SubSeq(u, n + 1, n)) = 0
    BY <1>1, <2>1
  <2>. HIDE DEF w
  <2>. QED BY <2>2 DEF w
<1>. HIDE DEF w
<1>. QED BY <1>1, <1>2

\* All of s and all of t.
BothAre(s, t, m) == /\ m \in ItemSets
                    /\ \A x \in Nat : x \in AsSet(m) <=> Upto(s, Len(s), x) \/ Upto(t, Len(t), x)

\* The last round: one list is at its end, and the rest of the other is added.
LEMMA RestOfTheOther ==
    ASSUME NEW s \in ItemSets, NEW t \in ItemSets, NEW sum \in ItemSets,
           NEW j \in 1 .. Len(t) + 1,
           Len(sum) > 0 => ~Joins(t, j, Last(sum)),
           \A x \in Nat : x \in AsSet(sum) <=> Upto(s, Len(s), x) \/ Upto(t, j - 1, x),
           NEW m, m = sum \o SubSeq(t, j, Len(t))
    PROVE  BothAre(s, t, m)
<1>1. Len(sum) > 0 /\ j <= Len(t) => Last(sum).index + Last(sum).count < t[j].index
  <2>. SUFFICES ASSUME Len(sum) > 0, j <= Len(t)
                PROVE  Last(sum).index + Last(sum).count < t[j].index
    OBVIOUS
  <2>. DEFINE d == Last(sum).index + Last(sum).count
              b == t[j].index
  <2>1. Len(sum) \in 1 .. Len(sum) /\ j \in 1 .. Len(t) /\ Last(sum) = sum[Len(sum)]
    BY ValidParts DEF Last
  <2>2. d \in Nat /\ b \in Nat
    <3>1. sum[Len(sum)].index \in Nat /\ sum[Len(sum)].count \in Nat /\ t[j].index \in Nat
      BY <2>1, ValidParts
    <3>. QED BY <2>1, <3>1
  <2>3. ~(b <= d)
    BY <2>1 DEF Joins, Behind
  <2>. HIDE DEF b, d
  <2>4. d < b
    BY <2>2, <2>3
  <2>. QED BY <2>4 DEF b, d
<1>2. /\ m \in ItemSets
      /\ \A x \in Nat : /\ x \in AsSet(m) \/ Upto(t, j - 1, x) <=> x \in AsSet(sum) \/ Upto(t, Len(t), x)
                        /\ x \in AsSet(sum) => x \in AsSet(m)
  <2>1. RestIsAdded(sum, t, j, m)
    BY <1>1, RestAdded
  <2>. QED BY <2>1 DEF RestIsAdded
<1>3. ASSUME NEW x \in Nat PROVE Upto(t, j - 1, x) => Upto(t, Len(t), x)
  <2>1. \A k \in 1 .. j - 1 : k \in 1 .. Len(t)
    BY ValidParts
  <2>. QED BY <2>1 DEF Upto
<1>. QED BY <1>2, <1>3 DEF BothAre

LEMMA RoundEnded ==
    ASSUME NEW s \in ItemSets, NEW t \in ItemSets, NEW p, SumSoFar(s, t, p), ~Joining(s, t, p),
           AtAnEnd(s, t, p), NEW q,
           q = <<Len(s) + 1, Len(t) + 1,
                 p[3] \o SubSeq(s, p[1], Len(s)) \o SubSeq(t, p[2], Len(t))>>
    PROVE  SumSoFar(s, t, q) /\ q[1] = Len(s) + 1 /\ q[2] = Len(t) + 1
<1>. DEFINE i == p[1]
            j == p[2]
            sum == p[3]
            a == Len(s)
            b == Len(t)
            m == sum \o SubSeq(s, i, a) \o SubSeq(t, j, b)
<1>1. /\ sum \in ItemSets /\ i \in 1 .. a + 1 /\ j \in 1 .. b + 1 /\ i \in Int /\ j \in Int
      /\ a \in Nat /\ b \in Nat /\ (sum # <<>> <=> Len(sum) > 0)
  BY SumParts
<1>2. \A x \in Nat : x \in AsSet(sum) <=> Upto(s, i - 1, x) \/ Upto(t, j - 1, x)
  BY DEF SumSoFar
<1>3. Len(sum) > 0 => ~Joins(s, i, Last(sum)) /\ ~Joins(t, j, Last(sum))
  BY <1>1 DEF Joining
<1>4. i = a + 1 \/ j = b + 1
  <2>1. i > a \/ j > b
    BY DEF AtAnEnd
  <2>. HIDE DEF i, j, a, b
  <2>. QED BY <1>1, <2>1
<1>5. q = <<a + 1, b + 1, m>>
  OBVIOUS
<1>. HIDE DEF i, j, sum
<1>6. /\ m \in ItemSets
      /\ \A x \in Nat : x \in AsSet(m) <=> Upto(s, a, x) \/ Upto(t, b, x)
  <2>1. CASE i = a + 1
    <3>1. m = sum \o SubSeq(t, j, b)
      BY <1>1, <2>1, NothingLeft
    <3>2. i - 1 = a
      BY <1>1, <2>1
    <3>3. \A x \in Nat : x \in AsSet(sum) <=> Upto(s, a, x) \/ Upto(t, j - 1, x)
      BY <1>2, <3>2
    <3>. HIDE DEF m
    <3>4. BothAre(s, t, m)
      BY <1>1, <1>3, <3>1, <3>3, RestOfTheOther
    <3>. QED BY <3>4 DEF BothAre
  <2>2. CASE j = b + 1
    <3>. DEFINE h == sum \o SubSeq(s, i, a)
    <3>1. j - 1 = b
      BY <1>1, <2>2
    <3>2. \A x \in Nat : x \in AsSet(sum) <=> Upto(t, b, x) \/ Upto(s, i - 1, x)
      BY <1>2, <3>1
    <3>3. h = sum \o SubSeq(s, i, a)
      OBVIOUS
    <3>4. m = h \o SubSeq(t, b + 1, b)
      BY <2>2
    <3>. HIDE DEF m, h
    <3>5. h \in ItemSets /\ \A x \in Nat : x \in AsSet(h) <=> Upto(t, b, x) \/ Upto(s, a, x)
      <4>1. BothAre(t, s, h)
        BY <1>1, <1>3, <3>2, <3>3, RestOfTheOther
      <4>. QED BY <4>1 DEF BothAre
    <3>6. m = h
      BY <3>4, <3>5, NothingLeft
    <3>. QED BY <3>5, <3>6
  <2>. QED BY <1>4, <2>1, <2>2
<1>7. SumSoFar(s, t, <<a + 1, b + 1, m>>)
  <2>1. /\ a + 1 \in 1 .. a + 1 /\ b + 1 \in 1 .. b + 1 /\ a + 1 - 1 = a /\ b + 1 - 1 = b
        /\ ~(a + 1 <= a) /\ ~(b + 1 <= b)
    BY <1>1
  <2>. DEFINE c == a + 1
              d == b + 1
  <2>2. /\ c \in 1 .. a + 1 /\ d \in 1 .. b + 1 /\ c - 1 = a /\ d - 1 = b
        /\ ~(c <= a) /\ ~(d <= b)
    BY <2>1
  <2>3. SumSoFar(s, t, <<c, d, m>>)
    <3>. HIDE DEF c, d, m
    <3>1. \A x \in Nat : x \in AsSet(m) <=> Upto(s, c - 1, x) \/ Upto(t, d - 1, x)
      BY <1>6, <2>2
    <3>. QED BY <1>6, <2>2, <3>1, SumIs
  <2>. QED BY <2>3
<1>8. q[1] = a + 1 /\ q[2] = b + 1
  <2>. DEFINE c == a + 1
              d == b + 1
  <2>1. q = <<c, d, m>>
    BY <1>5
  <2>. HIDE DEF c, d, m
  <2>2. q[1] = c /\ q[2] = d
    BY <2>1
  <2>. QED BY <2>2 DEF c, d
<1>. HIDE DEF m
<1>9. SumSoFar(s, t, q)
  BY <1>5, <1>7
<1>. QED BY <1>8, <1>9

\* A round keeps the sum right, and it reads a range or all that is left.
LEMMA RoundStep ==
    ASSUME NEW s \in ItemSets, NEW t \in ItemSets, NEW p, SumSoFar(s, t, p),
           NEW q, q = Round(s, t, p)
    PROVE  /\ SumSoFar(s, t, q)
           /\ \/ p[1] + p[2] < q[1] + q[2]
              \/ q[1] = Len(s) + 1 /\ q[2] = Len(t) + 1
<1>1. CASE Joining(s, t, p)
  <2>1. q = Read(s, t, p, Front(p[3]), Last(p[3]))
    BY <1>1 DEF Round
  <2>. QED BY <1>1, <2>1, RoundJoining
<1>2. CASE ~Joining(s, t, p) /\ AtAnEnd(s, t, p)
  <2>1. q = <<Len(s) + 1, Len(t) + 1,
              p[3] \o SubSeq(s, p[1], Len(s)) \o SubSeq(t, p[2], Len(t))>>
    BY <1>2 DEF Round
  <2>2. SumSoFar(s, t, q)
    BY <1>2, <2>1, RoundEnded
  <2>3. q[1] = Len(s) + 1 /\ q[2] = Len(t) + 1
    BY <1>2, <2>1, RoundEnded
  <2>. QED BY <2>2, <2>3
<1>3. CASE ~Joining(s, t, p) /\ ~AtAnEnd(s, t, p)
  <2>1. q = Read(s, t, p, p[3], KItemRange(Min({s[p[1]].index, t[p[2]].index}), 0))
    BY <1>3 DEF Round
  <2>. QED BY <1>3, <2>1, RoundNew
<1>. QED BY <1>1, <1>2, <1>3


\* operator+() returns the union.
THEOREM PlusCorrect ==
    ASSUME NEW s \in ItemSets, NEW t \in ItemSets
    PROVE  /\ Plus(s, t) \in ItemSets
           /\ AsSet(Plus(s, t)) = AsSet(s) \cup AsSet(t)
<1>. DEFINE a == Len(s)
            b == Len(t)
            N == a + b
            X == {p \in Int \X Int \X ItemSets : SumSoFar(s, t, p)}
            start == <<1, 1, <<>>>>
            step == [n \in 1 .. N |-> [p \in X |-> Round(s, t, p)]]
            IsUpto(f) == f = [n \in 0 .. N |-> IF n = 0 THEN <<1, 1, <<>>>> ELSE Round(s, t, f[n - 1])]
            round == CHOOSE f : IsUpto(f)
<1>1. a \in Nat /\ b \in Nat /\ N \in Nat
  BY ValidParts
<1>2. SumSoFar(s, t, start)
  <2>1. 1 \in 1 .. a + 1 /\ 1 \in 1 .. b + 1 /\ <<>> \in ItemSets /\ AsSet(<<>>) = {}
        /\ Len(<<>>) = 0 /\ start \in Int \X Int \X ItemSets
    BY <1>1, EmptySet
  <2>2. \A x \in Nat : ~Upto(s, 1 - 1, x) /\ ~Upto(t, 1 - 1, x)
    BY DEF Upto
  <2>. QED BY <2>1, <2>2 DEF SumSoFar
<1>3. start \in X
  <2>1. start \in Int \X Int \X ItemSets
    BY <1>2 DEF SumSoFar
  <2>. QED BY <1>2, <2>1
<1>4. \A p \in X : Round(s, t, p) \in X
  <2>. SUFFICES ASSUME NEW p \in X PROVE Round(s, t, p) \in X
    OBVIOUS
  <2>. DEFINE q == Round(s, t, p)
  <2>1. SumSoFar(s, t, p)
    OBVIOUS
  <2>2. q = Round(s, t, p)
    OBVIOUS
  <2>. HIDE DEF q
  <2>3. SumSoFar(s, t, q)
    BY <2>1, <2>2, RoundStep
  <2>4. q \in Int \X Int \X ItemSets
    BY <2>3 DEF SumSoFar
  <2>. QED BY <2>2, <2>3, <2>4
<1>5. PICK g : IsUpto(g) /\ g \in [0 .. N -> X]
  <2>1. step \in [1 .. N -> [X -> X]]
    BY <1>4
  <2>2. PICK f : IsIteration(f, N, X, start, step)
    <3>. HIDE DEF step, N, X, start
    <3>. QED BY <1>1, <1>3, <2>1, Iterated
  <2>3. f \in [0 .. N -> X]
    <3>. HIDE DEF step, N, X, start
    <3>. QED BY <2>2 DEF IsIteration
  <2>4. ASSUME NEW n \in 0 .. N PROVE f[n] = IF n = 0 THEN start ELSE Round(s, t, f[n - 1])
    <3>1. n # 0 => n \in 1 .. N /\ f[n - 1] \in X
      <4>. HIDE DEF X
      <4>. QED BY <1>1, <2>3
    <3>2. f[n] = IF n = 0 THEN start ELSE step[n][f[n - 1]]
      <4>. HIDE DEF step, N, start
      <4>. QED BY <2>2 DEF IsIteration
    <3>. HIDE DEF X, start, N
    <3>. QED BY <3>1, <3>2
  <2>5. IsUpto(f)
    <3>. HIDE DEF X, N
    <3>. QED BY <2>3, <2>4
  <2>. QED BY <2>3, <2>5
<1>6. IsUpto(round)
  <2>. HIDE DEF IsUpto
  <2>. QED BY <1>5
<1>7. Plus(s, t) = round[N][3]
  BY DEF Plus, Round, Joining, AtAnEnd, Read, Joins, After, Grown
<1>. HIDE DEF round
<1>8. round[0] = start /\ \A n \in 1 .. N : round[n] = Round(s, t, round[n - 1])
  <2>1. \A n \in 0 .. N : round[n] = IF n = 0 THEN start ELSE Round(s, t, round[n - 1])
    BY <1>6
  <2>2. 0 \in 0 .. N /\ \A n \in 1 .. N : n \in 0 .. N /\ n # 0
    BY <1>1
  <2>. HIDE DEF N, start
  <2>. QED BY <2>1, <2>2
<1>. DEFINE Ended(q) == q[1] = a + 1 /\ q[2] = b + 1
            Right(n) == /\ SumSoFar(s, t, round[n])
                        /\ round[n][1] + round[n][2] >= n + 2 \/ Ended(round[n])
            D == {n \in 0 .. N : Right(n)}
<1>9. 0 \in D
  BY <1>1, <1>2, <1>8
<1>10. ASSUME NEW n \in 1 .. N, n - 1 \in D PROVE n \in D
  <2>. DEFINE p == round[n - 1]
              q == round[n]
              k == p[1]
              l == p[2]
              i == q[1]
              j == q[2]
  <2>1. SumSoFar(s, t, p) /\ (k + l >= (n - 1) + 2 \/ (k = a + 1 /\ l = b + 1))
    BY <1>10
  <2>2. q = Round(s, t, p)
    BY <1>8
  <2>3. SumSoFar(s, t, q) /\ (k + l < i + j \/ (i = a + 1 /\ j = b + 1))
    <3>. HIDE DEF p, q
    <3>. QED BY <2>1, <2>2, RoundStep
  <2>4. i \in 1 .. a + 1 /\ j \in 1 .. b + 1 /\ k \in Int /\ l \in Int
    <3>. HIDE DEF p, q
    <3>. QED BY <2>1, <2>3, SumParts
  <2>5. i + j >= n + 2 \/ (i = a + 1 /\ j = b + 1)
    <3>. HIDE DEF i, j, k, l, a, b
    <3>1. n \in Int
      OBVIOUS
    <3>2. CASE k + l < i + j /\ k + l >= (n - 1) + 2
      <4>1. i \in Int /\ j \in Int
        BY <1>1, <2>4
      <4>. QED BY <2>4, <3>1, <3>2, <4>1
    <3>3. CASE k + l < i + j /\ k = a + 1 /\ l = b + 1
      BY <1>1, <2>4, <3>3
    <3>. QED BY <2>1, <2>3, <3>2, <3>3
  <2>6. n \in 0 .. N
    BY <1>1
  <2>. HIDE DEF N
  <2>. QED BY <2>3, <2>5, <2>6
<1>11. D = 0 .. N
  <2>1. D \in SUBSET (0 .. N)
    OBVIOUS
  <2>. HIDE DEF D, N
  <2>. QED BY <1>1, <1>9, <1>10, <2>1, Climb
<1>12. Right(N)
  <2>1. N \in 0 .. N
    BY <1>1
  <2>. HIDE DEF N, Right
  <2>. QED BY <1>11, <2>1
<1>. DEFINE q == round[N]
            i == q[1]
            j == q[2]
<1>13. SumSoFar(s, t, q) /\ (i + j >= N + 2 \/ (i = a + 1 /\ j = b + 1))
  BY <1>12
<1>14. i \in 1 .. a + 1 /\ j \in 1 .. b + 1
  <2>. HIDE DEF q
  <2>. QED BY <1>13, SumParts
<1>15. i - 1 = a /\ j - 1 = b
  <2>. HIDE DEF i, j, a, b
  <2>. QED BY <1>1, <1>13, <1>14
<1>16. q[3] \in ItemSets /\ \A x \in Nat : x \in AsSet(q[3]) <=> Upto(s, a, x) \/ Upto(t, b, x)
  <2>. HIDE DEF q
  <2>. QED BY <1>13, <1>15 DEF SumSoFar
<1>17. /\ AsSet(s) = {x \in Nat : Upto(s, a, x)} /\ AsSet(t) = {x \in Nat : Upto(t, b, x)}
       /\ AsSet(q[3]) \in SUBSET Nat
  <2>1. s \in Seq(Ranges) /\ t \in Seq(Ranges) /\ q[3] \in Seq(Ranges)
    <3>. HIDE DEF q
    <3>. QED BY <1>16, ValidParts
  <2>. HIDE DEF q
  <2>. QED BY <2>1, Members DEF Covers, Upto
<1>. HIDE DEF q, a, b
<1>18. AsSet(q[3]) = AsSet(s) \cup AsSet(t)
  BY <1>16, <1>17
<1>19. Plus(s, t) = q[3]
  BY <1>7 DEF q
<1>. QED BY <1>16, <1>18, <1>19

==================================================================================
