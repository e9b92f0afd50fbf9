------------------------------ MODULE FocusProofs ------------------------------
(****************************************************************************)
(* What kwin's focus chains promise, for any number of windows, of          *)
(* applications and of desktops.                                            *)
(****************************************************************************)
EXTENDS FocusChain, SequenceTheorems, FiniteSetTheorems, TLAPS

\* What stands for induction: a set of naturals has a least element.
LEMMA Least ==
    ASSUME NEW D \in SUBSET Nat, D # {}
    PROVE  \E i \in D : \A j \in D : i <= j
<1>. DEFINE Less == {p \in Nat \X Nat : p[1] < p[2]}
<1>1. IsWellFoundedOn(Less, Nat)
  BY NatLessThanWellFounded DEF OpToRel
<1>2. PICK i \in D : \A j \in D : <<j, i>> \notin Less
  BY <1>1, WFMin
<1>. SUFFICES ASSUME NEW j \in D PROVE i <= j
  OBVIOUS
<1>3. i \in Nat /\ j \in Nat
  OBVIOUS
<1>4. j < i => <<j, i>> \in Less
  BY <1>3
<1>. QED BY <1>2, <1>3, <1>4

\* A set that has 0 and with each number the next one has all of them.
LEMMA Climb ==
    ASSUME NEW n \in Nat, NEW D \in SUBSET (0 .. n), 0 \in D,
           \A i \in 1 .. n : i - 1 \in D => i \in D
    PROVE  D = 0 .. n
<1>. DEFINE Missing == (0 .. n) \ D
<1>. SUFFICES ASSUME Missing # {} PROVE FALSE
  OBVIOUS
<1>1. Missing \in SUBSET Nat
  OBVIOUS
<1>2. PICK i \in Missing : \A j \in Missing : i <= j
  <2>. HIDE DEF Missing
  <2>. QED BY <1>1, Least
<1>3. i \in 1 .. n /\ i - 1 \notin Missing /\ i - 1 \in 0 .. n
  <2>1. i \in 0 .. n /\ i # 0
    BY <1>2
  <2>2. i - 1 \in 0 .. n /\ ~(i <= i - 1) /\ i \in 1 .. n
    BY <2>1
  <2>. HIDE DEF Missing
  <2>. QED BY <1>2, <2>2
<1>. QED BY <1>2, <1>3

IsIteration(f, n, X, start, step) ==
    /\ f \in [0 .. n -> X]
    /\ f = [i \in 0 .. n |-> IF i = 0 THEN start ELSE step[i][f[i - 1]]]

\* What is computed step by step is computed: a function of the steps exists.
LEMMA Iterated ==
    ASSUME NEW n \in Nat, NEW X, NEW start \in X, NEW step \in [1 .. n -> [X -> X]]
    PROVE  \E f : IsIteration(f, n, X, start, step)
<1>. DEFINE Upto(k, f) == /\ f \in [0 .. k -> X] /\ f[0] = start
                          /\ \A i \in 1 .. k : f[i] = step[i][f[i - 1]]
            D == {k \in 0 .. n : \E f : Upto(k, f)}
<1>1. 0 \in D
  <2>1. Upto(0, [i \in 0 .. 0 |-> start])
    OBVIOUS
  <2>2. 0 \in 0 .. n
    OBVIOUS
  <2>. HIDE DEF Upto
  <2>. QED BY <2>1, <2>2
<1>2. ASSUME NEW i \in 1 .. n, i - 1 \in D PROVE i \in D
  <2>1. PICK f : Upto(i - 1, f)
    BY <1>2
  <2>. DEFINE g == [j \in 0 .. i |-> IF j = i THEN step[i][f[i - 1]] ELSE f[j]]
  <2>2. step[i][f[i - 1]] \in X
    <3>1. f[i - 1] \in X
      BY <2>1
    <3>2. step[i] \in [X -> X]
      OBVIOUS
    <3>. QED BY <3>1, <3>2
  <2>3. g \in [0 .. i -> X] /\ g[0] = start
    BY <2>1, <2>2
  <2>4. \A j \in 1 .. i : g[j] = step[j][g[j - 1]]
    BY <2>1
  <2>5. Upto(i, g)
    BY <2>3, <2>4
  <2>6. i \in 0 .. n
    OBVIOUS
  <2>. HIDE DEF Upto, g
  <2>. QED BY <2>5, <2>6
<1>3. D = 0 .. n
  <2>1. D \in SUBSET (0 .. n)
    OBVIOUS
  <2>. HIDE DEF D
  <2>. QED BY <1>1, <1>2, <2>1, Climb
<1>4. PICK f : Upto(n, f)
  BY <1>3
<1>5. \A i \in 0 .. n : f[i] = IF i = 0 THEN start ELSE step[i][f[i - 1]]
  BY <1>4
<1>6. f = [i \in 0 .. n |-> f[i]]
  BY <1>4
<1>7. IsIteration(f, n, X, start, step)
  BY <1>4, <1>5, <1>6 DEF IsIteration
<1>. QED BY <1>7

--------------------------------------------------------------------------------
(* One chain                                                                *)

\* The chains of windows of S: none is named twice.
Orders(S) == {l \in Seq(S) : IsInjective(l)}

\* QList::removeAll, of a window with one place, p, in the list, or with none.
LEMMA RemovedAt ==
    ASSUME NEW S, NEW l \in Seq(S), NEW c, NEW p \in 1 .. Len(l) + 1,
           p <= Len(l) => l[p] = c,
           \A j \in 1 .. Len(l) : j # p => l[j] # c
    PROVE  /\ Removed(l, c) \in Seq(S)
           /\ Len(Removed(l, c)) = IF p <= Len(l) THEN Len(l) - 1 ELSE Len(l)
           /\ \A i \in 1 .. Len(Removed(l, c)) :
                 Removed(l, c)[i] = IF i < p THEN l[i] ELSE l[i + 1]
<1>. DEFINE n == Len(l)
            step == [i \in 1 .. n |-> [s \in Seq(S) |->
                        IF l[i] = c THEN s ELSE Append(s, l[i])]]
            IsKept(f) == f = [i \in 0 .. n |->
                            IF i = 0 THEN <<>>
                            ELSE IF l[i] = c THEN f[i - 1] ELSE Append(f[i - 1], l[i])]
            kept == CHOOSE f : IsKept(f)
<1>1. n \in Nat /\ \A i \in 1 .. n : l[i] \in S
  OBVIOUS
<1>2. IsKept(kept)
  <2>1. step \in [1 .. n -> [Seq(S) -> Seq(S)]]
    BY <1>1
  <2>2. PICK f \in [0 .. n -> Seq(S)] :
           f = [i \in 0 .. n |-> IF i = 0 THEN <<>> ELSE step[i][f[i - 1]]]
    <3>. DEFINE X == Seq(S)
                start == <<>>
    <3>1. start \in X
      OBVIOUS
    <3>2. step \in [1 .. n -> [X -> X]]
      BY <2>1
    <3>3. n \in Nat
      BY <1>1
    <3>. HIDE DEF step, n, X, start
    <3>4. \E f : IsIteration(f, n, X, start, step)
      BY <3>1, <3>2, <3>3, Iterated
    <3>. QED BY <3>4 DEF X, start, IsIteration
  <2>3. \A i \in 0 .. n : f[i] = IF i = 0 THEN <<>>
                            ELSE IF l[i] = c THEN f[i - 1] ELSE Append(f[i - 1], l[i])
    <3>. SUFFICES ASSUME NEW i \in 0 .. n, i # 0
                  PROVE  f[i] = IF l[i] = c THEN f[i - 1] ELSE Append(f[i - 1], l[i])
      BY <2>2
    <3>1. i \in 1 .. n /\ f[i - 1] \in Seq(S)
      OBVIOUS
    <3>2. f[i] = step[i][f[i - 1]]
      BY <2>2
    <3>. QED BY <3>1, <3>2
  <2>4. IsKept(f)
    BY <2>3
  <2>. QED BY <2>4
<1>3. Removed(l, c) = kept[n]
  BY DEF Removed
<1>. HIDE DEF kept
<1>4. /\ kept[0] = <<>>
      /\ \A i \in 1 .. n : kept[i] = IF l[i] = c THEN kept[i - 1] ELSE Append(kept[i - 1], l[i])
  <2>1. \A i \in 0 .. n : kept[i] = IF i = 0 THEN <<>>
                            ELSE IF l[i] = c THEN kept[i - 1] ELSE Append(kept[i - 1], l[i])
    BY <1>2
  <2>2. 0 \in 0 .. n /\ \A i \in 1 .. n : i \in 0 .. n /\ i # 0
    BY <1>1
  <2>. HIDE DEF n
  <2>. QED BY <2>1, <2>2
<1>. DEFINE Right(i) == /\ kept[i] \in Seq(S)
                        /\ Len(kept[i]) = IF i < p THEN i ELSE i - 1
                        /\ \A j \in 1 .. Len(kept[i]) :
                              kept[i][j] = IF j < p THEN l[j] ELSE l[j + 1]
            D == {i \in 0 .. n : Right(i)}
<1>5. 0 \in D
  <2>1. kept[0] \in Seq(S) /\ Len(kept[0]) = 0
    BY <1>4
  <2>. QED BY <1>1, <2>1
<1>6. ASSUME NEW i \in 1 .. n, i - 1 \in D PROVE i \in D
  <2>1. Right(i - 1) /\ l[i] \in S
    BY <1>1, <1>6
  <2>2. CASE i = p
    <3>1. kept[i] = kept[i - 1]
      BY <1>1, <1>4, <2>2
    <3>. QED BY <2>1, <2>2, <3>1
  <2>3. CASE i # p
    <3>1. kept[i] = Append(kept[i - 1], l[i])
      BY <1>1, <1>4, <2>3
    <3>2. /\ kept[i] \in Seq(S) /\ Len(kept[i]) = Len(kept[i - 1]) + 1
          /\ kept[i][Len(kept[i])] = l[i]
          /\ \A j \in 1 .. Len(kept[i - 1]) : kept[i][j] = kept[i - 1][j]
      BY <2>1, <3>1
    <3>. QED BY <2>1, <2>3, <3>2
  <2>. QED BY <2>2, <2>3
<1>7. D = 0 .. n
  <2>1. D \in SUBSET (0 .. n)
    OBVIOUS
  <2>. HIDE DEF D
  <2>. QED BY <1>1, <1>5, <1>6, <2>1, Climb
<1>8. Right(n)
  BY <1>1, <1>7
<1>. QED BY <1>1, <1>3, <1>8

\* The window is gone, and the others are there once, as before.
LEMMA RemovedOrder ==
    ASSUME NEW S, NEW l \in Orders(S), NEW c
    PROVE  Removed(l, c) \in Orders(S) /\ ToSet(Removed(l, c)) = ToSet(l) \ {c}
<1>1. l \in Seq(S) /\ \A i, j \in 1 .. Len(l) : l[i] = l[j] => i = j
  BY DEF Orders, IsInjective
<1>. DEFINE r == Removed(l, c)
<1>2. CASE c \in ToSet(l)
  <2>1. PICK p \in 1 .. Len(l) : l[p] = c
    BY <1>1, <1>2 DEF ToSet
  <2>2. /\ r \in Seq(S) /\ Len(r) = Len(l) - 1
        /\ \A i \in 1 .. Len(r) : r[i] = IF i < p THEN l[i] ELSE l[i + 1]
    <3>1. p \in 1 .. Len(l) + 1 /\ \A j \in 1 .. Len(l) : j # p => l[j] # c
      BY <1>1, <2>1
    <3>. QED BY <1>1, <2>1, <3>1, RemovedAt
  <2>. HIDE DEF r
  <2>3. \A i, j \in 1 .. Len(r) : r[i] = r[j] => i = j
    BY <1>1, <2>2
  <2>4. ASSUME NEW k \in ToSet(r) PROVE k \in ToSet(l) \ {c}
    <3>1. PICK i \in 1 .. Len(r) : k = r[i]
      BY <2>2 DEF ToSet
    <3>2. PICK j \in 1 .. Len(l) : k = l[j] /\ j # p
      BY <2>2, <3>1
    <3>. QED BY <1>1, <2>1, <3>2 DEF ToSet
  <2>5. ASSUME NEW k \in ToSet(l), k # c PROVE k \in ToSet(r)
    <3>1. PICK j \in 1 .. Len(l) : k = l[j]
      BY <1>1 DEF ToSet
    <3>2. \E i \in 1 .. Len(r) : k = r[i]
      <4>1. CASE j < p
        BY <2>2, <3>1, <4>1
      <4>2. CASE j > p
        <5>1. j - 1 \in 1 .. Len(r) /\ r[j - 1] = l[j]
          BY <1>1, <2>2, <4>2
        <5>. QED BY <3>1, <5>1
      <4>. QED BY <2>1, <2>5, <3>1, <4>1, <4>2
    <3>. QED BY <2>2, <3>2 DEF ToSet
  <2>6. ToSet(r) = ToSet(l) \ {c}
    BY <2>4, <2>5
  <2>7. r \in Orders(S)
    BY <2>2, <2>3 DEF Orders, IsInjective
  <2>. QED BY <2>6, <2>7 DEF r
<1>3. CASE c \notin ToSet(l)
  <2>1. \A j \in 1 .. Len(l) : l[j] # c
    BY <1>1, <1>3 DEF ToSet
  <2>2. /\ r \in Seq(S) /\ Len(r) = Len(l)
        /\ \A i \in 1 .. Len(r) : r[i] = l[i]
    <3>1. Len(l) + 1 \in 1 .. Len(l) + 1 /\ Len(l) \in Nat
      BY <1>1
    <3>. DEFINE p == Len(l) + 1
    <3>2. /\ p \in 1 .. Len(l) + 1 /\ ~(p <= Len(l))
          /\ \A j \in 1 .. Len(l) : j # p => l[j] # c
      BY <2>1, <3>1
    <3>. HIDE DEF p
    <3>3. /\ r \in Seq(S) /\ Len(r) = Len(l)
          /\ \A i \in 1 .. Len(r) : r[i] = IF i < p THEN l[i] ELSE l[i + 1]
      BY <1>1, <3>2, RemovedAt
    <3>. QED BY <3>1, <3>3 DEF p
  <2>3. r = l
    <3>. HIDE DEF r
    <3>. QED BY <1>1, <2>2, SeqEqual
  <2>. QED BY <1>3, <2>3
<1>. QED BY <1>2, <1>3

\* m is l with c put at place i.
IsInserted(m, l, i, c) ==
    /\ Len(m) = Len(l) + 1
    /\ \A j \in 1 .. Len(l) + 1 :
          m[j] = IF j < i THEN l[j] ELSE IF j = i THEN c ELSE l[j - 1]

LEMMA InsertedOrder ==
    ASSUME NEW S, NEW l \in Orders(S), NEW c \in S, c \notin ToSet(l),
           NEW m \in Seq(S), NEW i \in 1 .. Len(l) + 1, IsInserted(m, l, i, c)
    PROVE  m \in Orders(S) /\ ToSet(m) = ToSet(l) \cup {c}
<1>1. /\ l \in Seq(S) /\ Len(l) \in Nat
      /\ \A j, k \in 1 .. Len(l) : l[j] = l[k] => j = k
      /\ \A j \in 1 .. Len(l) : l[j] # c
  BY DEF Orders, IsInjective, ToSet
<1>2. /\ Len(m) = Len(l) + 1 /\ DOMAIN m = 1 .. Len(m)
      /\ \A j \in 1 .. Len(l) + 1 :
            m[j] = IF j < i THEN l[j] ELSE IF j = i THEN c ELSE l[j - 1]
  BY DEF IsInserted
<1>3. ASSUME NEW j \in 1 .. Len(m), NEW k \in 1 .. Len(m), m[j] = m[k] PROVE j = k
  <2>. DEFINE old(n) == IF n < i THEN n ELSE n - 1
  <2>1. \A n \in 1 .. Len(m) : n # i => old(n) \in 1 .. Len(l) /\ m[n] = l[old(n)]
    BY <1>1, <1>2
  <2>2. m[i] = c
    BY <1>1, <1>2
  <2>3. j # i /\ k # i => old(j) = old(k)
    <3>. HIDE DEF old
    <3>. QED BY <1>1, <1>3, <2>1
  <2>4. j = i <=> k = i
    <3>. HIDE DEF old
    <3>. QED BY <1>1, <1>3, <2>1, <2>2
  <2>. QED BY <1>1, <1>2, <2>3, <2>4
<1>4. ASSUME NEW k \in ToSet(m) PROVE k \in ToSet(l) \cup {c}
  <2>1. PICK j \in 1 .. Len(m) : k = m[j]
    BY <1>2 DEF ToSet
  <2>2. k = c \/ \E n \in 1 .. Len(l) : k = l[n]
    BY <1>1, <1>2, <2>1
  <2>. QED BY <1>1, <2>2 DEF ToSet
<1>5. ASSUME NEW k \in ToSet(l) PROVE k \in ToSet(m)
  <2>1. PICK j \in 1 .. Len(l) : k = l[j]
    BY <1>1 DEF ToSet
  <2>2. CASE j < i
    <3>1. j \in 1 .. Len(m) /\ m[j] = k
      BY <1>1, <1>2, <2>1, <2>2
    <3>. QED BY <1>2, <3>1 DEF ToSet
  <2>3. CASE ~(j < i)
    <3>1. j + 1 \in 1 .. Len(m) /\ m[j + 1] = k
      BY <1>1, <1>2, <2>1, <2>3
    <3>. QED BY <1>2, <3>1 DEF ToSet
  <2>. QED BY <2>2, <2>3
<1>6. c \in ToSet(m)
  <2>1. i \in 1 .. Len(m) /\ m[i] = c
    BY <1>1, <1>2
  <2>. QED BY <1>2, <2>1 DEF ToSet
<1>7. ToSet(m) = ToSet(l) \cup {c}
  BY <1>4, <1>5, <1>6
<1>8. m \in Orders(S)
  BY <1>2, <1>3 DEF Orders, IsInjective
<1>. QED BY <1>7, <1>8

\* The three ways to insert a window: anywhere, as the first, as the last one.
LEMMA InsertAtInserts ==
    ASSUME NEW S, NEW l \in Seq(S), NEW c \in S, NEW i \in 1 .. Len(l) + 1
    PROVE  InsertAt(l, i, c) \in Seq(S) /\ IsInserted(InsertAt(l, i, c), l, i, c)
<1>. DEFINE a == SubSeq(l, 1, i - 1)
            b == SubSeq(l, i, Len(l))
            ac == a \o <<c>>
<1>1. Len(l) \in Nat /\ i \in Int /\ i - 1 \in Int
  OBVIOUS
<1>2. /\ a \in Seq(S) /\ Len(a) = i - 1
      /\ \A j \in 1 .. i - 1 : a[j] = l[j]
  <2>1. \A j \in 1 .. i - 1 : l[j] \in S
    OBVIOUS
  <2>. QED BY <1>1, <2>1, SubSeqProperties
<1>3. /\ b \in Seq(S) /\ Len(b) = Len(l) - i + 1
      /\ \A j \in 1 .. Len(l) - i + 1 : b[j] = l[i + j - 1]
  <2>1. \A j \in i .. Len(l) : l[j] \in S
    OBVIOUS
  <2>. QED BY <1>1, <2>1, SubSeqProperties
<1>. HIDE DEF a, b
<1>4. /\ <<c>> \in Seq(S) /\ Len(<<c>>) = 1 /\ <<c>>[1] = c
  OBVIOUS
<1>5. /\ ac \in Seq(S) /\ Len(ac) = i
      /\ \A j \in 1 .. i : ac[j] = IF j < i THEN l[j] ELSE c
  BY <1>1, <1>2, <1>4, ConcatProperties
<1>. HIDE DEF ac
<1>6. /\ ac \o b \in Seq(S) /\ Len(ac \o b) = Len(l) + 1
      /\ \A j \in 1 .. Len(l) + 1 : (ac \o b)[j] = IF j <= i THEN ac[j] ELSE b[j - i]
  <2>1. /\ ac \o b \in Seq(S) /\ Len(ac \o b) = Len(ac) + Len(b)
        /\ \A j \in 1 .. Len(ac) + Len(b) :
              (ac \o b)[j] = IF j <= Len(ac) THEN ac[j] ELSE b[j - Len(ac)]
    BY <1>3, <1>5, ConcatProperties
  <2>2. Len(ac) + Len(b) = Len(l) + 1
    BY <1>1, <1>3, <1>5
  <2>. QED BY <1>5, <2>1, <2>2
<1>7. InsertAt(l, i, c) = ac \o b
  BY DEF InsertAt, ac, a, b
<1>8. \A j \in 1 .. Len(l) + 1 :
         (ac \o b)[j] = IF j < i THEN l[j] ELSE IF j = i THEN c ELSE l[j - 1]
  BY <1>1, <1>3, <1>5, <1>6
<1>. QED BY <1>6, <1>7, <1>8 DEF IsInserted

LEMMA PrefixInserts ==
    ASSUME NEW S, NEW l \in Seq(S), NEW c \in S
    PROVE  <<c>> \o l \in Seq(S) /\ IsInserted(<<c>> \o l, l, 1, c)
<1>1. /\ <<c>> \in Seq(S) /\ Len(<<c>>) = 1 /\ <<c>>[1] = c
  OBVIOUS
<1>2. /\ <<c>> \o l \in Seq(S) /\ Len(<<c>> \o l) = 1 + Len(l)
      /\ \A j \in 1 .. 1 + Len(l) : (<<c>> \o l)[j] = IF j <= 1 THEN <<c>>[j] ELSE l[j - 1]
  BY <1>1, ConcatProperties
<1>. QED BY <1>1, <1>2 DEF IsInserted

LEMMA AppendInserts ==
    ASSUME NEW S, NEW l \in Seq(S), NEW c \in S
    PROVE  Append(l, c) \in Seq(S) /\ IsInserted(Append(l, c), l, Len(l) + 1, c)
BY DEF IsInserted

LEMMA UptoCard ==
    ASSUME NEW n \in Nat
    PROVE  IsFiniteSet(1 .. n) /\ Cardinality(1 .. n) = n
<1>1. IsFiniteSet(1 .. n) /\ Cardinality(1 .. n) = IF 1 > n THEN 0 ELSE n - 1 + 1
  BY FS_Interval
<1>2. (IF 1 > n THEN 0 ELSE n - 1 + 1) = n
  OBVIOUS
<1>. QED BY <1>1, <1>2

\* The place above some windows is a place in the chain, or its end.
LEMMA AboveBounds ==
    ASSUME NEW S, NEW l \in Seq(S), NEW T
    PROVE  /\ Above(l, T) \in 1 .. Len(l) + 1
           /\ ToSet(l) \cap T # {} => Above(l, T) - 1 \in 1 .. Len(l)
           /\ l # <<>> /\ l[Len(l)] \notin T => Above(l, T) \in 1 .. Len(l)
<1>. DEFINE below == {i \in DOMAIN l : \E j \in i .. Len(l) : l[j] \in T}
<1>1. Len(l) \in Nat /\ DOMAIN l = 1 .. Len(l) /\ IsFiniteSet(1 .. Len(l))
      /\ Cardinality(1 .. Len(l)) = Len(l)
  BY UptoCard
<1>2. /\ below \in SUBSET (1 .. Len(l))
      /\ IsFiniteSet(below) /\ Cardinality(below) \in Nat /\ Cardinality(below) <= Len(l)
  BY <1>1, FS_Subset, FS_CardinalityType
<1>3. ASSUME ToSet(l) \cap T # {} PROVE Cardinality(below) >= 1
  <2>1. PICK i \in 1 .. Len(l) : l[i] \in T
    BY <1>1, <1>3 DEF ToSet
  <2>2. below # {}
    BY <1>1, <2>1
  <2>. HIDE DEF below
  <2>. QED BY <1>2, <2>2, FS_EmptySet
<1>4. ASSUME l # <<>>, l[Len(l)] \notin T PROVE Cardinality(below) <= Len(l) - 1
  <2>1. below \in SUBSET (1 .. Len(l) - 1)
    BY <1>1, <1>4
  <2>2. Len(l) # 0
    BY <1>4
  <2>3. IsFiniteSet(1 .. Len(l) - 1) /\ Cardinality(1 .. Len(l) - 1) = Len(l) - 1
    <3>1. Len(l) - 1 \in Nat
      BY <1>1, <2>2
    <3>. QED BY <3>1, UptoCard
  <2>. HIDE DEF below
  <2>. QED BY <2>1, <2>3, FS_Subset
<1>5. Above(l, T) = 1 + Cardinality(below)
  BY DEF Above
<1>. HIDE DEF below
<1>6. Above(l, T) \in 1 .. Len(l) + 1
  BY <1>1, <1>2, <1>5
<1>7. ToSet(l) \cap T # {} => Above(l, T) - 1 \in 1 .. Len(l)
  BY <1>1, <1>2, <1>3, <1>5
<1>8. l # <<>> /\ l[Len(l)] \notin T => Above(l, T) \in 1 .. Len(l)
  BY <1>1, <1>2, <1>4, <1>5
<1>. QED BY <1>6, <1>7, <1>8

\* What the operations of FocusChain do to the members of one chain.
LEMMA MakeFirstOrder ==
    ASSUME NEW S, NEW l \in Orders(S), NEW c \in S
    PROVE  /\ MakeFirstInChain(l, c) \in Orders(S)
           /\ ToSet(MakeFirstInChain(l, c)) = ToSet(l) \cup {c}
<1>. DEFINE rest == Removed(l, c)
            m == MakeFirstInChain(l, c)
<1>1. rest \in Orders(S) /\ ToSet(rest) = ToSet(l) \ {c}
  BY RemovedOrder
<1>. HIDE DEF rest
<1>2. rest \in Seq(S) /\ Len(rest) \in Nat
  BY <1>1 DEF Orders
<1>3. \E i \in 1 .. Len(rest) + 1 : m \in Seq(S) /\ IsInserted(m, rest, i, c)
  <2>1. CASE c \in minimized'
    <3>1. Above(rest, minimized') \in 1 .. Len(rest) + 1
      BY <1>2, AboveBounds
    <3>2. m = InsertAt(rest, Above(rest, minimized'), c)
      BY <2>1 DEF MakeFirstInChain, rest
    <3>. HIDE DEF m
    <3>. QED BY <1>2, <3>1, <3>2, InsertAtInserts
  <2>2. CASE c \notin minimized'
    <3>1. m = Append(rest, c)
      BY <2>2 DEF MakeFirstInChain, rest
    <3>2. Len(rest) + 1 \in 1 .. Len(rest) + 1
      BY <1>2
    <3>. HIDE DEF m
    <3>. QED BY <1>2, <3>1, <3>2, AppendInserts
  <2>. QED BY <2>1, <2>2
<1>4. c \notin ToSet(rest)
  BY <1>1
<1>. HIDE DEF m
<1>5. m \in Orders(S) /\ ToSet(m) = ToSet(rest) \cup {c}
  BY <1>1, <1>3, <1>4, InsertedOrder
<1>. QED BY <1>1, <1>5 DEF m

LEMMA MakeLastOrder ==
    ASSUME NEW S, NEW l \in Orders(S), NEW c \in S
    PROVE  /\ MakeLastInChain(l, c) \in Orders(S)
           /\ ToSet(MakeLastInChain(l, c)) = ToSet(l) \cup {c}
<1>. DEFINE rest == Removed(l, c)
<1>1. rest \in Orders(S) /\ ToSet(rest) = ToSet(l) \ {c}
  BY RemovedOrder
<1>2. MakeLastInChain(l, c) = <<c>> \o rest
  BY DEF MakeLastInChain
<1>. HIDE DEF rest
<1>3. rest \in Seq(S) /\ 1 \in 1 .. Len(rest) + 1
  BY <1>1 DEF Orders
<1>4. <<c>> \o rest \in Seq(S) /\ IsInserted(<<c>> \o rest, rest, 1, c)
  BY <1>3, PrefixInserts
<1>5. c \notin ToSet(rest)
  BY <1>1
<1>6. ASSUME NEW m, m = <<c>> \o rest
      PROVE  m \in Orders(S) /\ ToSet(m) = ToSet(rest) \cup {c}
  <2>1. \E i \in 1 .. Len(rest) + 1 : m \in Seq(S) /\ IsInserted(m, rest, i, c)
    BY <1>3, <1>4, <1>6
  <2>. QED BY <1>1, <1>5, <2>1, InsertedOrder
<1>. QED BY <1>1, <1>2, <1>6

LEMMA InsertClientOrder ==
    ASSUME NEW S, NEW l \in Orders(S), NEW c \in S, NEW act
    PROVE  /\ InsertClientIntoChain(l, c, act) \in Orders(S)
           /\ ToSet(InsertClientIntoChain(l, c, act)) = ToSet(l) \cup {c}
<1>. DEFINE m == InsertClientIntoChain(l, c, act)
<1>1. CASE c \in ToSet(l)
  BY <1>1 DEF InsertClientIntoChain
<1>2. CASE c \notin ToSet(l)
  <2>1. l \in Seq(S) /\ Len(l) \in Nat
    BY DEF Orders
  <2>2. \E i \in 1 .. Len(l) + 1 : m \in Seq(S) /\ IsInserted(m, l, i, c)
    <3>1. CASE l # <<>> /\ act # c /\ Last(l) = act
      <4>1. m = InsertAt(l, Len(l), c) /\ Len(l) \in 1 .. Len(l) + 1
        BY <1>2, <2>1, <3>1 DEF InsertClientIntoChain
      <4>. HIDE DEF m
      <4>. QED BY <2>1, <4>1, InsertAtInserts
    <3>2. CASE ~(l # <<>> /\ act # c /\ Last(l) = act)
      <4>1. m = Append(l, c) /\ Len(l) + 1 \in 1 .. Len(l) + 1
        BY <1>2, <2>1, <3>2 DEF InsertClientIntoChain
      <4>. HIDE DEF m
      <4>. QED BY <2>1, <4>1, AppendInserts
    <3>. QED BY <3>1, <3>2
  <2>. HIDE DEF m
  <2>3. m \in Orders(S) /\ ToSet(m) = ToSet(l) \cup {c}
    BY <1>2, <2>2, InsertedOrder
  <2>. QED BY <2>3 DEF m
<1>. QED BY <1>1, <1>2

Changes == {"MakeFirst", "MakeLast", "Update"}      \* enum FocusChain::Change

LEMMA UpdateOrder ==
    ASSUME NEW S, NEW l \in Orders(S), NEW c \in S, NEW change \in Changes, NEW act
    PROVE  /\ UpdateClientInChain(l, c, change, act) \in Orders(S)
           /\ ToSet(UpdateClientInChain(l, c, change, act)) = ToSet(l) \cup {c}
<1>1. CASE change = "MakeFirst"
  BY <1>1, MakeFirstOrder DEF UpdateClientInChain
<1>2. CASE change = "MakeLast"
  BY <1>2, MakeLastOrder DEF UpdateClientInChain
<1>3. CASE change = "Update"
  BY <1>3, InsertClientOrder DEF UpdateClientInChain
<1>. QED BY <1>1, <1>2, <1>3 DEF Changes

\* moveAfterClientInChain() does nothing, or takes the window out and puts it back
\* below another one, if there is one.
LEMMA MoveInserts ==
    ASSUME NEW S, S \subseteq Clients, NEW l \in Orders(S), NEW c \in S, NEW ref \in S,
           NEW rest, rest = Removed(l, c), NEW m, m = MoveAfterClientInChain(l, c, ref)
    PROVE  IF ref \in ToSet(l)
           THEN \E i \in 1 .. Len(rest) + 1 : /\ m \in Seq(S) /\ IsInserted(m, rest, i, c)
                                              /\ i = 1 \/ i <= Len(rest)
           ELSE m = l
<1>. DEFINE app == {k \in Clients : SameApplication(ref, k)}
            T == IF c \in app THEN {ref} ELSE app
<1>1. rest \in Orders(S) /\ ToSet(rest) = ToSet(l) \ {c}
  BY RemovedOrder
<1>2. m = IF ref \notin ToSet(l) THEN l
          ELSE IF c = ref THEN <<c>> \o rest
          ELSE InsertAt(rest, Above(rest, T) - 1, c)
  BY DEF MoveAfterClientInChain
<1>3. ref \in T
  <2>1. PICK p \in Applications : ref \in p
    BY ApplicationsPartition
  <2>2. {ref, ref} \subseteq p
    BY <2>1
  <2>. QED BY <2>1, <2>2 DEF SameApplication
<1>. HIDE DEF T
<1>4. rest \in Seq(S) /\ Len(rest) \in Nat
  BY <1>1 DEF Orders
<1>5. ASSUME ref \in ToSet(l), c = ref
      PROVE  \E i \in 1 .. Len(rest) + 1 : /\ m \in Seq(S) /\ IsInserted(m, rest, i, c)
                                           /\ i = 1 \/ i <= Len(rest)
  <2>1. m = <<c>> \o rest /\ 1 \in 1 .. Len(rest) + 1
    BY <1>2, <1>4, <1>5
  <2>. QED BY <1>4, <2>1, PrefixInserts
<1>6. ASSUME ref \in ToSet(l), c # ref
      PROVE  \E i \in 1 .. Len(rest) + 1 : /\ m \in Seq(S) /\ IsInserted(m, rest, i, c)
                                           /\ i = 1 \/ i <= Len(rest)
  <2>1. ToSet(rest) \cap T # {}
    BY <1>1, <1>3, <1>6
  <2>2. Above(rest, T) - 1 \in 1 .. Len(rest)
    BY <1>4, <2>1, AboveBounds
  <2>3. Above(rest, T) - 1 \in 1 .. Len(rest) + 1 /\ Above(rest, T) - 1 <= Len(rest)
    BY <1>4, <2>2
  <2>4. m = InsertAt(rest, Above(rest, T) - 1, c)
    BY <1>2, <1>6
  <2>. QED BY <1>4, <2>3, <2>4, InsertAtInserts
<1>. QED BY <1>2, <1>5, <1>6

LEMMA MoveAfterOrder ==
    ASSUME NEW S, S \subseteq Clients, NEW l \in Orders(S), NEW c \in S, NEW ref \in S
    PROVE  /\ MoveAfterClientInChain(l, c, ref) \in Orders(S)
           /\ ToSet(MoveAfterClientInChain(l, c, ref)) =
                 IF ref \in ToSet(l) THEN ToSet(l) \cup {c} ELSE ToSet(l)
<1>. DEFINE rest == Removed(l, c)
            m == MoveAfterClientInChain(l, c, ref)
<1>1. rest \in Orders(S) /\ ToSet(rest) = ToSet(l) \ {c}
  BY RemovedOrder
<1>2. IF ref \in ToSet(l)
      THEN \E i \in 1 .. Len(rest) + 1 : m \in Seq(S) /\ IsInserted(m, rest, i, c)
      ELSE m = l
  BY MoveInserts
<1>. HIDE DEF rest, m
<1>3. CASE ref \in ToSet(l)
  <2>1. c \notin ToSet(rest)
    BY <1>1
  <2>2. m \in Orders(S) /\ ToSet(m) = ToSet(rest) \cup {c}
    BY <1>1, <1>2, <1>3, <2>1, InsertedOrder
  <2>. QED BY <1>1, <1>3, <2>2 DEF m
<1>. QED BY <1>2, <1>3 DEF m

--------------------------------------------------------------------------------
(* All chains                                                               *)

LEMMA OrdersOf ==
    ASSUME NEW S, NEW T, NEW l \in Orders(S), ToSet(l) \subseteq T
    PROVE  l \in Orders(T)
<1>1. l \in Seq(S) /\ Len(l) \in Nat /\ DOMAIN l = 1 .. Len(l) /\ IsInjective(l)
  BY DEF Orders
<1>2. \A i \in 1 .. Len(l) : l[i] \in T
  BY <1>1 DEF ToSet
<1>3. l = [i \in 1 .. Len(l) |-> l[i]]
  BY <1>1
<1>4. l \in [1 .. Len(l) -> T]
  BY <1>2, <1>3
<1>5. l \in Seq(T)
  BY <1>1, <1>4, SeqDef
<1>. QED BY <1>1, <1>5 DEF Orders

LEMMA OrderMembers == ASSUME NEW S, NEW l \in Orders(S) PROVE ToSet(l) \subseteq S
  BY DEF Orders, ToSet

\* Where update() leaves the window: among the windows of d, or not.
Belongs(c, d) == c \in input' /\ (d = Recent \/ desk'[c] \in {AllDesktops, d})

\* In the chains of D, now new, c is where it belongs, and the others are where
\* they were.
Rejoined(old, new, c, D) ==
    \A d \in D : ToSet(new[d]) = IF Belongs(c, d) THEN ToSet(old[d]) \cup {c}
                                 ELSE ToSet(old[d]) \ {c}

LEMMA UpdateChains ==
    ASSUME NEW S, NEW D, NEW ch \in [D -> Orders(S)], NEW c \in S,
           NEW change \in Changes, NEW act
    PROVE  /\ Update(ch, c, change, act) \in [D -> Orders(S)]
           /\ Rejoined(ch, Update(ch, c, change, act), c, D)
<1>. DEFINE new(d) == IF c \notin input' THEN Removed(ch[d], c)
                      ELSE IF d = Recent \/ desk'[c] = d \/ (desk'[c] = AllDesktops /\ d = current')
                           THEN UpdateClientInChain(ch[d], c, change, act)
                      ELSE IF desk'[c] = AllDesktops THEN InsertClientIntoChain(ch[d], c, act)
                      ELSE Removed(ch[d], c)
<1>1. Update(ch, c, change, act) = [d \in D |-> new(d)]
  BY DEF Update
<1>2. ASSUME NEW d \in D
      PROVE  /\ new(d) \in Orders(S)
             /\ ToSet(new(d)) = IF Belongs(c, d) THEN ToSet(ch[d]) \cup {c}
                                ELSE ToSet(ch[d]) \ {c}
  <2>1. ch[d] \in Orders(S)
    OBVIOUS
  <2>. DEFINE l == ch[d]
  <2>2. /\ Removed(l, c) \in Orders(S) /\ ToSet(Removed(l, c)) = ToSet(l) \ {c}
    BY <2>1, RemovedOrder
  <2>3. /\ UpdateClientInChain(l, c, change, act) \in Orders(S)
        /\ ToSet(UpdateClientInChain(l, c, change, act)) = ToSet(l) \cup {c}
    BY <2>1, UpdateOrder
  <2>4. /\ InsertClientIntoChain(l, c, act) \in Orders(S)
        /\ ToSet(InsertClientIntoChain(l, c, act)) = ToSet(l) \cup {c}
    BY <2>1, InsertClientOrder
  <2>. QED BY <2>2, <2>3, <2>4 DEF Belongs
<1>. HIDE DEF new
<1>. QED BY <1>1, <1>2 DEF Rejoined

\* c may have joined chains where it belongs, and the others are where they were.
Joined(old, new, c, D) ==
    \A d \in D : \/ ToSet(new[d]) = ToSet(old[d])
                 \/ Belongs(c, d) /\ ToSet(new[d]) = ToSet(old[d]) \cup {c}

LEMMA MoveAfterChains ==
    ASSUME NEW S, S \subseteq Clients, NEW D, NEW ch \in [D -> Orders(S)],
           NEW c \in S, NEW ref \in S
    PROVE  /\ MoveAfterClient(ch, c, ref) \in [D -> Orders(S)]
           /\ Joined(ch, MoveAfterClient(ch, c, ref), c, D)
<1>. DEFINE new(d) == IF c \in input' /\ (d = Recent \/ desk'[c] \in {AllDesktops, d})
                      THEN MoveAfterClientInChain(ch[d], c, ref) ELSE ch[d]
<1>1. MoveAfterClient(ch, c, ref) = [d \in D |-> new(d)]
  BY DEF MoveAfterClient
<1>2. ASSUME NEW d \in D
      PROVE  /\ new(d) \in Orders(S)
             /\ \/ ToSet(new(d)) = ToSet(ch[d])
                \/ Belongs(c, d) /\ ToSet(new(d)) = ToSet(ch[d]) \cup {c}
  <2>. DEFINE l == ch[d]
  <2>1. l \in Orders(S)
    OBVIOUS
  <2>2. /\ MoveAfterClientInChain(l, c, ref) \in Orders(S)
        /\ ToSet(MoveAfterClientInChain(l, c, ref)) =
              IF ref \in ToSet(l) THEN ToSet(l) \cup {c} ELSE ToSet(l)
    BY <2>1, MoveAfterOrder
  <2>. QED BY <2>1, <2>2 DEF Belongs
<1>. HIDE DEF new
<1>. QED BY <1>1, <1>2 DEF Joined

\* c is gone, and the others are where they were.
Left(old, new, c, D) == \A d \in D : ToSet(new[d]) = ToSet(old[d]) \ {c}

LEMMA RemoveChains ==
    ASSUME NEW S, NEW D, NEW ch \in [D -> Orders(S)], NEW c
    PROVE  /\ RemoveClient(ch, c) \in [D -> Orders(S \ {c})]
           /\ Left(ch, RemoveClient(ch, c), c, D)
<1>1. ASSUME NEW d \in D
      PROVE  /\ Removed(ch[d], c) \in Orders(S \ {c})
             /\ ToSet(Removed(ch[d], c)) = ToSet(ch[d]) \ {c}
  <2>1. ch[d] \in Orders(S)
    OBVIOUS
  <2>2. /\ Removed(ch[d], c) \in Orders(S)
        /\ ToSet(Removed(ch[d], c)) = ToSet(ch[d]) \ {c}
    BY <2>1, RemovedOrder
  <2>3. ToSet(Removed(ch[d], c)) \subseteq S \ {c}
    BY <2>1, <2>2, OrderMembers
  <2>. QED BY <2>2, <2>3, OrdersOf
<1>2. RemoveClient(ch, c) = [d \in D |-> Removed(ch[d], c)]
  BY DEF RemoveClient
<1>. QED BY <1>1, <1>2 DEF Left

LEMMA ChainsWiden ==
    ASSUME NEW S, NEW T, S \subseteq T, NEW D, NEW ch \in [D -> Orders(S)]
    PROVE  ch \in [D -> Orders(T)]
<1>1. ASSUME NEW d \in D PROVE ch[d] \in Orders(T)
  <2>1. ch[d] \in Orders(S)
    OBVIOUS
  <2>. QED BY <2>1, OrderMembers, OrdersOf
<1>2. ch = [d \in D |-> ch[d]]
  OBVIOUS
<1>. QED BY <1>1, <1>2

\* What activateNextClient(c) asks, and whom it could ask, after the event.
Asks(c) == NextForDesktop(chains, c, current)'
CouldAsk(k, c) ==
    k # c /\ k \notin minimized' \cup hidden' /\ desk'[k] \in {AllDesktops, current'}

\* The window that is to be asked next is usable; no window of the chain is if
\* there is none.
LEMMA NextFound ==
    ASSUME NEW c, NEW S, NEW D, chains' \in [D -> Seq(S)], current' \in D
    PROVE  \/ /\ Asks(c) = None
              /\ \A k \in ToSet(chains'[current']) : ~CouldAsk(k, c)
           \/ Asks(c) \in ToSet(chains'[current']) /\ CouldAsk(Asks(c), c)
<1>. DEFINE l == chains'[current']
            usable == {i \in DOMAIN l : CouldAsk(l[i], c)}
<1>1. l \in Seq(S) /\ Len(l) \in Nat /\ DOMAIN l = 1 .. Len(l)
  OBVIOUS
<1>2. Asks(c) = IF usable = {} THEN None ELSE l[CHOOSE i \in usable : \A j \in usable : j <= i]
  <2>. DEFINE these == {i \in DOMAIN chains'[current'] : IsUsableFocusCandidate(chains[current][i], c)'}
  <2>1. Asks(c) = IF these = {} THEN None
                  ELSE chains'[current'][CHOOSE i \in these : \A j \in these : j <= i]
    BY DEF Asks, NextForDesktop, IsUsableFocusCandidate, Shown, OnDesktop
  <2>2. ASSUME NEW i PROVE IsUsableFocusCandidate(chains[current][i], c)' <=> CouldAsk(l[i], c)
    BY DEF CouldAsk, IsUsableFocusCandidate, Shown, OnDesktop
  <2>3. these = {i \in DOMAIN l : IsUsableFocusCandidate(chains[current][i], c)'}
    OBVIOUS
  <2>. QED BY <2>1, <2>2
<1>. HIDE DEF l
<1>3. CASE usable = {}
  <2>1. \A k \in ToSet(l) : ~CouldAsk(k, c)
    BY <1>3 DEF ToSet
  <2>. QED BY <1>2, <1>3, <2>1 DEF l
<1>4. CASE usable # {}
  <2>. DEFINE over == {n \in 0 .. Len(l) : Len(l) - n \in usable}
  <2>1. over \in SUBSET Nat /\ over # {}
    <3>1. PICK i \in usable : TRUE
      BY <1>4
    <3>2. Len(l) - i \in over
      BY <1>1, <3>1
    <3>. QED BY <3>2
  <2>2. PICK n \in over : \A k \in over : n <= k
    <3>. HIDE DEF over
    <3>. QED BY <2>1, Least
  <2>3. \E i \in usable : \A j \in usable : j <= i
    <3>1. Len(l) - n \in usable
      BY <2>2
    <3>2. ASSUME NEW j \in usable PROVE j <= Len(l) - n
      <4>1. Len(l) - j \in over
        BY <1>1
      <4>2. n <= Len(l) - j
        BY <2>2, <4>1
      <4>. QED BY <1>1, <2>2, <4>2
    <3>. QED BY <3>1, <3>2
  <2>. DEFINE top == CHOOSE i \in usable : \A j \in usable : j <= i
  <2>4. top \in usable
    BY <2>3
  <2>5. Asks(c) = l[top]
    BY <1>2, <1>4
  <2>. HIDE DEF top
  <2>6. Asks(c) \in ToSet(l) /\ CouldAsk(Asks(c), c)
    BY <2>4, <2>5 DEF ToSet
  <2>. QED BY <2>6 DEF l
<1>. QED BY <1>3, <1>4

--------------------------------------------------------------------------------
(* The invariant                                                            *)

\* That there are finitely many windows makes the order in which they are sent
\* from a desktop that goes reach all of them.
FocusInv == TypeOK /\ ChainsAgree /\ IsFiniteSet(clients)

ChainsTyped == chains \in [{Recent} \cup 1 .. count -> Orders(clients)]

WindowsTyped ==
    /\ clients \subseteq Clients
    /\ desk \in [Clients -> 0 .. count]
    /\ minimized \cup hidden \cup input \cup stale \subseteq clients
    /\ active \in clients \cup {None} /\ asked \in clients \cup {None}
    /\ count \in 1 .. MaxDesktops /\ current \in 1 .. count
    /\ active # None => active \notin minimized /\ OnDesktop(active, current)

LEMMA TypeParts == TypeOK <=> WindowsTyped /\ ChainsTyped
<1>1. TypeOK => WindowsTyped
  BY DEF TypeOK, WindowsTyped
<1>2. TypeOK => ChainsTyped
  BY DEF TypeOK, ChainsTyped, Orders
<1>3. WindowsTyped /\ ChainsTyped => TypeOK
  BY DEF TypeOK, WindowsTyped, ChainsTyped, Orders
<1>. QED BY <1>1, <1>2, <1>3

LEMMA TypePartsNext == TypeOK' <=> WindowsTyped' /\ ChainsTyped'
<1>1. TypeOK' => WindowsTyped'
  BY DEF TypeOK, WindowsTyped
<1>2. TypeOK' => ChainsTyped'
  BY DEF TypeOK, ChainsTyped, Orders
<1>3. WindowsTyped' /\ ChainsTyped' => TypeOK'
  BY DEF TypeOK, WindowsTyped, ChainsTyped, Orders
<1>. QED BY <1>1, <1>2, <1>3

\* Nothing but the chains changes for the windows other than c, and no window but
\* c appears.
Others(c) ==
    /\ count' = count
    /\ clients' \subseteq clients \cup {c}
    /\ \A k \in clients \ {c} : /\ desk'[k] = desk[k]
                                /\ k \in input' <=> k \in input
                                /\ k \in stale => k \in stale'

AllChains == {Recent} \cup 1 .. count

LEMMA RejoinedAgree ==
    ASSUME WindowsTyped, ChainsTyped, ChainsAgree, NEW c, Others(c),
           ChainsTyped', Rejoined(chains, chains', c, AllChains)
    PROVE  ChainsAgree'
<1>. SUFFICES ASSUME NEW d \in {Recent} \cup 1 .. count, NEW k \in clients'
              PROVE  /\ k \in ToSet(chains'[d]) => d = Recent \/ desk'[k] \in {AllDesktops, d}
                     /\ k \notin stale' =>
                           (k \in ToSet(chains'[d]) <=> Belongs(k, d))
  BY DEF ChainsAgree, ChainsTyped, OnDesktop, Others, Belongs
<1>1. CASE k = c
  BY <1>1 DEF Rejoined, Belongs, AllChains
<1>2. CASE k # c
  <2>1. k \in clients \ {c} /\ d \in DOMAIN chains
    BY <1>2 DEF Others, ChainsTyped
  <2>2. k \in ToSet(chains'[d]) <=> k \in ToSet(chains[d])
    BY <1>2 DEF Rejoined, AllChains
  <2>. QED BY <2>1, <2>2 DEF ChainsAgree, OnDesktop, Others, Belongs
<1>. QED BY <1>1, <1>2

\* An update() of c, of chains that differ from those of now at most in c.
LEMMA UpdateRejoins ==
    ASSUME NEW c \in clients', count' = count,
           NEW ch \in [AllChains -> Orders(clients')],
           \A d \in AllChains : ToSet(ch[d]) \ {c} = ToSet(chains[d]) \ {c},
           NEW change \in Changes, NEW act,
           chains' = Update(ch, c, change, act)
    PROVE  ChainsTyped' /\ Rejoined(chains, chains', c, AllChains)
<1>1. chains' \in [AllChains -> Orders(clients')] /\ Rejoined(ch, chains', c, AllChains)
  BY UpdateChains
<1>2. ChainsTyped'
  BY <1>1 DEF ChainsTyped, AllChains
<1>3. ASSUME NEW d \in AllChains
      PROVE  ToSet(chains'[d]) = IF Belongs(c, d) THEN ToSet(chains[d]) \cup {c}
                                 ELSE ToSet(chains[d]) \ {c}
  <2>1. ToSet(ch[d]) \ {c} = ToSet(chains[d]) \ {c}
    OBVIOUS
  <2>2. ToSet(chains'[d]) = IF Belongs(c, d) THEN ToSet(ch[d]) \cup {c} ELSE ToSet(ch[d]) \ {c}
    BY <1>1 DEF Rejoined
  <2>. QED BY <2>1, <2>2
<1>. QED BY <1>2, <1>3 DEF Rejoined

\* c may have joined chains where it belongs; what is known of it is kept.
LEMMA JoinedAgree ==
    ASSUME WindowsTyped, ChainsTyped, ChainsAgree, NEW c, Others(c),
           clients' = clients, c \in clients => desk'[c] = desk[c],
           c \notin stale' => c \notin stale /\ (c \in input' <=> c \in input),
           ChainsTyped', Joined(chains, chains', c, AllChains)
    PROVE  ChainsAgree'
<1>. SUFFICES ASSUME NEW d \in AllChains, NEW k \in clients
              PROVE  /\ k \in ToSet(chains'[d]) => d = Recent \/ desk'[k] \in {AllDesktops, d}
                     /\ k \notin stale' =>
                           (k \in ToSet(chains'[d]) <=> Belongs(k, d))
  BY DEF ChainsAgree, ChainsTyped, OnDesktop, Others, Belongs, AllChains
<1>1. /\ k \in ToSet(chains[d]) => d = Recent \/ desk[k] \in {AllDesktops, d}
      /\ k \notin stale =>
            (k \in ToSet(chains[d]) <=> (d = Recent \/ desk[k] \in {AllDesktops, d}) /\ k \in input)
  BY DEF ChainsAgree, ChainsTyped, OnDesktop, AllChains
<1>2. \/ ToSet(chains'[d]) = ToSet(chains[d])
      \/ Belongs(c, d) /\ ToSet(chains'[d]) = ToSet(chains[d]) \cup {c}
  BY DEF Joined
<1>3. CASE k = c
  BY <1>1, <1>2, <1>3 DEF Belongs
<1>4. CASE k # c
  <2>1. desk'[k] = desk[k] /\ (k \in input' <=> k \in input) /\ (k \in stale => k \in stale')
    BY <1>4 DEF Others
  <2>. QED BY <1>1, <1>2, <1>4, <2>1 DEF Belongs
<1>. QED BY <1>3, <1>4

LEMMA JoinedNone == ASSUME NEW c PROVE Joined(chains, chains, c, AllChains)
  BY DEF Joined

LEMMA NextTyped ==
    ASSUME ChainsTyped', count' \in Nat, current' \in 1 .. count', NEW c, ActivateNextClient(c)
    PROVE  /\ active' = IF c = active THEN None ELSE active
           /\ \/ asked' \in clients' \cup {None}
              \/ asked' = asked /\ asked # c /\ active # c
<1>. DEFINE D == {Recent} \cup 1 .. count'
            S == clients'
<1>1. chains' \in [D -> Orders(S)] /\ current' \in D
  BY DEF ChainsTyped
<1>2. chains'[current'] \in Orders(S)
  BY <1>1
<1>3. chains' \in [D -> Seq(S)]
  BY <1>1 DEF Orders
<1>4. ToSet(chains'[current']) \subseteq S
  BY <1>2, OrderMembers
<1>5. Asks(c) \in S \cup {None}
  <2>. HIDE DEF D, S
  <2>1. Asks(c) = None \/ Asks(c) \in ToSet(chains'[current'])
    BY <1>1, <1>3, NextFound
  <2>. QED BY <1>4, <2>1
<1>6. /\ active' = IF c = active THEN None ELSE active
      /\ asked' = IF c \in {active, asked} THEN Asks(c) ELSE asked
  BY DEF ActivateNextClient, Asks
<1>. QED BY <1>5, <1>6

--------------------------------------------------------------------------------
(* The steps                                                                *)

\* What the proofs of the steps need of the state before.
LEMMA Before ==
    ASSUME FocusInv
    PROVE  /\ WindowsTyped /\ ChainsTyped /\ ChainsAgree
           /\ count \in Nat /\ MaxDesktops \in Nat /\ clients \subseteq Clients
           /\ None \notin Clients
           /\ chains \in [AllChains -> Orders(clients)]
<1>1. WindowsTyped /\ ChainsTyped /\ ChainsAgree
  BY TypeParts DEF FocusInv
<1>. QED BY <1>1, ClientsAssumption DEF WindowsTyped, ChainsTyped, AllChains

\* A reference is a window.
LEMMA ReferenceKnown ==
    ASSUME NEW c, NEW r \in clients, NEW ref \in References(c, r)
    PROVE  ref \in clients
BY DEF References

LEMMA After ==
    ASSUME WindowsTyped', ChainsTyped', ChainsAgree', IsFiniteSet(clients')
    PROVE  FocusInv'
BY TypePartsNext DEF FocusInv

LEMMA ManageInv == ASSUME FocusInv, NEW c \in Clients, Manage(c) PROVE FocusInv'
<1>. USE DEF Manage
<1>1. /\ c \notin clients /\ clients' = clients \cup {c}
      /\ UNCHANGED <<hidden, active, current, count, stale>>
      /\ minimized' \in {minimized, minimized \cup {c}}
      /\ asked' \in {asked, c}
  OBVIOUS
<1>2. PICK d \in {AllDesktops} \cup 1 .. count : desk' = [desk EXCEPT ![c] = d]
  OBVIOUS
<1>3. input' \in {input \cup {c}, input}
  OBVIOUS
<1>4. WindowsTyped'
  BY <1>1, <1>2, <1>3, Before DEF WindowsTyped, OnDesktop, FocusInv, AllDesktops
<1>5. Others(c)
  BY <1>1, <1>2, <1>3, Before DEF Others, WindowsTyped
<1>6. chains \in [AllChains -> Orders(clients')]
  <2>1. clients \subseteq clients'
    BY <1>1
  <2>. QED BY <2>1, Before, ChainsWiden
<1>7. ChainsTyped' /\ Rejoined(chains, chains', c, AllChains)
  <2>1. CASE chains' = Update(Update(chains, c, "MakeFirst", active), c, "Update", active)
    <3>. DEFINE ch == Update(chains, c, "MakeFirst", active)
    <3>1. /\ ch \in [AllChains -> Orders(clients')]
          /\ Rejoined(chains, ch, c, AllChains)
      BY <1>1, <1>6, UpdateChains DEF Changes
    <3>. HIDE DEF ch
    <3>2. \A e \in AllChains : ToSet(ch[e]) \ {c} = ToSet(chains[e]) \ {c}
      BY <3>1 DEF Rejoined
    <3>3. chains' = Update(ch, c, "Update", active)
      BY <2>1 DEF ch
    <3>. QED BY <1>1, <3>1, <3>2, <3>3, UpdateRejoins DEF Changes
  <2>2. CASE chains' = Update(chains, c, "Update", active)
    BY <1>1, <1>6, <2>2, UpdateRejoins DEF Changes
  <2>3. ASSUME active # None, NEW ref \in References(c, active),
               chains' = Update(MoveAfterClient(chains, c, ref), c, "Update", active)
        PROVE  ChainsTyped' /\ Rejoined(chains, chains', c, AllChains)
    <3>. DEFINE ch == MoveAfterClient(chains, c, ref)
    <3>1. active \in clients /\ ref \in clients'
      BY <1>1, <2>3, Before, ReferenceKnown DEF WindowsTyped
    <3>2. clients' \subseteq Clients
      BY <1>1, Before
    <3>3. /\ ch \in [AllChains -> Orders(clients')]
          /\ Joined(chains, ch, c, AllChains)
      BY <1>1, <1>6, <3>1, <3>2, MoveAfterChains
    <3>. HIDE DEF ch
    <3>4. \A e \in AllChains : ToSet(ch[e]) \ {c} = ToSet(chains[e]) \ {c}
      BY <3>3 DEF Joined
    <3>5. chains' = Update(ch, c, "Update", active)
      BY <2>3 DEF ch
    <3>. QED BY <1>1, <3>3, <3>4, <3>5, UpdateRejoins DEF Changes
  <2>. QED BY <2>1, <2>2, <2>3
<1>8. ChainsAgree'
  BY <1>5, <1>7, Before, RejoinedAgree
<1>9. IsFiniteSet(clients')
  BY <1>1, FS_AddElement DEF FocusInv
<1>. QED BY <1>4, <1>7, <1>8, <1>9, After

LEMMA ReleaseInv == ASSUME FocusInv, NEW c \in Clients, Release(c) PROVE FocusInv'
<1>. USE DEF Release
<1>1. /\ clients' = clients \ {c} /\ desk' = [desk EXCEPT ![c] = AllDesktops]
      /\ minimized' = minimized \ {c} /\ hidden' = hidden \ {c} /\ input' = input \ {c}
      /\ chains' = RemoveClient(chains, c) /\ stale' = stale \ {c}
      /\ current' = current /\ count' = count
  BY DEF Updated
<1>2. chains' \in [AllChains -> Orders(clients')] /\ Left(chains, chains', c, AllChains)
  <2>1. chains \in [AllChains -> Orders(clients)]
    BY Before
  <2>2. /\ RemoveClient(chains, c) \in [AllChains -> Orders(clients \ {c})]
        /\ Left(chains, RemoveClient(chains, c), c, AllChains)
    BY <2>1, RemoveChains
  <2>. QED BY <1>1, <2>2
<1>3. ChainsTyped'
  BY <1>1, <1>2 DEF ChainsTyped, AllChains
<1>4. Rejoined(chains, chains', c, AllChains)
  BY <1>1, <1>2 DEF Left, Rejoined, Belongs
<1>5. /\ active' = IF c = active THEN None ELSE active
      /\ asked' \in clients' \cup {None} \/ (asked' = asked /\ asked # c)
  BY <1>1, <1>3, Before, NextTyped DEF WindowsTyped
<1>6. WindowsTyped'
  BY <1>1, <1>5, Before DEF WindowsTyped, OnDesktop, AllDesktops
<1>7. Others(c)
  BY <1>1, Before DEF Others, WindowsTyped
<1>8. ChainsAgree'
  BY <1>3, <1>4, <1>7, Before, RejoinedAgree
<1>9. IsFiniteSet(clients')
  BY <1>1, FS_RemoveElement DEF FocusInv
<1>. QED BY <1>3, <1>6, <1>8, <1>9, After

\* An event that updates one window.
LEMMA UpdatedTyped ==
    ASSUME FocusInv, NEW c \in clients, clients' = clients, count' = count,
           NEW change \in Changes, NEW act, chains' = Update(chains, c, change, act)
    PROVE  ChainsTyped' /\ Rejoined(chains, chains', c, AllChains)
BY Before, UpdateRejoins

LEMMA UpdatedInv ==
    ASSUME FocusInv, NEW c \in clients, clients' = clients, Others(c), WindowsTyped',
           NEW change \in Changes, NEW act, chains' = Update(chains, c, change, act)
    PROVE  FocusInv'
<1>1. ChainsTyped' /\ Rejoined(chains, chains', c, AllChains)
  BY UpdatedTyped DEF Others
<1>2. ChainsAgree'
  BY <1>1, Before, RejoinedAgree
<1>. QED BY <1>1, <1>2, After DEF FocusInv

\* One that updates none.
LEMMA KeptInv ==
    ASSUME FocusInv, NEW c, Others(c), clients' = clients, c \in clients => desk'[c] = desk[c],
           c \notin stale' => c \notin stale /\ (c \in input' <=> c \in input),
           chains' = chains, WindowsTyped'
    PROVE  FocusInv'
<1>1. ChainsTyped'
  BY Before DEF ChainsTyped, Others
<1>2. ChainsAgree'
  BY <1>1, Before, JoinedNone, JoinedAgree
<1>. QED BY <1>1, <1>2, After DEF FocusInv

LEMMA MapRequestInv == ASSUME FocusInv, NEW c \in Clients, MapRequest(c) PROVE FocusInv'
<1>1. /\ c \in clients /\ minimized' = minimized \ {c}
      /\ UNCHANGED <<clients, desk, hidden, input, active, asked, current, count>>
      /\ chains' = Update(chains, c, "Update", active) /\ stale' = stale \ {c}
  BY DEF MapRequest, Updated
<1>2. WindowsTyped'
  BY <1>1, Before DEF WindowsTyped, OnDesktop
<1>3. Others(c)
  BY <1>1 DEF Others
<1>. QED BY <1>1, <1>2, <1>3, UpdatedInv DEF Changes

LEMMA GetWMHintsInv == ASSUME FocusInv, NEW c \in Clients, GetWMHints(c) PROVE FocusInv'
<1>1. /\ c \in clients /\ input' \in {input \ {c}, input \cup {c}} /\ stale' = stale \cup {c}
      /\ UNCHANGED <<clients, desk, minimized, hidden, active, asked, current, count, chains>>
  BY DEF GetWMHints
<1>2. WindowsTyped'
  BY <1>1, Before DEF WindowsTyped, OnDesktop
<1>3. Others(c)
  BY <1>1 DEF Others
<1>. QED BY <1>1, <1>2, <1>3, KeptInv

LEMMA MinimizeInv == ASSUME FocusInv, NEW c \in Clients, Minimize(c) PROVE FocusInv'
<1>. DEFINE act == IF c = active THEN None ELSE active
<1>1. /\ c \in clients /\ minimized' = minimized \cup {c}
      /\ UNCHANGED <<clients, desk, hidden, input, current, count>>
      /\ chains' = Update(chains, c, "MakeFirst", act) /\ stale' = stale \ {c}
      /\ ActivateNextClient(c)
  BY DEF Minimize, Updated
<1>. HIDE DEF act
<1>2. ChainsTyped'
  BY <1>1, UpdatedTyped DEF Changes
<1>3. /\ active' = IF c = active THEN None ELSE active
      /\ asked' \in clients' \cup {None} \/ (asked' = asked /\ asked # c)
  BY <1>1, <1>2, Before, NextTyped DEF WindowsTyped
<1>4. WindowsTyped'
  BY <1>1, <1>3, Before DEF WindowsTyped, OnDesktop
<1>5. Others(c)
  BY <1>1 DEF Others
<1>. QED BY <1>1, <1>4, <1>5, UpdatedInv DEF Changes

LEMMA UnminimizeInv == ASSUME FocusInv, NEW c \in Clients, Unminimize(c) PROVE FocusInv'
<1>1. /\ minimized' = minimized \ {c}
      /\ UNCHANGED <<clients, desk, hidden, input, active, asked, current, count, chains, stale>>
  BY DEF Unminimize
<1>2. WindowsTyped'
  BY <1>1, Before DEF WindowsTyped, OnDesktop
<1>3. Others(c)
  BY <1>1 DEF Others
<1>. QED BY <1>1, <1>2, <1>3, KeptInv

LEMMA HideTabInv == ASSUME FocusInv, NEW c \in Clients, HideTab(c) PROVE FocusInv'
<1>1. /\ c \in clients /\ hidden' = hidden \cup {c}
      /\ UNCHANGED <<clients, desk, minimized, input, active, asked, current, count>>
      /\ \/ UNCHANGED <<chains, stale>>
         \/ chains' = Update(chains, c, "MakeLast", active) /\ stale' = stale \ {c}
  BY DEF HideTab, Updated
<1>2. WindowsTyped'
  BY <1>1, Before DEF WindowsTyped, OnDesktop
<1>3. Others(c)
  BY <1>1 DEF Others
<1>4. CASE UNCHANGED <<chains, stale>>
  BY <1>1, <1>2, <1>3, <1>4, KeptInv
<1>5. CASE chains' = Update(chains, c, "MakeLast", active) /\ stale' = stale \ {c}
  BY <1>1, <1>2, <1>3, <1>5, UpdatedInv DEF Changes
<1>. QED BY <1>1, <1>4, <1>5

LEMMA ShowTabInv == ASSUME FocusInv, NEW c \in Clients, ShowTab(c) PROVE FocusInv'
<1>1. /\ c \in hidden /\ hidden' = hidden \ {c} /\ asked' = c
      /\ UNCHANGED <<clients, desk, minimized, input, active, current, count>>
      /\ chains' = Update(chains, c, "MakeFirst", active) /\ stale' = stale \ {c}
  BY DEF ShowTab, Updated
<1>2. c \in clients
  BY <1>1, Before DEF WindowsTyped
<1>3. WindowsTyped'
  BY <1>1, <1>2, Before DEF WindowsTyped, OnDesktop
<1>4. Others(c)
  BY <1>1 DEF Others
<1>. QED BY <1>1, <1>2, <1>3, <1>4, UpdatedInv DEF Changes

LEMMA FocusInInv == ASSUME FocusInv, NEW c \in Clients, FocusIn(c) PROVE FocusInv'
<1>1. /\ c \in clients /\ c \notin minimized /\ desk[c] \in {AllDesktops, current}
      /\ active' = c /\ asked' \in {None, asked}
      /\ UNCHANGED <<clients, desk, minimized, hidden, input, current, count>>
      /\ chains' = Update(chains, c, "MakeFirst", None) /\ stale' = stale \ {c}
  BY DEF FocusIn, Updated, Shown, OnDesktop
<1>2. WindowsTyped'
  BY <1>1, Before DEF WindowsTyped, OnDesktop
<1>3. Others(c)
  BY <1>1 DEF Others
<1>. QED BY <1>1, <1>2, <1>3, UpdatedInv DEF Changes

LEMMA FocusOutInv == ASSUME FocusInv, FocusOut PROVE FocusInv'
<1>1. /\ active' = None
      /\ UNCHANGED <<clients, desk, minimized, hidden, input, asked, current, count, chains, stale>>
  BY DEF FocusOut
<1>2. WindowsTyped'
  BY <1>1, Before DEF WindowsTyped, OnDesktop
<1>3. Others(None)
  BY <1>1 DEF Others
<1>. QED BY <1>1, <1>2, <1>3, KeptInv

LEMMA RestackWindowInv ==
    ASSUME FocusInv, NEW c \in Clients, NEW r \in Clients, RestackWindow(c, r)
    PROVE  FocusInv'
<1>1. /\ c \in clients /\ r \in clients
      /\ UNCHANGED <<clients, desk, minimized, hidden, input, active, asked, current, count, stale>>
  BY DEF RestackWindow
<1>2. PICK k \in References(c, r) : chains' = MoveAfterClient(chains, c, k)
  BY DEF RestackWindow
<1>3. k \in clients
  BY <1>1, ReferenceKnown
<1>4. /\ chains' \in [AllChains -> Orders(clients)]
      /\ Joined(chains, chains', c, AllChains)
  BY <1>1, <1>2, <1>3, Before, MoveAfterChains
<1>5. ChainsTyped'
  BY <1>1, <1>4 DEF ChainsTyped, AllChains
<1>6. WindowsTyped'
  BY <1>1, Before DEF WindowsTyped, OnDesktop
<1>7. Others(c)
  BY <1>1 DEF Others
<1>8. ChainsAgree'
  BY <1>1, <1>4, <1>5, <1>7, Before, JoinedAgree
<1>. QED BY <1>1, <1>5, <1>6, <1>8, After DEF FocusInv

LEMMA SetDesktopInv ==
    ASSUME FocusInv, NEW c \in Clients, NEW d, SetDesktop(c, d)
    PROVE  FocusInv'
<1>. DEFINE moved == Update(chains, c, "MakeFirst", active)
<1>1. /\ c \in clients /\ d \in {AllDesktops} \cup 1 .. count
      /\ desk' = [desk EXCEPT ![c] = d] /\ stale' = stale \ {c}
      /\ UNCHANGED <<clients, minimized, hidden, input, current, count>>
  BY DEF SetDesktop, Updated
<1>2. \/ /\ d \in {AllDesktops, current}
         /\ \/ chains' = moved
            \/ /\ active \notin {None, c}
               /\ \E ref \in References(c, active) : chains' = MoveAfterClient(moved, c, ref)
         /\ active' = active /\ asked' \in {asked, c}
      \/ d \notin {AllDesktops, current} /\ chains' = moved /\ ActivateNextClient(c)
  BY DEF SetDesktop
<1>3. /\ moved \in [AllChains -> Orders(clients)]
      /\ Rejoined(chains, moved, c, AllChains)
  BY <1>1, Before, UpdateChains DEF Changes
<1>. HIDE DEF moved
<1>4. ChainsTyped' /\ Rejoined(chains, chains', c, AllChains)
  <2>1. CASE chains' = moved
    BY <1>1, <1>3, <2>1 DEF ChainsTyped, AllChains
  <2>2. ASSUME active # None, NEW ref \in References(c, active),
               chains' = MoveAfterClient(moved, c, ref)
        PROVE  ChainsTyped' /\ Rejoined(chains, chains', c, AllChains)
    <3>1. ref \in clients
      BY <2>2, Before, ReferenceKnown DEF WindowsTyped
    <3>2. /\ chains' \in [AllChains -> Orders(clients)]
          /\ Joined(moved, chains', c, AllChains)
      BY <1>1, <1>3, <2>2, <3>1, Before, MoveAfterChains
    <3>3. ChainsTyped'
      BY <1>1, <3>2 DEF ChainsTyped, AllChains
    <3>4. Rejoined(chains, chains', c, AllChains)
      <4>. SUFFICES ASSUME NEW e \in AllChains
                    PROVE  ToSet(chains'[e]) = IF Belongs(c, e) THEN ToSet(chains[e]) \cup {c}
                                               ELSE ToSet(chains[e]) \ {c}
        BY DEF Rejoined
      <4>1. ToSet(moved[e]) = IF Belongs(c, e) THEN ToSet(chains[e]) \cup {c}
                              ELSE ToSet(chains[e]) \ {c}
        BY <1>3 DEF Rejoined
      <4>2. \/ ToSet(chains'[e]) = ToSet(moved[e])
            \/ Belongs(c, e) /\ ToSet(chains'[e]) = ToSet(moved[e]) \cup {c}
        BY <3>2 DEF Joined
      <4>. QED BY <4>1, <4>2
    <3>. QED BY <3>3, <3>4
  <2>. QED BY <1>2, <2>1, <2>2
<1>5. Others(c)
  BY <1>1, Before DEF Others, WindowsTyped
<1>6. ChainsAgree'
  BY <1>4, <1>5, Before, RejoinedAgree
<1>7. WindowsTyped'
  <2>1. CASE d \in {AllDesktops, current} /\ active' = active /\ asked' \in {asked, c}
    BY <1>1, <2>1, Before DEF WindowsTyped, OnDesktop, AllDesktops
  <2>2. CASE ActivateNextClient(c)
    <3>1. /\ active' = IF c = active THEN None ELSE active
          /\ asked' \in clients' \cup {None} \/ (asked' = asked /\ asked # c)
      BY <1>1, <1>4, <2>2, Before, NextTyped DEF WindowsTyped
    <3>. QED BY <1>1, <3>1, Before DEF WindowsTyped, OnDesktop, AllDesktops
  <2>. QED BY <1>2, <2>1, <2>2
<1>. QED BY <1>1, <1>4, <1>6, <1>7, After DEF FocusInv

LEMMA SetCurrentInv == ASSUME FocusInv, NEW d, SetCurrent(d) PROVE FocusInv'
<1>1. /\ d \in 1 .. count /\ current' = d
      /\ UNCHANGED <<clients, minimized, hidden, input, count>>
  BY DEF SetCurrent
<1>2. PICK moving \in {None, active} :
        /\ IF moving = None \/ desk[moving] \in {AllDesktops, d}
           THEN UNCHANGED <<desk, chains, stale>>
           ELSE /\ desk' = [desk EXCEPT ![moving] = d]
                /\ chains' = Update(chains, moving, "MakeFirst", active)
                /\ stale' = stale \ {moving}
        /\ IF moving # None /\ moving \in ToSet(chains'[d]) /\ moving \notin minimized \cup hidden
           THEN active' = moving /\ asked' = moving
           ELSE active' = None /\ asked' \in {asked, None}
  <2>1. \A k \in {None, active} : Shown(k) <=> k \notin minimized \cup hidden
    BY DEF Shown
  <2>. QED BY <2>1 DEF SetCurrent, OnDesktop, Updated
<1>3. moving # None => moving \in clients
  BY Before DEF WindowsTyped
<1>4. CASE moving = None \/ desk[moving] \in {AllDesktops, d}
  <2>1. UNCHANGED <<desk, chains, stale>>
    BY <1>2, <1>4
  <2>2. WindowsTyped'
    BY <1>1, <1>2, <1>3, <1>4, <2>1, Before DEF WindowsTyped, OnDesktop
  <2>3. Others(None)
    BY <1>1, <2>1 DEF Others
  <2>. QED BY <1>1, <2>1, <2>2, <2>3, KeptInv
<1>5. CASE ~(moving = None \/ desk[moving] \in {AllDesktops, d})
  <2>1. /\ moving \in clients /\ desk' = [desk EXCEPT ![moving] = d] /\ stale' = stale \ {moving}
        /\ chains' = Update(chains, moving, "MakeFirst", active)
    BY <1>2, <1>3, <1>5
  <2>2. WindowsTyped'
    BY <1>1, <1>2, <2>1, Before DEF WindowsTyped, OnDesktop, AllDesktops
  <2>3. Others(moving)
    BY <1>1, <2>1, Before DEF Others, WindowsTyped
  <2>. QED BY <1>1, <2>1, <2>2, <2>3, UpdatedInv DEF Changes
<1>. QED BY <1>4, <1>5

\* An order of a finite set names every member.
LEMMA OrderReachesAll ==
    ASSUME NEW S, IsFiniteSet(S), NEW order \in SetToSeqs(S)
    PROVE  /\ Cardinality(S) \in Nat /\ Len(order) = Cardinality(S)
           /\ order \in [1 .. Len(order) -> S]
           /\ \A c \in S : \E i \in 1 .. Len(order) : order[i] = c
<1>1. Cardinality(S) \in Nat
  BY FS_CardinalityType
<1>. DEFINE N == Cardinality(S)
            D == 1 .. N
<1>2. /\ order \in [D -> S] /\ \A i, j \in D : i # j => order[i] # order[j]
  BY DEF SetToSeqs
<1>3. order \in Injection(D, S)
  BY <1>2 DEF Injection, IsInjective
<1>4. Cardinality(D) = N
  BY <1>1, UptoCard
<1>5. order \in Surjection(D, S)
  <2>. HIDE DEF D
  <2>1. Cardinality(D) = Cardinality(S) <=> order \in Surjection(D, S)
    BY <1>3, FS_Injection
  <2>. QED BY <1>4, <2>1
<1>6. \A c \in S : \E i \in D : order[i] = c
  BY <1>5 DEF Surjection
<1>7. Len(order) = N
  BY <1>1, <1>2
<1>. QED BY <1>1, <1>2, <1>6, <1>7

\* What setCount() does to the chains for one window, and for those before the
\* i-th one of the order.
Sending(ch, c, ref) ==
    LET moved == Update(ch, c, "MakeFirst", active')
    IN  IF ref = None THEN moved ELSE MoveAfterClient(moved, c, ref)
IsSent(f, order, under) ==
    f = [i \in 0 .. Len(order) |->
            IF i = 0 THEN chains ELSE Sending(f[i - 1], order[i], under[order[i]])]
SentSoFar(ch, order, i) ==
    \A d \in AllChains, k \in clients :
        k \in ToSet(ch[d]) <=> IF \E j \in 1 .. i : order[j] = k THEN Belongs(k, d)
                               ELSE k \in ToSet(chains[d])

LEMMA SendingChains ==
    ASSUME clients \subseteq Clients, None \notin Clients, active' \in clients \cup {None},
           NEW ch \in [AllChains -> Orders(clients)], NEW c \in clients,
           NEW ref \in clients \cup {None}
    PROVE  /\ Sending(ch, c, ref) \in [AllChains -> Orders(clients)]
           /\ Rejoined(ch, Sending(ch, c, ref), c, AllChains)
<1>. DEFINE moved == Update(ch, c, "MakeFirst", active')
            new == MoveAfterClient(moved, c, ref)
<1>1. moved \in [AllChains -> Orders(clients)] /\ Rejoined(ch, moved, c, AllChains)
  BY UpdateChains DEF Changes
<1>2. Sending(ch, c, ref) = IF ref = None THEN moved ELSE new
  BY DEF Sending
<1>. HIDE DEF moved
<1>3. CASE ref = None
  BY <1>1, <1>2, <1>3
<1>4. CASE ref # None
  <2>1. ref \in clients
    BY <1>4
  <2>2. new \in [AllChains -> Orders(clients)] /\ Joined(moved, new, c, AllChains)
    BY <1>1, <2>1, MoveAfterChains
  <2>. HIDE DEF new
  <2>3. ASSUME NEW d \in AllChains
        PROVE  ToSet(new[d]) = IF Belongs(c, d) THEN ToSet(ch[d]) \cup {c}
                               ELSE ToSet(ch[d]) \ {c}
    <3>1. ToSet(moved[d]) = IF Belongs(c, d) THEN ToSet(ch[d]) \cup {c} ELSE ToSet(ch[d]) \ {c}
      BY <1>1 DEF Rejoined
    <3>2. \/ ToSet(new[d]) = ToSet(moved[d])
          \/ Belongs(c, d) /\ ToSet(new[d]) = ToSet(moved[d]) \cup {c}
      BY <2>2 DEF Joined
    <3>. QED BY <3>1, <3>2
  <2>4. Rejoined(ch, new, c, AllChains)
    BY <2>3 DEF Rejoined
  <2>. QED BY <1>2, <1>4, <2>2, <2>4
<1>. QED BY <1>3, <1>4

\* All windows of the order are sent.
LEMMA SentChains ==
    ASSUME clients \subseteq Clients, None \notin Clients, active' \in clients \cup {None},
           chains \in [AllChains -> Orders(clients)],
           NEW S \in SUBSET clients, NEW under \in [S -> clients \cup {None}],
           NEW order, Len(order) \in Nat, order \in [1 .. Len(order) -> S]
    PROVE  \E f : /\ IsSent(f, order, under)
                  /\ \A g : IsSent(g, order, under) =>
                        /\ g[Len(order)] \in [AllChains -> Orders(clients)]
                        /\ SentSoFar(g[Len(order)], order, Len(order))
<1>. DEFINE X == [AllChains -> Orders(clients)]
            N == Len(order)
            step == [i \in 1 .. N |-> [ch \in X |-> Sending(ch, order[i], under[order[i]])]]
<1>1. ASSUME NEW ch \in X, NEW i \in 1 .. N
      PROVE  /\ Sending(ch, order[i], under[order[i]]) \in X
             /\ Rejoined(ch, Sending(ch, order[i], under[order[i]]), order[i], AllChains)
  <2>1. order[i] \in clients /\ under[order[i]] \in clients \cup {None}
    OBVIOUS
  <2>. QED BY <2>1, SendingChains
<1>2. \E f : IsSent(f, order, under)
  <2>1. step \in [1 .. N -> [X -> X]]
    BY <1>1
  <2>2. chains \in X /\ N \in Nat
    OBVIOUS
  <2>3. PICK f : IsIteration(f, N, X, chains, step)
    <3>. HIDE DEF X, N, step
    <3>. QED BY <2>1, <2>2, Iterated
  <2>4. \A i \in 0 .. N : f[i] = IF i = 0 THEN chains ELSE Sending(f[i - 1], order[i], under[order[i]])
    <3>. SUFFICES ASSUME NEW i \in 0 .. N, i # 0
                  PROVE  f[i] = Sending(f[i - 1], order[i], under[order[i]])
      BY <2>3 DEF IsIteration
    <3>. HIDE DEF X
    <3>1. i \in 1 .. N /\ i - 1 \in 0 .. N /\ f \in [0 .. N -> X]
      <4>1. f \in [0 .. N -> X]
        <5>. HIDE DEF N, step
        <5>. QED BY <2>3 DEF IsIteration
      <4>2. N \in Nat /\ i \in 0 .. N /\ i # 0
        OBVIOUS
      <4>. HIDE DEF N
      <4>. QED BY <4>1, <4>2
    <3>2. f[i - 1] \in X
      BY <3>1
    <3>3. f[i] = step[i][f[i - 1]]
      <4>. HIDE DEF step
      <4>. QED BY <2>3 DEF IsIteration
    <3>. QED BY <3>1, <3>2, <3>3
  <2>5. f = [i \in 0 .. N |-> f[i]]
    BY <2>3 DEF IsIteration
  <2>6. f = [i \in 0 .. N |->
                IF i = 0 THEN chains ELSE Sending(f[i - 1], order[i], under[order[i]])]
    BY <2>4, <2>5, Zenon
  <2>. QED BY <2>6 DEF IsSent
<1>3. ASSUME NEW g, IsSent(g, order, under)
      PROVE  g[N] \in X /\ SentSoFar(g[N], order, N)
  <2>. HIDE DEF X
  <2>1. g[0] = chains /\ \A i \in 1 .. N : g[i] = Sending(g[i - 1], order[i], under[order[i]])
    BY <1>3 DEF IsSent
  <2>. DEFINE D == {i \in 0 .. N : g[i] \in X /\ SentSoFar(g[i], order, i)}
  <2>2. 0 \in D
    <3>1. chains \in X
      BY DEF X
    <3>2. SentSoFar(chains, order, 0)
      BY DEF SentSoFar
    <3>. QED BY <2>1, <3>1, <3>2
  <2>3. ASSUME NEW i \in 1 .. N, i - 1 \in D PROVE i \in D
    <3>. DEFINE c == order[i]
                old == g[i - 1]
    <3>1. old \in X /\ SentSoFar(old, order, i - 1)
      BY <2>3
    <3>2. g[i] = Sending(old, c, under[c])
      BY <2>1
    <3>. HIDE DEF c, old
    <3>3. g[i] \in X /\ Rejoined(old, g[i], c, AllChains)
      BY <1>1, <3>1, <3>2 DEF c
    <3>4. ASSUME NEW d \in AllChains, NEW k \in clients
          PROVE  k \in ToSet(g[i][d]) <=>
                    IF \E j \in 1 .. i : order[j] = k THEN Belongs(k, d)
                    ELSE k \in ToSet(chains[d])
      <4>1. ToSet(g[i][d]) = IF Belongs(c, d) THEN ToSet(old[d]) \cup {c} ELSE ToSet(old[d]) \ {c}
        BY <3>3 DEF Rejoined
      <4>2. k \in ToSet(old[d]) <=> IF \E j \in 1 .. i - 1 : order[j] = k THEN Belongs(k, d)
                                    ELSE k \in ToSet(chains[d])
        BY <3>1 DEF SentSoFar
      <4>3. (\E j \in 1 .. i : order[j] = k) <=> k = c \/ \E j \in 1 .. i - 1 : order[j] = k
        BY DEF c
      <4>4. CASE k = c
        BY <4>1, <4>3, <4>4
      <4>5. CASE k # c
        BY <4>1, <4>2, <4>3, <4>5
      <4>. QED BY <4>4, <4>5
    <3>5. SentSoFar(g[i], order, i)
      BY <3>4 DEF SentSoFar
    <3>. QED BY <3>3, <3>5
  <2>4. D = 0 .. N
    <3>1. D \in SUBSET (0 .. N) /\ N \in Nat
      OBVIOUS
    <3>. HIDE DEF D, N
    <3>. QED BY <2>2, <2>3, <3>1, Climb
  <2>5. N \in D
    BY <2>4
  <2>. QED BY <2>5
<1>. QED BY <1>2, <1>3

LEMMA SetCountInv == ASSUME FocusInv, NEW n, SetCount(n) PROVE FocusInv'
<1>. DEFINE gone == {c \in clients : desk[c] > n}
            Final(order, under) == CHOOSE f : IsSent(f, order, under)
<1>1. /\ n \in 1 .. MaxDesktops /\ n # count /\ count' = n
      /\ current' = IF current > n THEN n ELSE current
      /\ active' = IF current > n THEN None ELSE active
      /\ asked' \in {asked, None}
      /\ UNCHANGED <<clients, minimized, hidden, input>>
      /\ desk' = [c \in Clients |-> IF desk[c] > n THEN n ELSE desk[c]]
      /\ stale' = IF n > count THEN stale \cup {c \in clients : desk[c] = AllDesktops}
                  ELSE {c \in stale : desk[c] <= n}
  BY DEF SetCount
<1>2. PICK order \in SetToSeqs(gone), under \in [gone -> clients \cup {None}] :
         chains' = Resize(Final(order, under)[Len(order)], n)
  BY DEF SetCount, IsSent, Sending
<1>3. /\ Len(order) \in Nat /\ order \in [1 .. Len(order) -> gone]
      /\ \A c \in gone : \E i \in 1 .. Len(order) : order[i] = c
  <2>1. IsFiniteSet(gone)
    BY FS_Subset DEF FocusInv
  <2>. HIDE DEF gone
  <2>. QED BY <2>1, OrderReachesAll
<1>4. active' \in clients \cup {None}
  BY <1>1, Before DEF WindowsTyped
<1>. DEFINE ch == Final(order, under)[Len(order)]
<1>5. ch \in [AllChains -> Orders(clients)] /\ SentSoFar(ch, order, Len(order))
  <2>1. gone \in SUBSET clients
    OBVIOUS
  <2>2. /\ \E f : IsSent(f, order, under)
        /\ \A g : IsSent(g, order, under) =>
              /\ g[Len(order)] \in [AllChains -> Orders(clients)]
              /\ SentSoFar(g[Len(order)], order, Len(order))
    BY <1>3, <1>4, <2>1, Before, SentChains
  <2>3. IsSent(Final(order, under), order, under)
    BY <2>2
  <2>. HIDE DEF Final
  <2>. QED BY <2>2, <2>3
<1>6. \A d \in AllChains, k \in clients :
         k \in ToSet(ch[d]) <=> IF k \in gone THEN Belongs(k, d) ELSE k \in ToSet(chains[d])
  <2>. HIDE DEF ch
  <2>1. \A k : (\E j \in 1 .. Len(order) : order[j] = k) <=> k \in gone
    <3>. HIDE DEF gone
    <3>. QED BY <1>3
  <2>. HIDE DEF gone
  <2>. QED BY <1>5, <2>1 DEF SentSoFar
<1>7. chains' = [d \in {Recent} \cup 1 .. n |-> IF d \in AllChains THEN ch[d] ELSE <<>>]
  <2>1. chains' = Resize(ch, n)
    BY <1>2
  <2>. HIDE DEF ch
  <2>. QED BY <1>5, <2>1 DEF Resize
<1>. HIDE DEF ch
<1>8. ChainsTyped'
  <2>1. <<>> \in Orders(clients)
    <3>1. <<>> \in Seq(clients) /\ DOMAIN <<>> = {}
      OBVIOUS
    <3>. QED BY <3>1 DEF Orders, IsInjective
  <2>. QED BY <1>1, <1>5, <1>7, <2>1 DEF ChainsTyped
<1>9. WindowsTyped'
  <2>1. /\ count \in 1 .. MaxDesktops /\ current \in 1 .. count /\ desk \in [Clients -> 0 .. count]
        /\ clients \subseteq Clients /\ None \notin Clients
        /\ MaxDesktops \in Nat
        /\ minimized \cup hidden \cup input \cup stale \subseteq clients
        /\ active \in clients \cup {None} /\ asked \in clients \cup {None}
    BY Before DEF WindowsTyped
  <2>2. count' \in 1 .. MaxDesktops /\ current' \in 1 .. count'
    BY <1>1, <2>1
  <2>3. desk' \in [Clients -> 0 .. count']
    BY <1>1, <2>1
  <2>4. minimized' \cup hidden' \cup input' \cup stale' \subseteq clients'
    BY <1>1, <2>1
  <2>5. active' # None => active' \notin minimized' /\ desk'[active'] \in {AllDesktops, current'}
    BY <1>1, <2>1, Before DEF WindowsTyped, OnDesktop, AllDesktops
  <2>. QED BY <1>1, <1>4, <2>1, <2>2, <2>3, <2>4, <2>5 DEF WindowsTyped, OnDesktop
<1>10. ChainsAgree'
  <2>. SUFFICES ASSUME NEW d \in {Recent} \cup 1 .. n, NEW k \in clients
                PROVE  /\ k \in ToSet(chains'[d]) => d = Recent \/ desk'[k] \in {AllDesktops, d}
                       /\ k \notin stale' => (k \in ToSet(chains'[d]) <=> Belongs(k, d))
    BY <1>1, <1>7 DEF ChainsAgree, OnDesktop, Belongs
  <2>1. /\ n \in Nat /\ count \in Nat /\ k \in Clients /\ desk[k] \in 0 .. count
        /\ desk'[k] = IF desk[k] > n THEN n ELSE desk[k]
        /\ (k \in input' <=> k \in input)
    BY <1>1, Before DEF WindowsTyped
  <2>2. CASE d \in AllChains
    <3>1. k \in ToSet(chains'[d]) <=>
             IF k \in gone THEN Belongs(k, d) ELSE k \in ToSet(chains[d])
      BY <1>6, <1>7, <2>2
    <3>2. CASE k \in gone
      BY <3>1, <3>2 DEF Belongs
    <3>3. CASE k \notin gone
      <4>1. desk'[k] = desk[k] /\ (k \in stale => k \in stale')
        BY <1>1, <2>1, <3>3
      <4>2. /\ k \in ToSet(chains[d]) => d = Recent \/ desk[k] \in {AllDesktops, d}
            /\ k \notin stale =>
                  (k \in ToSet(chains[d]) <=>
                      (d = Recent \/ desk[k] \in {AllDesktops, d}) /\ k \in input)
        BY <2>2, Before DEF ChainsAgree, ChainsTyped, OnDesktop, AllChains
      <4>. QED BY <2>1, <3>1, <3>3, <4>1, <4>2 DEF Belongs
    <3>. QED BY <3>2, <3>3
  <2>3. CASE d \notin AllChains
    <3>1. d > count /\ d # Recent /\ d \in 1 .. n /\ n > count
      BY <2>1, <2>3 DEF AllChains, Recent
    <3>2. chains'[d] = <<>>
      BY <1>7, <2>3
    <3>3. ToSet(chains'[d]) = {}
      BY <3>2 DEF ToSet
    <3>4. k \notin stale' => ~(desk'[k] \in {AllDesktops, d})
      BY <1>1, <2>1, <3>1
    <3>. QED BY <3>1, <3>3, <3>4 DEF Belongs
  <2>. QED BY <2>2, <2>3
<1>. QED BY <1>1, <1>8, <1>9, <1>10, After DEF FocusInv

LEMMA NextInv == FocusInv /\ [Next]_vars => FocusInv'
<1>. SUFFICES ASSUME FocusInv, [Next]_vars PROVE FocusInv'
  OBVIOUS
<1>1. CASE UNCHANGED vars
  BY <1>1 DEF vars, FocusInv, TypeOK, ChainsAgree, OnDesktop
<1>2. ASSUME NEW c \in Clients,
             \/ Manage(c) \/ Release(c) \/ MapRequest(c) \/ GetWMHints(c)
             \/ Minimize(c) \/ Unminimize(c) \/ HideTab(c) \/ ShowTab(c) \/ FocusIn(c)
      PROVE  FocusInv'
  BY <1>2, ManageInv, ReleaseInv, MapRequestInv, GetWMHintsInv, MinimizeInv, UnminimizeInv,
     HideTabInv, ShowTabInv, FocusInInv
<1>3. ASSUME NEW c \in Clients, NEW d \in 0 .. MaxDesktops, SetDesktop(c, d) PROVE FocusInv'
  BY <1>3, SetDesktopInv
<1>4. ASSUME NEW c \in Clients, NEW ref \in Clients, RestackWindow(c, ref) PROVE FocusInv'
  BY <1>4, RestackWindowInv
<1>5. ASSUME NEW d \in 1 .. MaxDesktops, SetCurrent(d) \/ SetCount(d) PROVE FocusInv'
  BY <1>5, SetCurrentInv, SetCountInv
<1>. QED BY <1>1, <1>2, <1>3, <1>4, <1>5, FocusOutInv DEF Next

LEMMA InitInv == Init => FocusInv
<1>. SUFFICES ASSUME Init PROVE FocusInv
  OBVIOUS
<1>. USE DEF Init
<1>1. MaxDesktops \in Nat \ {0}
  BY ClientsAssumption
<1>2. chains = [d \in {Recent} \cup 1 .. count |-> <<>>]
  OBVIOUS
<1>3. \A d \in {Recent} \cup 1 .. count : chains[d] = <<>>
  BY <1>2
<1>4. <<>> \in Seq({}) /\ IsInjective(<<>>)
  BY DEF IsInjective
<1>5. chains \in [{Recent} \cup 1 .. count -> Seq(clients)]
  BY <1>2, <1>4
<1>6. TypeOK
  BY <1>1, <1>2, <1>3, <1>4, <1>5 DEF TypeOK, AllDesktops
<1>7. ChainsAgree
  BY DEF ChainsAgree
<1>8. IsFiniteSet(clients)
  BY FS_EmptySet
<1>. QED BY <1>6, <1>7, <1>8 DEF FocusInv

\* Whatever events come, in whatever order, the chains are what the other parts of
\* kwin take them for.
THEOREM FocusInvariant == Spec => []FocusInv
BY InitInv, NextInv, PTL DEF Spec

\* focuschain.cpp: there is a chain for every desktop and one for all windows, no
\* chain names a window twice or one that is gone, and the active window is one that
\* is on the desktop that is shown and is not minimized.
THEOREM TypeCorrect == Spec => []TypeOK
<1>1. FocusInv => TypeOK
  BY DEF FocusInv
<1>. QED BY <1>1, FocusInvariant, PTL

\* focuschain.h: the chain of a desktop holds the windows on it that want the focus,
\* and that of the most recently used ones all of them, but for those that changed
\* since their last update(); and no chain holds a window of another desktop.
THEOREM ChainsStayInStep == Spec => []ChainsAgree
<1>1. FocusInv => ChainsAgree
  BY DEF FocusInv
<1>. QED BY <1>1, FocusInvariant, PTL

--------------------------------------------------------------------------------
(* The next window                                                          *)

\* The windows that can be seen after the event, but for c.
SeenNext(c) ==
    {k \in clients' \ {c} : k \notin minimized' \cup hidden' /\ desk'[k] \in {AllDesktops, current'}}

LEMMA ActivatedNext ==
    ASSUME FocusInv', NEW c, c = active, ActivateNextClient(c)
    PROVE  /\ active' = None
           /\ asked' \in SeenNext(c) \/ (SeenNext(c) \cap input') \ stale' = {}
<1>1. /\ active' = IF c = active THEN None ELSE active
      /\ asked' = IF c \in {active, asked} THEN Asks(c) ELSE asked
  BY DEF ActivateNextClient, Asks
<1>2. WindowsTyped' /\ ChainsTyped' /\ ChainsAgree'
  BY TypePartsNext DEF FocusInv
<1>. DEFINE D == {Recent} \cup 1 .. count'
            S == clients'
            l == chains'[current']
<1>3. chains' \in [D -> Orders(S)] /\ current' \in D /\ current' # Recent
  BY <1>2, ClientsAssumption DEF ChainsTyped, WindowsTyped, Recent
<1>4. chains' \in [D -> Seq(S)] /\ ToSet(l) \subseteq S
  <2>1. l \in Orders(S)
    BY <1>3
  <2>. QED BY <1>3, <2>1, OrderMembers DEF Orders
<1>5. \/ Asks(c) = None /\ \A k \in ToSet(l) : ~CouldAsk(k, c)
      \/ Asks(c) \in ToSet(l) /\ CouldAsk(Asks(c), c)
  <2>. HIDE DEF D, S
  <2>. QED BY <1>3, <1>4, NextFound
<1>6. ASSUME NEW k \in SeenNext(c), k \in input', k \notin stale'
      PROVE  k \in ToSet(l) /\ CouldAsk(k, c)
  <2>1. k \in ToSet(l)
    BY <1>2, <1>3, <1>6 DEF ChainsAgree, OnDesktop, SeenNext
  <2>. QED BY <2>1 DEF SeenNext, CouldAsk
<1>. HIDE DEF l
<1>7. CASE \A k \in ToSet(l) : ~CouldAsk(k, c)
  BY <1>1, <1>6, <1>7
<1>8. CASE Asks(c) \in ToSet(l) /\ CouldAsk(Asks(c), c)
  BY <1>1, <1>4, <1>8 DEF SeenNext, CouldAsk
<1>. QED BY <1>5, <1>7, <1>8

\* Only in three ways the active window leaves what is seen, and then another one
\* is looked for.
LEMMA ActiveGoes ==
    ASSUME FocusInv, Next, active \in clients, current' = current,
           active \notin clients' \/ active \in minimized'
               \/ desk'[active] \notin {AllDesktops, current}
    PROVE  ActivateNextClient(active)
<1>1. /\ active \notin minimized /\ desk[active] \in {AllDesktops, current}
      /\ desk \in [Clients -> 0 .. count] /\ active \in Clients /\ active # None
      /\ count \in Nat /\ current \in 1 .. count
  <2>1. active # None
    BY Before
  <2>. QED BY <2>1, Before DEF WindowsTyped, OnDesktop
<1>2. ASSUME NEW c \in Clients,
             \/ Manage(c) \/ MapRequest(c) \/ GetWMHints(c)
             \/ Unminimize(c) \/ HideTab(c) \/ ShowTab(c) \/ FocusIn(c)
      PROVE  FALSE
  <2>1. /\ clients \subseteq clients' /\ minimized' \subseteq minimized \cup (clients' \ clients)
        /\ \A k \in clients : desk'[k] = desk[k]
    BY <1>2, Before DEF WindowsTyped, Manage, MapRequest, GetWMHints, Unminimize, HideTab, ShowTab, FocusIn
  <2>. QED BY <1>1, <2>1
<1>3. ASSUME NEW c \in Clients, Release(c) \/ Minimize(c) PROVE ActivateNextClient(active)
  <2>1. ActivateNextClient(c) /\ c = active
    BY <1>1, <1>3 DEF Release, Minimize
  <2>. QED BY <2>1
<1>4. ASSUME NEW c \in Clients, NEW d \in 0 .. MaxDesktops, SetDesktop(c, d)
      PROVE  ActivateNextClient(active)
  <2>1. clients' = clients /\ minimized' = minimized /\ desk' = [desk EXCEPT ![c] = d]
    BY <1>4 DEF SetDesktop
  <2>2. c = active /\ d \notin {AllDesktops, current}
    BY <1>1, <2>1
  <2>. QED BY <1>4, <2>2 DEF SetDesktop
<1>5. ASSUME NEW c \in Clients, NEW ref \in Clients, RestackWindow(c, ref) PROVE FALSE
  BY <1>1, <1>5 DEF RestackWindow
<1>6. ASSUME FocusOut PROVE FALSE
  BY <1>1, <1>6 DEF FocusOut
<1>7. ASSUME NEW d \in 1 .. MaxDesktops, SetCurrent(d) PROVE FALSE
  BY <1>7 DEF SetCurrent
<1>8. ASSUME NEW d \in 1 .. MaxDesktops, SetCount(d) PROVE FALSE
  <2>1. /\ clients' = clients /\ minimized' = minimized
        /\ current' = IF current > d THEN d ELSE current
        /\ desk' = [c \in Clients |-> IF desk[c] > d THEN d ELSE desk[c]]
    BY <1>8 DEF SetCount
  <2>2. ~(current > d) /\ d \in Nat
    BY <1>1, <2>1
  <2>3. ~(desk[active] > d)
    BY <1>1, <2>2 DEF AllDesktops
  <2>. QED BY <1>1, <2>1, <2>3
<1>. QED BY <1>2, <1>3, <1>4, <1>5, <1>6, <1>7, <1>8 DEF Next

\* activation.cpp: when the active window is minimized, goes to another desktop or
\* ends, a window that can be seen is told to take the focus, if there is one that
\* wants it and whose update() is not overdue.
THEOREM FocusIsPassedOn == Spec => FocusPassedOn
<1>1. FocusInv /\ FocusInv' /\ [Next]_vars =>
        [ \A c \in clients \ hidden :
          /\ active = c /\ current' = current
          /\ c \notin clients' \/ c \in minimized' \/ ~OnDesktop(c, current)'
          => /\ active' = None
             /\ LET Visible == {k \in clients \ {c} : Shown(k) /\ OnDesktop(k, current)}
                IN  asked' \in Visible' \/ ((Visible \cap input) \ stale)' = {} ]_vars
  <2>. SUFFICES ASSUME FocusInv, FocusInv', Next, NEW c \in clients \ hidden,
                       active = c, current' = current,
                       c \notin clients' \/ c \in minimized' \/ ~OnDesktop(c, current)'
                PROVE  /\ active' = None
                       /\ LET Visible == {k \in clients \ {c} : Shown(k) /\ OnDesktop(k, current)}
                          IN  asked' \in Visible' \/ ((Visible \cap input) \ stale)' = {}
    OBVIOUS
  <2>1. ActivateNextClient(active)
    BY ActiveGoes DEF OnDesktop
  <2>2. /\ active' = None
        /\ asked' \in SeenNext(c) \/ (SeenNext(c) \cap input') \ stale' = {}
    BY <2>1, ActivatedNext
  <2>. QED BY <2>2 DEF SeenNext, Shown, OnDesktop
<1>. QED BY <1>1, FocusInvariant, PTL DEF Spec, FocusPassedOn

--------------------------------------------------------------------------------
(* The first window of a chain                                              *)

FirstIs(l, a) == l # <<>> /\ Last(l) = a

LEMMA FirstPlace ==
    ASSUME NEW S, NEW l \in Orders(S), NEW a, FirstIs(l, a)
    PROVE  /\ l \in Seq(S) /\ Len(l) \in Nat /\ Len(l) # 0 /\ l[Len(l)] = a
           /\ a \in ToSet(l)
<1>1. l \in Seq(S) /\ Len(l) \in Nat /\ Len(l) # 0 /\ l[Len(l)] = a
  BY DEF Orders, FirstIs, Last
<1>2. Len(l) \in DOMAIN l
  BY <1>1
<1>. QED BY <1>1, <1>2 DEF ToSet

LEMMA RemovedKeepsFirst ==
    ASSUME NEW S, NEW l \in Orders(S), NEW a, FirstIs(l, a), NEW c, c # a
    PROVE  FirstIs(Removed(l, c), a)
<1>1. /\ l \in Seq(S) /\ Len(l) \in Nat /\ Len(l) # 0 /\ l[Len(l)] = a
      /\ \A i, j \in 1 .. Len(l) : l[i] = l[j] => i = j
  BY FirstPlace DEF Orders, IsInjective
<1>. DEFINE r == Removed(l, c)
<1>2. \E p \in 1 .. Len(l) + 1 : /\ p <= Len(l) => l[p] = c
                                 /\ \A j \in 1 .. Len(l) : j # p => l[j] # c
  <2>1. CASE \E p \in 1 .. Len(l) : l[p] = c
    <3>1. PICK p \in 1 .. Len(l) : l[p] = c
      BY <2>1
    <3>2. p \in 1 .. Len(l) + 1
      BY <1>1
    <3>3. \A j \in 1 .. Len(l) : j # p => l[j] # c
      BY <1>1, <3>1
    <3>. QED BY <3>1, <3>2, <3>3
  <2>2. CASE ~ \E p \in 1 .. Len(l) : l[p] = c
    <3>1. Len(l) + 1 \in 1 .. Len(l) + 1 /\ ~(Len(l) + 1 <= Len(l))
      BY <1>1
    <3>. QED BY <2>2, <3>1
  <2>. QED BY <2>1, <2>2
<1>3. PICK p \in 1 .. Len(l) + 1 : /\ p <= Len(l) => l[p] = c
                                   /\ \A j \in 1 .. Len(l) : j # p => l[j] # c
  BY <1>2
<1>4. /\ r \in Seq(S) /\ Len(r) = IF p <= Len(l) THEN Len(l) - 1 ELSE Len(l)
      /\ \A i \in 1 .. Len(r) : r[i] = IF i < p THEN l[i] ELSE l[i + 1]
  BY <1>1, <1>3, RemovedAt
<1>5. p # Len(l)
  BY <1>1, <1>3
<1>. HIDE DEF r
<1>6. Len(r) # 0
  BY <1>1, <1>3, <1>4, <1>5
<1>7. r[Len(r)] = a
  BY <1>1, <1>4, <1>5, <1>6
<1>8. r # <<>>
  BY <1>6
<1>. QED BY <1>7, <1>8 DEF FirstIs, Last, r

LEMMA InsertedKeepsFirst ==
    ASSUME NEW S, NEW l \in Orders(S), NEW a, FirstIs(l, a), NEW c, NEW m \in Seq(S),
           NEW i \in 1 .. Len(l), IsInserted(m, l, i, c)
    PROVE  FirstIs(m, a)
<1>1. /\ Len(l) \in Nat /\ Len(l) # 0 /\ l[Len(l)] = a
  BY FirstPlace
<1>2. Len(m) = Len(l) + 1 /\ m[Len(m)] = l[Len(l)]
  BY <1>1 DEF IsInserted
<1>. QED BY <1>1, <1>2 DEF FirstIs, Last

\* A window that is taken out of a chain and put back elsewhere leaves the others
\* in their order.
LEMMA PutBack ==
    ASSUME NEW S, NEW l \in Orders(S), NEW c, NEW m \in Seq(S), c \notin ToSet(l),
           NEW i \in 1 .. Len(l) + 1, IsInserted(m, l, i, c)
    PROVE  Removed(m, c) = l
<1>1. /\ l \in Seq(S) /\ Len(l) \in Nat /\ \A j \in 1 .. Len(l) : l[j] # c
  BY DEF Orders, ToSet
<1>2. /\ Len(m) = Len(l) + 1
      /\ \A j \in 1 .. Len(l) + 1 :
            m[j] = IF j < i THEN l[j] ELSE IF j = i THEN c ELSE l[j - 1]
  BY DEF IsInserted
<1>3. /\ i \in 1 .. Len(m) + 1 /\ i <= Len(m) /\ m[i] = c
      /\ \A j \in 1 .. Len(m) : j # i => m[j] # c
  BY <1>1, <1>2
<1>. DEFINE r == Removed(m, c)
<1>4. /\ r \in Seq(S) /\ Len(r) = Len(m) - 1
      /\ \A j \in 1 .. Len(r) : r[j] = IF j < i THEN m[j] ELSE m[j + 1]
  BY <1>3, RemovedAt
<1>. HIDE DEF r
<1>5. Len(r) = Len(l) /\ \A j \in 1 .. Len(r) : r[j] = l[j]
  BY <1>1, <1>2, <1>4
<1>6. r = l
  BY <1>1, <1>4, <1>5, SeqEqual
<1>. QED BY <1>6 DEF r

LEMMA RemovedTwice ==
    ASSUME NEW S, NEW l \in Orders(S), NEW c
    PROVE  Removed(Removed(l, c), c) = Removed(l, c)
<1>. DEFINE r == Removed(l, c)
<1>1. r \in Orders(S) /\ c \notin ToSet(r)
  BY RemovedOrder
<1>. HIDE DEF r
<1>2. /\ r \in Seq(S) /\ Len(r) \in Nat /\ \A j \in 1 .. Len(r) : r[j] # c
  BY <1>1 DEF Orders, ToSet
<1>. DEFINE p == Len(r) + 1
            q == Removed(r, c)
<1>3. /\ p \in 1 .. Len(r) + 1 /\ ~(p <= Len(r))
      /\ \A j \in 1 .. Len(r) : j # p => r[j] # c /\ j < p
  BY <1>2
<1>. HIDE DEF p
<1>4. /\ q \in Seq(S) /\ Len(q) = Len(r)
      /\ \A i \in 1 .. Len(q) : q[i] = IF i < p THEN r[i] ELSE r[i + 1]
  BY <1>2, <1>3, RemovedAt
<1>. HIDE DEF q
<1>5. \A i \in 1 .. Len(q) : q[i] = r[i]
  BY <1>3, <1>4 DEF p
<1>6. q = r
  BY <1>2, <1>4, <1>5, SeqEqual
<1>. QED BY <1>6 DEF q, r

\* What may be done to c, of the windows that are not the active one a, without it
\* getting before a.
Modest(c, a, change) ==
    \/ change \in {"Update", "MakeLast"}
    \/ change = "MakeFirst" /\ c \in minimized' /\ a \notin minimized'

LEMMA InsertKeepsFirst ==
    ASSUME NEW S, NEW l \in Orders(S), NEW a, FirstIs(l, a), NEW c \in S, c # a
    PROVE  FirstIs(InsertClientIntoChain(l, c, a), a)
<1>1. /\ l \in Seq(S) /\ Len(l) \in Nat /\ Len(l) # 0
  BY FirstPlace
<1>2. CASE c \in ToSet(l)
  BY <1>2 DEF InsertClientIntoChain
<1>3. CASE c \notin ToSet(l)
  <2>1. InsertClientIntoChain(l, c, a) = InsertAt(l, Len(l), c)
    BY <1>3 DEF InsertClientIntoChain, FirstIs
  <2>. DEFINE m == InsertAt(l, Len(l), c)
              i == Len(l)
  <2>2. i \in 1 .. Len(l) /\ i \in 1 .. Len(l) + 1
    BY <1>1
  <2>3. m \in Seq(S) /\ IsInserted(m, l, i, c)
    BY <1>1, <2>2, InsertAtInserts
  <2>. HIDE DEF m, i
  <2>4. FirstIs(m, a)
    BY <2>2, <2>3, InsertedKeepsFirst
  <2>. QED BY <2>1, <2>4 DEF m
<1>. QED BY <1>2, <1>3

LEMMA UpdateInKeepsFirst ==
    ASSUME NEW S, NEW l \in Orders(S), NEW a, FirstIs(l, a), NEW c \in S, c # a,
           NEW change, Modest(c, a, change)
    PROVE  FirstIs(UpdateClientInChain(l, c, change, a), a)
<1>. DEFINE rest == Removed(l, c)
<1>1. rest \in Orders(S) /\ FirstIs(rest, a)
  BY RemovedOrder, RemovedKeepsFirst
<1>. HIDE DEF rest
<1>2. rest \in Seq(S) /\ Len(rest) \in Nat /\ Len(rest) # 0 /\ rest[Len(rest)] = a /\ rest # <<>>
  BY <1>1, FirstPlace DEF FirstIs
<1>3. CASE change = "Update"
  BY <1>3, InsertKeepsFirst DEF UpdateClientInChain
<1>4. CASE change = "MakeLast"
  <2>. DEFINE m == <<c>> \o rest
  <2>1. m \in Seq(S) /\ IsInserted(m, rest, 1, c) /\ 1 \in 1 .. Len(rest)
    BY <1>2, PrefixInserts
  <2>2. UpdateClientInChain(l, c, change, a) = m
    BY <1>4 DEF UpdateClientInChain, MakeLastInChain, rest
  <2>. HIDE DEF m
  <2>3. \E i \in 1 .. Len(rest) : IsInserted(m, rest, i, c)
    BY <2>1
  <2>4. FirstIs(m, a)
    BY <1>1, <2>1, <2>3, InsertedKeepsFirst
  <2>. QED BY <2>2, <2>4
<1>5. CASE change = "MakeFirst" /\ c \in minimized' /\ a \notin minimized'
  <2>. DEFINE i == Above(rest, minimized')
              m == InsertAt(rest, i, c)
  <2>1. i \in 1 .. Len(rest)
    BY <1>2, <1>5, AboveBounds
  <2>2. i \in 1 .. Len(rest) + 1
    BY <1>2, <2>1
  <2>. HIDE DEF i
  <2>3. m \in Seq(S) /\ IsInserted(m, rest, i, c)
    BY <1>2, <2>2, InsertAtInserts
  <2>4. UpdateClientInChain(l, c, change, a) = m
    BY <1>5 DEF UpdateClientInChain, MakeFirstInChain, rest, i
  <2>. HIDE DEF m
  <2>5. FirstIs(m, a)
    BY <1>1, <2>1, <2>3, InsertedKeepsFirst
  <2>. QED BY <2>4, <2>5
<1>. QED BY <1>3, <1>4, <1>5 DEF Modest

LEMMA UpdateKeepsFirst ==
    ASSUME NEW S, NEW D, NEW ch \in [D -> Orders(S)], NEW d \in D, NEW a, FirstIs(ch[d], a),
           NEW c \in S, c # a, NEW change, Modest(c, a, change)
    PROVE  FirstIs(Update(ch, c, change, a)[d], a)
<1>. DEFINE l == ch[d]
<1>1. l \in Orders(S)
  OBVIOUS
<1>2. Update(ch, c, change, a)[d] \in
         {Removed(l, c), UpdateClientInChain(l, c, change, a), InsertClientIntoChain(l, c, a)}
  BY DEF Update
<1>3. FirstIs(l, a)
  OBVIOUS
<1>. HIDE DEF l
<1>. QED BY <1>1, <1>2, <1>3, RemovedKeepsFirst, UpdateInKeepsFirst, InsertKeepsFirst

LEMMA MoveInKeepsFirst ==
    ASSUME NEW S, S \subseteq Clients, NEW l \in Orders(S), NEW a, FirstIs(l, a),
           NEW c \in S, c # a, NEW ref \in S
    PROVE  FirstIs(MoveAfterClientInChain(l, c, ref), a)
<1>. DEFINE rest == Removed(l, c)
            m == MoveAfterClientInChain(l, c, ref)
<1>1. rest \in Orders(S) /\ FirstIs(rest, a)
  BY RemovedOrder, RemovedKeepsFirst
<1>2. IF ref \in ToSet(l)
      THEN \E i \in 1 .. Len(rest) + 1 : /\ m \in Seq(S) /\ IsInserted(m, rest, i, c)
                                         /\ i = 1 \/ i <= Len(rest)
      ELSE m = l
  BY MoveInserts
<1>. HIDE DEF rest, m
<1>3. Len(rest) \in Nat /\ Len(rest) # 0
  BY <1>1, FirstPlace
<1>4. CASE ref \in ToSet(l)
  <2>1. \E i \in 1 .. Len(rest) : m \in Seq(S) /\ IsInserted(m, rest, i, c)
    BY <1>2, <1>3, <1>4
  <2>2. FirstIs(m, a)
    BY <1>1, <2>1, InsertedKeepsFirst
  <2>. QED BY <2>2 DEF m
<1>. QED BY <1>2, <1>4 DEF m

LEMMA MoveKeepsFirst ==
    ASSUME NEW S, S \subseteq Clients, NEW D, NEW ch \in [D -> Orders(S)], NEW d \in D,
           NEW a, FirstIs(ch[d], a), NEW c \in S, c # a, NEW ref \in S
    PROVE  FirstIs(MoveAfterClient(ch, c, ref)[d], a)
<1>. DEFINE l == ch[d]
<1>1. l \in Orders(S) /\ FirstIs(l, a)
  OBVIOUS
<1>2. MoveAfterClient(ch, c, ref)[d] \in {l, MoveAfterClientInChain(l, c, ref)}
  BY DEF MoveAfterClient
<1>. HIDE DEF l
<1>. QED BY <1>1, <1>2, MoveInKeepsFirst

\* The active window itself may go down, as long as the others keep their order.
LEMMA MoveOfActive ==
    ASSUME NEW S, S \subseteq Clients, NEW D, NEW ch \in [D -> Orders(S)], NEW d \in D,
           NEW a \in S, NEW ref \in S
    PROVE  Removed(MoveAfterClient(ch, a, ref)[d], a) = Removed(ch[d], a)
<1>. DEFINE l == ch[d]
            rest == Removed(l, a)
            m == MoveAfterClientInChain(l, a, ref)
<1>1. l \in Orders(S)
  OBVIOUS
<1>2. MoveAfterClient(ch, a, ref)[d] \in {l, m}
  BY DEF MoveAfterClient
<1>. HIDE DEF l
<1>3. rest \in Orders(S) /\ a \notin ToSet(rest)
  BY <1>1, RemovedOrder
<1>4. IF ref \in ToSet(l)
      THEN \E i \in 1 .. Len(rest) + 1 : m \in Seq(S) /\ IsInserted(m, rest, i, a)
      ELSE m = l
  BY <1>1, MoveInserts
<1>5. Removed(m, a) = rest
  <2>1. CASE ref \in ToSet(l)
    <3>. HIDE DEF rest, m
    <3>. QED BY <1>3, <1>4, <2>1, PutBack
  <2>. QED BY <1>4, <2>1
<1>. HIDE DEF m
<1>. QED BY <1>2, <1>5 DEF l

LEMMA UpdateOfActive ==
    ASSUME NEW S, NEW D, NEW ch \in [D -> Orders(S)], NEW d \in D,
           NEW a \in S, a \notin minimized', FirstIs(ch[d], a), NEW change \in Changes, NEW act
    PROVE  \/ FirstIs(Update(ch, a, change, act)[d], a)
           \/ Removed(Update(ch, a, change, act)[d], a) = Removed(ch[d], a)
<1>. DEFINE l == ch[d]
            rest == Removed(l, a)
            new == Update(ch, a, change, act)[d]
<1>1. l \in Orders(S) /\ FirstIs(l, a)
  OBVIOUS
<1>2. new \in {rest, UpdateClientInChain(l, a, change, act), InsertClientIntoChain(l, a, act)}
  BY DEF Update
<1>. HIDE DEF l
<1>3. a \in ToSet(l)
  BY <1>1, FirstPlace
<1>4. Removed(rest, a) = rest /\ rest \in Orders(S) /\ a \notin ToSet(rest)
  BY <1>1, RemovedTwice, RemovedOrder
<1>5. InsertClientIntoChain(l, a, act) = l
  BY <1>3 DEF InsertClientIntoChain
<1>6. rest \in Seq(S) /\ Len(rest) \in Nat
  BY <1>4 DEF Orders
<1>7. UpdateClientInChain(l, a, change, act) \in {l, Append(rest, a), <<a>> \o rest}
  BY <1>5 DEF UpdateClientInChain, Changes, MakeFirstInChain, MakeLastInChain
<1>. HIDE DEF rest, new
<1>8. FirstIs(Append(rest, a), a)
  BY <1>6 DEF FirstIs, Last
<1>9. ASSUME NEW m, m = <<a>> \o rest PROVE Removed(m, a) = rest
  <2>1. \E i \in 1 .. Len(rest) + 1 : m \in Seq(S) /\ IsInserted(m, rest, i, a)
    <3>1. 1 \in 1 .. Len(rest) + 1
      BY <1>6
    <3>. QED BY <1>6, <1>9, <3>1, PrefixInserts
  <2>. QED BY <1>4, <2>1, PutBack
<1>10. new \in {l, rest, Append(rest, a), <<a>> \o rest}
  BY <1>2, <1>5, <1>7
<1>11. FirstIs(new, a) \/ Removed(new, a) = rest
  BY <1>1, <1>4, <1>8, <1>9, <1>10
<1>. QED BY <1>11 DEF l, rest, new

\* In a chain, only windows of G are before a.
Ahead(l, a, G) ==
    \E p \in 1 .. Len(l) : l[p] = a /\ \A j \in p + 1 .. Len(l) : l[j] \in G

LEMMA FirstAhead ==
    ASSUME NEW S, NEW l \in Orders(S), NEW a, FirstIs(l, a), NEW G
    PROVE  Ahead(l, a, G)
BY FirstPlace DEF Ahead

LEMMA AheadFirst ==
    ASSUME NEW S, NEW l \in Orders(S), NEW a, NEW G, Ahead(l, a, G)
    PROVE  Last(l) = a \/ Last(l) \in G
<1>1. Len(l) \in Nat
  BY DEF Orders
<1>2. PICK p \in 1 .. Len(l) : l[p] = a /\ \A j \in p + 1 .. Len(l) : l[j] \in G
  BY DEF Ahead
<1>3. p = Len(l) \/ Len(l) \in p + 1 .. Len(l)
  BY <1>1
<1>. QED BY <1>2, <1>3 DEF Last

LEMMA RemovedAhead ==
    ASSUME NEW S, NEW l \in Orders(S), NEW a, NEW G, Ahead(l, a, G), NEW c, c # a
    PROVE  Ahead(Removed(l, c), a, G)
<1>1. /\ l \in Seq(S) /\ Len(l) \in Nat
      /\ \A i, j \in 1 .. Len(l) : l[i] = l[j] => i = j
  BY DEF Orders, IsInjective
<1>2. PICK p \in 1 .. Len(l) : l[p] = a /\ \A j \in p + 1 .. Len(l) : l[j] \in G
  BY DEF Ahead
<1>3. PICK k \in 1 .. Len(l) + 1 : /\ k <= Len(l) => l[k] = c
                                   /\ \A j \in 1 .. Len(l) : j # k => l[j] # c
  <2>1. CASE \E k \in 1 .. Len(l) : l[k] = c
    <3>1. PICK k \in 1 .. Len(l) : l[k] = c
      BY <2>1
    <3>2. k \in 1 .. Len(l) + 1
      BY <1>1
    <3>3. \A j \in 1 .. Len(l) : j # k => l[j] # c
      BY <1>1, <3>1
    <3>. QED BY <3>1, <3>2, <3>3
  <2>2. CASE ~ \E k \in 1 .. Len(l) : l[k] = c
    <3>1. Len(l) + 1 \in 1 .. Len(l) + 1 /\ ~(Len(l) + 1 <= Len(l))
      BY <1>1
    <3>. QED BY <2>2, <3>1
  <2>. QED BY <2>1, <2>2
<1>. DEFINE r == Removed(l, c)
<1>4. /\ Len(r) = IF k <= Len(l) THEN Len(l) - 1 ELSE Len(l)
      /\ \A i \in 1 .. Len(r) : r[i] = IF i < k THEN l[i] ELSE l[i + 1]
  BY <1>1, <1>3, RemovedAt
<1>. HIDE DEF r
<1>5. p # k
  BY <1>1, <1>2, <1>3
<1>. DEFINE q == IF p < k THEN p ELSE p - 1
<1>6. q \in 1 .. Len(r) /\ r[q] = a
  BY <1>1, <1>2, <1>3, <1>4, <1>5
<1>7. ASSUME NEW j \in q + 1 .. Len(r) PROVE r[j] \in G
  <2>1. j \in 1 .. Len(r)
    BY <1>1, <1>4, <1>6
  <2>2. CASE j < k
    <3>1. j \in p + 1 .. Len(l)
      BY <1>1, <1>4, <1>5, <2>1, <2>2
    <3>. QED BY <1>2, <1>4, <2>1, <2>2, <3>1
  <2>3. CASE ~(j < k)
    <3>1. j + 1 \in p + 1 .. Len(l)
      BY <1>1, <1>3, <1>4, <1>5, <2>1, <2>3
    <3>. QED BY <1>2, <1>4, <2>1, <2>3, <3>1
  <2>. QED BY <2>2, <2>3
<1>. HIDE DEF q
<1>8. Ahead(r, a, G)
  BY <1>6, <1>7 DEF Ahead
<1>. QED BY <1>8 DEF r

LEMMA InsertedAhead ==
    ASSUME NEW S, NEW l \in Orders(S), NEW a, NEW G, Ahead(l, a, G), NEW c \in G,
           NEW m, NEW i \in 1 .. Len(l) + 1, IsInserted(m, l, i, c)
    PROVE  Ahead(m, a, G)
<1>1. Len(l) \in Nat
  BY DEF Orders
<1>2. PICK p \in 1 .. Len(l) : l[p] = a /\ \A j \in p + 1 .. Len(l) : l[j] \in G
  BY DEF Ahead
<1>3. /\ Len(m) = Len(l) + 1
      /\ \A j \in 1 .. Len(l) + 1 :
            m[j] = IF j < i THEN l[j] ELSE IF j = i THEN c ELSE l[j - 1]
  BY DEF IsInserted
<1>. DEFINE q == IF p < i THEN p ELSE p + 1
<1>4. q \in 1 .. Len(m) /\ m[q] = a
  BY <1>1, <1>2, <1>3
<1>5. ASSUME NEW j \in q + 1 .. Len(m) PROVE m[j] \in G
  <2>1. j \in 1 .. Len(l) + 1 /\ i \in 1 .. Len(l) + 1
    BY <1>1, <1>3, <1>4
  <2>2. CASE j < i
    <3>1. j \in p + 1 .. Len(l)
      BY <1>1, <1>2, <2>1, <2>2
    <3>. QED BY <1>2, <1>3, <2>1, <2>2, <3>1
  <2>3. CASE j = i
    BY <1>3, <2>1, <2>3
  <2>4. CASE j > i
    <3>1. j - 1 \in p + 1 .. Len(l)
      BY <1>1, <1>2, <1>3, <2>1, <2>4
    <3>2. m[j] = l[j - 1]
      BY <1>3, <2>1, <2>4
    <3>. QED BY <1>2, <3>1, <3>2
  <2>5. j < i \/ j = i \/ j > i
    BY <2>1
  <2>. QED BY <2>2, <2>3, <2>4, <2>5
<1>. HIDE DEF q
<1>. QED BY <1>4, <1>5 DEF Ahead

LEMMA InsertClientAhead ==
    ASSUME NEW S, NEW l \in Orders(S), NEW a, NEW G, Ahead(l, a, G),
           NEW c \in G, c \in S, NEW act
    PROVE  Ahead(InsertClientIntoChain(l, c, act), a, G)
<1>. DEFINE m == InsertClientIntoChain(l, c, act)
<1>1. l \in Seq(S) /\ Len(l) \in Nat
  BY DEF Orders
<1>2. m = l \/ (l # <<>> /\ m = InsertAt(l, Len(l), c)) \/ m = Append(l, c)
  BY DEF InsertClientIntoChain
<1>. HIDE DEF m
<1>3. m = l \/ \E i \in 1 .. Len(l) + 1 : IsInserted(m, l, i, c)
  <2>1. CASE l # <<>> /\ m = InsertAt(l, Len(l), c)
    <3>1. Len(l) \in 1 .. Len(l) + 1
      BY <1>1, <2>1
    <3>. QED BY <1>1, <2>1, <3>1, InsertAtInserts
  <2>2. CASE m = Append(l, c)
    <3>1. Len(l) + 1 \in 1 .. Len(l) + 1
      BY <1>1
    <3>. QED BY <1>1, <2>2, <3>1, AppendInserts
  <2>. QED BY <1>2, <2>1, <2>2
<1>4. Ahead(m, a, G)
  BY <1>3, InsertedAhead
<1>. QED BY <1>4 DEF m

LEMMA UpdateInAhead ==
    ASSUME NEW S, NEW l \in Orders(S), NEW a, NEW G, Ahead(l, a, G),
           NEW c \in G, c \in S, c # a, NEW change \in Changes, NEW act
    PROVE  Ahead(UpdateClientInChain(l, c, change, act), a, G)
<1>. DEFINE rest == Removed(l, c)
            k == Above(rest, minimized')
            m == UpdateClientInChain(l, c, change, act)
<1>1. rest \in Orders(S) /\ Ahead(rest, a, G)
  BY RemovedOrder, RemovedAhead
<1>2. \/ m = InsertClientIntoChain(l, c, act)
      \/ m \in {InsertAt(rest, k, c), Append(rest, c), <<c>> \o rest}
  BY DEF UpdateClientInChain, MakeFirstInChain, MakeLastInChain, Changes
<1>. HIDE DEF rest, m
<1>3. rest \in Seq(S) /\ Len(rest) \in Nat
  BY <1>1 DEF Orders
<1>4. k \in 1 .. Len(rest) + 1
  BY <1>3, AboveBounds
<1>. HIDE DEF k
<1>5. \/ m = InsertClientIntoChain(l, c, act)
      \/ \E i \in 1 .. Len(rest) + 1 : IsInserted(m, rest, i, c)
  <2>1. CASE m = InsertAt(rest, k, c)
    BY <1>3, <1>4, <2>1, InsertAtInserts
  <2>2. CASE m = Append(rest, c)
    <3>1. Len(rest) + 1 \in 1 .. Len(rest) + 1
      BY <1>3
    <3>. QED BY <1>3, <2>2, <3>1, AppendInserts
  <2>3. CASE m = <<c>> \o rest
    <3>1. 1 \in 1 .. Len(rest) + 1
      BY <1>3
    <3>. QED BY <1>3, <2>3, <3>1, PrefixInserts
  <2>. QED BY <1>2, <2>1, <2>2, <2>3
<1>6. Ahead(m, a, G)
  BY <1>1, <1>5, InsertedAhead, InsertClientAhead
<1>. QED BY <1>6 DEF m

LEMMA UpdateAhead ==
    ASSUME NEW S, NEW D, NEW ch \in [D -> Orders(S)], NEW d \in D, NEW a, NEW G,
           Ahead(ch[d], a, G), NEW c \in G, c \in S, c # a, NEW change \in Changes, NEW act
    PROVE  Ahead(Update(ch, c, change, act)[d], a, G)
<1>. DEFINE l == ch[d]
<1>1. l \in Orders(S) /\ Ahead(l, a, G)
  OBVIOUS
<1>2. Update(ch, c, change, act)[d] \in
         {Removed(l, c), UpdateClientInChain(l, c, change, act), InsertClientIntoChain(l, c, act)}
  BY DEF Update
<1>. HIDE DEF l
<1>. QED BY <1>1, <1>2, RemovedAhead, UpdateInAhead, InsertClientAhead

LEMMA MoveAhead ==
    ASSUME NEW S, S \subseteq Clients, NEW D, NEW ch \in [D -> Orders(S)], NEW d \in D,
           NEW a, NEW G, Ahead(ch[d], a, G), NEW c \in G, c \in S, c # a, NEW ref \in S
    PROVE  Ahead(MoveAfterClient(ch, c, ref)[d], a, G)
<1>. DEFINE l == ch[d]
            rest == Removed(l, c)
            m == MoveAfterClientInChain(l, c, ref)
<1>1. l \in Orders(S) /\ Ahead(l, a, G)
  OBVIOUS
<1>2. MoveAfterClient(ch, c, ref)[d] \in {l, m}
  BY DEF MoveAfterClient
<1>. HIDE DEF l
<1>3. rest \in Orders(S) /\ Ahead(rest, a, G)
  BY <1>1, RemovedOrder, RemovedAhead
<1>4. IF ref \in ToSet(l) THEN \E i \in 1 .. Len(rest) + 1 : m \in Seq(S) /\ IsInserted(m, rest, i, c)
                          ELSE m = l
  BY <1>1, MoveInserts
<1>. HIDE DEF rest, m
<1>5. Ahead(m, a, G)
  BY <1>1, <1>3, <1>4, InsertedAhead
<1>. QED BY <1>1, <1>2, <1>5

LEMMA SentAhead ==
    ASSUME clients \subseteq Clients, None \notin Clients, active' \in clients \cup {None},
           chains \in [AllChains -> Orders(clients)],
           NEW S \in SUBSET clients, NEW under \in [S -> clients \cup {None}],
           NEW order, Len(order) \in Nat, order \in [1 .. Len(order) -> S],
           NEW d \in AllChains, NEW a, a \notin S, Ahead(chains[d], a, S),
           NEW g, IsSent(g, order, under)
    PROVE  Ahead(g[Len(order)][d], a, S)
<1>. DEFINE X == [AllChains -> Orders(clients)]
            N == Len(order)
            D == {i \in 0 .. N : g[i] \in X /\ Ahead(g[i][d], a, S)}
<1>1. g[0] = chains /\ \A i \in 1 .. N : g[i] = Sending(g[i - 1], order[i], under[order[i]])
  BY DEF IsSent
<1>2. 0 \in D
  BY <1>1
<1>3. ASSUME NEW i \in 1 .. N, i - 1 \in D PROVE i \in D
  <2>. DEFINE c == order[i]
              ref == under[c]
              old == g[i - 1]
              moved == Update(old, c, "MakeFirst", active')
  <2>1. /\ c \in S /\ c \in clients /\ c # a /\ ref \in clients \cup {None}
        /\ old \in X /\ Ahead(old[d], a, S) /\ g[i] = Sending(old, c, ref)
    BY <1>1, <1>3
  <2>. HIDE DEF c, ref, old
  <2>2. g[i] \in X
    BY <2>1, SendingChains
  <2>3. moved \in X /\ Ahead(moved[d], a, S)
    BY <2>1, UpdateChains, UpdateAhead DEF Changes
  <2>4. g[i] = IF ref = None THEN moved ELSE MoveAfterClient(moved, c, ref)
    BY <2>1 DEF Sending
  <2>. HIDE DEF moved
  <2>5. ref # None => Ahead(MoveAfterClient(moved, c, ref)[d], a, S)
    <3>. HAVE ref # None
    <3>1. ref \in clients
      BY <2>1
    <3>. QED BY <2>1, <2>3, <3>1, MoveAhead
  <2>6. Ahead(g[i][d], a, S)
    BY <2>3, <2>4, <2>5
  <2>. QED BY <2>2, <2>6
<1>4. N \in D
  <2>1. D \in SUBSET (0 .. N) /\ N \in Nat
    OBVIOUS
  <2>2. D = 0 .. N
    <3>. HIDE DEF D, N
    <3>. QED BY <1>2, <1>3, <2>1, Climb
  <2>. QED BY <2>1, <2>2
<1>. QED BY <1>4

\* No other window got before the active one in d, by one step; or one that had a
\* reason to.
Undisturbed(d) ==
    FirstIs(chains'[d], active) \/ Removed(chains'[d], active) = Removed(chains[d], active)
Excused(d) ==
    LET first == Last(chains'[d])
    IN  (first \in clients /\ desk'[first] # desk[first]) \/ first \in hidden \ hidden'

\* Whoever is first in the chain of d has a reason, when only such windows are before
\* the active one.
LEMMA AheadUndisturbed ==
    ASSUME NEW d, NEW S, chains'[d] \in Orders(S), NEW G, Ahead(chains'[d], active, G)
    PROVE  Undisturbed(d) \/ Last(chains'[d]) \in G
<1>. DEFINE l == chains'[d]
<1>1. Last(l) = active \/ Last(l) \in G
  BY AheadFirst
<1>2. l # <<>>
  BY DEF Ahead
<1>. HIDE DEF l
<1>3. FirstIs(l, active) \/ Last(l) \in G
  BY <1>1, <1>2 DEF FirstIs
<1>. QED BY <1>3 DEF l, Undisturbed

ActiveFirst(d) ==
    /\ FocusInv /\ active # None /\ active' = active
    /\ d \in AllChains /\ FirstIs(chains[d], active)

LEMMA ActiveKnown ==
    ASSUME NEW d, ActiveFirst(d)
    PROVE  /\ active \in clients /\ active \in Clients /\ active \notin minimized
           /\ chains \in [AllChains -> Orders(clients)] /\ clients \subseteq Clients
BY Before DEF ActiveFirst, WindowsTyped

\* An event that updates one window, with the active window as it is.
LEMMA UpdateUndisturbed ==
    ASSUME NEW d, ActiveFirst(d), NEW S, clients \subseteq S, NEW c \in S,
           active \notin minimized', NEW change \in Changes,
           c # active => Modest(c, active, change),
           chains' = Update(chains, c, change, active)
    PROVE  Undisturbed(d)
<1>1. chains \in [AllChains -> Orders(S)] /\ d \in AllChains /\ FirstIs(chains[d], active)
  BY ActiveKnown, ChainsWiden DEF ActiveFirst
<1>2. CASE c = active
  BY <1>1, <1>2, UpdateOfActive DEF Undisturbed
<1>3. CASE c # active
  BY <1>1, <1>3, UpdateKeepsFirst DEF Undisturbed
<1>. QED BY <1>2, <1>3

LEMMA SameUndisturbed ==
    ASSUME NEW d, chains' = chains PROVE Undisturbed(d)
BY DEF Undisturbed

LEMMA ManageUndisturbed ==
    ASSUME NEW d, ActiveFirst(d), NEW c \in Clients, Manage(c)
    PROVE  Undisturbed(d)
<1>. DEFINE S == clients \cup {c}
<1>1. /\ c \notin clients /\ c \in S /\ S \subseteq Clients /\ clients \subseteq S
      /\ minimized' \subseteq minimized \cup {c}
      /\ \/ c \in minimized' /\ chains' = Update(Update(chains, c, "MakeFirst", active), c, "Update", active)
         \/ chains' = Update(chains, c, "Update", active)
         \/ \E ref \in References(c, active) :
               chains' = Update(MoveAfterClient(chains, c, ref), c, "Update", active)
  BY ActiveKnown DEF Manage
<1>2. c # active /\ active \notin minimized' /\ active \in clients
  BY <1>1, ActiveKnown
<1>. HIDE DEF S
<1>3. chains \in [AllChains -> Orders(S)] /\ d \in AllChains /\ FirstIs(chains[d], active)
  BY <1>1, ActiveKnown, ChainsWiden DEF ActiveFirst
<1>4. ASSUME NEW ch \in [AllChains -> Orders(S)], FirstIs(ch[d], active),
             chains' = Update(ch, c, "Update", active)
      PROVE  Undisturbed(d)
  <2>1. Modest(c, active, "Update")
    BY DEF Modest
  <2>. QED BY <1>1, <1>2, <1>3, <1>4, <2>1, UpdateKeepsFirst DEF Undisturbed
<1>5. CASE c \in minimized' /\ chains' = Update(Update(chains, c, "MakeFirst", active), c, "Update", active)
  <2>. DEFINE ch == Update(chains, c, "MakeFirst", active)
  <2>1. Modest(c, active, "MakeFirst")
    BY <1>2, <1>5 DEF Modest
  <2>2. ch \in [AllChains -> Orders(S)]
    BY <1>1, <1>3, UpdateChains DEF Changes
  <2>3. FirstIs(ch[d], active)
    BY <1>1, <1>2, <1>3, <2>1, UpdateKeepsFirst
  <2>4. chains' = Update(ch, c, "Update", active)
    BY <1>5
  <2>. HIDE DEF ch
  <2>. QED BY <1>4, <2>2, <2>3, <2>4
<1>6. CASE chains' = Update(chains, c, "Update", active)
  BY <1>3, <1>4, <1>6
<1>7. ASSUME NEW ref \in References(c, active),
             chains' = Update(MoveAfterClient(chains, c, ref), c, "Update", active)
      PROVE  Undisturbed(d)
  <2>. DEFINE ch == MoveAfterClient(chains, c, ref)
  <2>1. ref \in S
    BY <1>1, <1>2, ReferenceKnown
  <2>2. ch \in [AllChains -> Orders(S)]
    BY <1>1, <1>3, <2>1, MoveAfterChains
  <2>3. FirstIs(ch[d], active)
    BY <1>1, <1>2, <1>3, <2>1, MoveKeepsFirst
  <2>4. chains' = Update(ch, c, "Update", active)
    BY <1>7
  <2>. HIDE DEF ch
  <2>. QED BY <1>4, <2>2, <2>3, <2>4
<1>. QED BY <1>1, <1>5, <1>6, <1>7

LEMMA WindowUndisturbed ==
    ASSUME NEW d, ActiveFirst(d), NEW c \in Clients,
           \/ Release(c) \/ MapRequest(c) \/ GetWMHints(c) \/ Minimize(c)
           \/ Unminimize(c) \/ HideTab(c) \/ ShowTab(c) \/ FocusIn(c)
    PROVE  Undisturbed(d) \/ Excused(d)
<1>. USE ActiveKnown
<1>1. CASE Release(c)
  <2>1. c # active /\ chains' = RemoveClient(chains, c)
    BY <1>1 DEF Release, ActivateNextClient, ActiveFirst
  <2>2. d \in AllChains /\ chains[d] \in Orders(clients) /\ FirstIs(chains[d], active)
    BY DEF ActiveFirst
  <2>3. chains'[d] = Removed(chains[d], c)
    BY <2>1, <2>2 DEF RemoveClient
  <2>. QED BY <2>1, <2>2, <2>3, RemovedKeepsFirst DEF Undisturbed
<1>2. CASE MapRequest(c)
  <2>1. /\ c \in clients /\ active \notin minimized'
        /\ chains' = Update(chains, c, "Update", active)
    BY <1>2 DEF MapRequest
  <2>. QED BY <2>1, UpdateUndisturbed DEF Modest, Changes
<1>3. CASE GetWMHints(c) \/ Unminimize(c)
  BY <1>3, SameUndisturbed DEF GetWMHints, Unminimize
<1>4. CASE Minimize(c)
  <2>1. /\ c # active /\ c \in clients /\ c \in minimized' /\ active \notin minimized'
        /\ chains' = Update(chains, c, "MakeFirst", active)
    BY <1>4 DEF Minimize, ActivateNextClient, ActiveFirst
  <2>. QED BY <2>1, UpdateUndisturbed DEF Modest, Changes
<1>5. CASE HideTab(c)
  <2>1. /\ c \in clients /\ active \notin minimized'
        /\ chains' = chains \/ chains' = Update(chains, c, "MakeLast", active)
    BY <1>5 DEF HideTab
  <2>. QED BY <2>1, SameUndisturbed, UpdateUndisturbed DEF Modest, Changes
<1>6. CASE ShowTab(c)
  <2>1. /\ c \in hidden \ hidden' /\ active \notin minimized'
        /\ chains' = Update(chains, c, "MakeFirst", active)
    BY <1>6 DEF ShowTab
  <2>2. CASE c = active
    BY <2>1, <2>2, UpdateUndisturbed DEF Changes
  <2>3. CASE c # active
    <3>1. d \in AllChains /\ chains[d] \in Orders(clients) /\ FirstIs(chains[d], active)
      BY DEF ActiveFirst
    <3>2. c \in clients
      BY <2>1, Before DEF ActiveFirst, WindowsTyped
    <3>3. Ahead(chains[d], active, {c})
      BY <3>1, FirstAhead
    <3>4. Ahead(chains'[d], active, {c}) /\ chains'[d] \in Orders(clients)
      BY <2>1, <2>3, <3>1, <3>2, <3>3, UpdateAhead, UpdateChains DEF Changes
    <3>. QED BY <2>1, <3>4, AheadUndisturbed DEF Excused
  <2>. QED BY <2>2, <2>3
<1>7. CASE FocusIn(c)
  BY <1>7 DEF FocusIn, ActiveFirst
<1>. QED BY <1>1, <1>2, <1>3, <1>4, <1>5, <1>6, <1>7

LEMMA RestackUndisturbed ==
    ASSUME NEW d, ActiveFirst(d), NEW c \in Clients, NEW r \in Clients, RestackWindow(c, r)
    PROVE  Undisturbed(d)
<1>1. /\ c \in clients /\ r \in clients
      /\ \E k \in References(c, r) : chains' = MoveAfterClient(chains, c, k)
  BY DEF RestackWindow
<1>2. PICK k \in clients : chains' = MoveAfterClient(chains, c, k)
  BY <1>1, ReferenceKnown
<1>3. /\ chains \in [AllChains -> Orders(clients)] /\ clients \subseteq Clients
      /\ d \in AllChains /\ FirstIs(chains[d], active) /\ active \in clients
  BY ActiveKnown DEF ActiveFirst
<1>4. CASE c = active
  BY <1>2, <1>3, <1>4, MoveOfActive DEF Undisturbed
<1>5. CASE c # active
  BY <1>1, <1>2, <1>3, <1>5, MoveKeepsFirst DEF Undisturbed
<1>. QED BY <1>4, <1>5

LEMMA DesktopUndisturbed ==
    ASSUME NEW d, ActiveFirst(d), NEW n, SetCurrent(n) \/ SetCount(n),
           d \in DOMAIN chains'
    PROVE  Undisturbed(d) \/ Excused(d)
<1>. USE ActiveKnown
<1>1. CASE SetCurrent(n)
  <2>1. PICK moving \in {None, active} :
           /\ IF moving = None \/ OnDesktop(moving, n) THEN UNCHANGED <<desk, chains, stale>>
              ELSE chains' = Update(chains, moving, "MakeFirst", active)
           /\ moving = None => active' = None
    BY <1>1 DEF SetCurrent
  <2>2. moving = active
    BY <2>1 DEF ActiveFirst
  <2>3. CASE OnDesktop(active, n)
    BY <2>1, <2>2, <2>3, SameUndisturbed
  <2>4. CASE ~OnDesktop(active, n)
    <3>1. chains' = Update(chains, active, "MakeFirst", active)
      BY <2>1, <2>2, <2>4 DEF ActiveFirst
    <3>2. active \notin minimized'
      BY <1>1 DEF SetCurrent
    <3>. QED BY <3>1, <3>2, UpdateUndisturbed DEF Changes
  <2>. QED BY <2>3, <2>4
<1>2. CASE SetCount(n)
  <2>. DEFINE gone == {c \in clients : desk[c] > n}
              Final(order, under) == CHOOSE f : IsSent(f, order, under)
  <2>1. /\ n \in 1 .. MaxDesktops /\ active' = IF current > n THEN None ELSE active
        /\ desk' = [c \in Clients |-> IF desk[c] > n THEN n ELSE desk[c]]
    BY <1>2 DEF SetCount
  <2>2. PICK order \in SetToSeqs(gone), under \in [gone -> clients \cup {None}] :
           chains' = Resize(Final(order, under)[Len(order)], n)
    BY <1>2 DEF SetCount, IsSent, Sending
  <2>3. Len(order) \in Nat /\ order \in [1 .. Len(order) -> gone]
    <3>1. IsFiniteSet(gone)
      BY FS_Subset DEF ActiveFirst, FocusInv
    <3>. HIDE DEF gone
    <3>. QED BY <3>1, OrderReachesAll
  <2>4. active \notin gone
    <3>1. ~(current > n) /\ OnDesktop(active, current)
      BY <2>1, Before DEF ActiveFirst, WindowsTyped
    <3>2. desk[active] = AllDesktops \/ desk[active] = current
      BY <3>1 DEF OnDesktop
    <3>3. n \in Nat /\ n >= 1
      BY <2>1, Before DEF ActiveFirst
    <3>4. ~(desk[active] > n)
      BY <3>1, <3>2, <3>3 DEF AllDesktops
    <3>. QED BY <3>4
  <2>5. gone \in SUBSET clients
    OBVIOUS
  <2>6. \A c \in gone : c \in clients /\ desk'[c] # desk[c]
    <3>. SUFFICES ASSUME NEW c \in gone PROVE c \in clients /\ desk'[c] # desk[c]
      OBVIOUS
    <3>1. n \in Nat /\ desk[c] \in Nat
      BY <2>1, Before DEF ActiveFirst, WindowsTyped
    <3>. QED BY <2>1, <3>1
  <2>7. /\ clients \subseteq Clients /\ None \notin Clients /\ active' \in clients \cup {None}
        /\ chains \in [AllChains -> Orders(clients)] /\ d \in AllChains
        /\ FirstIs(chains[d], active)
    BY Before DEF ActiveFirst
  <2>8. Ahead(chains[d], active, gone)
    <3>. HIDE DEF gone
    <3>. QED BY <2>7, FirstAhead
  <2>. DEFINE ch == Final(order, under)[Len(order)]
  <2>9. ch \in [AllChains -> Orders(clients)] /\ Ahead(ch[d], active, gone)
    <3>1. /\ \E f : IsSent(f, order, under)
          /\ \A g : IsSent(g, order, under) => g[Len(order)] \in [AllChains -> Orders(clients)]
      <4>. HIDE DEF gone
      <4>. QED BY <2>3, <2>5, <2>7, SentChains
    <3>2. IsSent(Final(order, under), order, under)
      BY <3>1
    <3>. HIDE DEF Final, gone
    <3>. QED BY <2>3, <2>4, <2>5, <2>7, <2>8, <3>1, <3>2, SentAhead
  <2>10. chains'[d] = ch[d]
    <3>1. chains' = Resize(ch, n)
      BY <2>2
    <3>. HIDE DEF ch
    <3>. QED BY <2>7, <2>9, <3>1 DEF Resize
  <2>. HIDE DEF ch, gone
  <2>11. Undisturbed(d) \/ Last(chains'[d]) \in gone
    BY <2>7, <2>9, <2>10, AheadUndisturbed
  <2>. QED BY <2>6, <2>11 DEF Excused
<1>. QED BY <1>1, <1>2

LEMMA SentUndisturbed ==
    ASSUME NEW d, ActiveFirst(d), NEW c \in Clients, NEW e, SetDesktop(c, e)
    PROVE  Undisturbed(d) \/ Excused(d)
<1>. DEFINE moved == Update(chains, c, "MakeFirst", active)
<1>1. /\ c \in clients /\ desk[c] # e /\ desk' = [desk EXCEPT ![c] = e]
      /\ minimized' = minimized
      /\ \/ chains' = moved
         \/ c # active /\ \E ref \in References(c, active) : chains' = MoveAfterClient(moved, c, ref)
  BY DEF SetDesktop
<1>2. /\ d \in AllChains /\ chains \in [AllChains -> Orders(clients)] /\ clients \subseteq Clients
      /\ FirstIs(chains[d], active) /\ active \in clients /\ active \notin minimized'
  BY <1>1, ActiveKnown DEF ActiveFirst
<1>3. CASE c = active
  BY <1>1, <1>2, <1>3, UpdateUndisturbed DEF Changes
<1>4. CASE c # active
  <2>1. Ahead(chains[d], active, {c})
    BY <1>2, FirstAhead
  <2>2. moved \in [AllChains -> Orders(clients)] /\ Ahead(moved[d], active, {c})
    BY <1>1, <1>2, <1>4, <2>1, UpdateChains, UpdateAhead DEF Changes
  <2>. HIDE DEF moved
  <2>3. chains' \in [AllChains -> Orders(clients)] /\ Ahead(chains'[d], active, {c})
    <3>1. CASE chains' = moved
      BY <2>2, <3>1
    <3>2. ASSUME NEW ref \in References(c, active), chains' = MoveAfterClient(moved, c, ref)
          PROVE  chains' \in [AllChains -> Orders(clients)] /\ Ahead(chains'[d], active, {c})
      <4>1. ref \in clients
        BY <1>2, <3>2, ReferenceKnown
      <4>. QED BY <1>1, <1>2, <1>4, <2>2, <3>2, <4>1, MoveAfterChains, MoveAhead
    <3>. QED BY <1>1, <3>1, <3>2
  <2>4. Undisturbed(d) \/ Last(chains'[d]) \in {c}
    BY <1>2, <2>3, AheadUndisturbed
  <2>5. desk'[c] # desk[c]
    BY <1>1, Before DEF ActiveFirst, WindowsTyped
  <2>. QED BY <1>1, <2>4, <2>5 DEF Excused
<1>. QED BY <1>3, <1>4

LEMMA NextUndisturbed ==
    ASSUME NEW d, ActiveFirst(d), Next, d \in DOMAIN chains'
    PROVE  Undisturbed(d) \/ Excused(d)
<1>1. ASSUME FocusOut PROVE FALSE
  BY <1>1 DEF FocusOut, ActiveFirst
<1>. QED BY <1>1, ManageUndisturbed, WindowUndisturbed, RestackUndisturbed,
         DesktopUndisturbed, SentUndisturbed DEF Next

\* focuschain.h, Update: as long as the active window is active and the first of a
\* chain, no window gets before it that appears, is mapped again, minimized, hidden or
\* put under another one; only one that is itself sent to a desktop or shown as a tab.
\* A chain from which the active window is taken, or in which it is put back, keeps the
\* others as they are.
THEOREM ActiveRemainsFirst == Spec => ActiveStaysFirst
<1>1. FocusInv /\ [Next]_vars =>
      [ active # None /\ active' = active =>
        \A d \in DOMAIN chains \cap DOMAIN chains' :
          /\ chains[d] # <<>> /\ Last(chains[d]) = active
          /\ chains'[d] # <<>> /\ Last(chains'[d]) # active
          => LET first == Last(chains'[d])
             IN  \/ first \in clients /\ desk'[first] # desk[first]
                 \/ first \in hidden \ hidden'
                 \/ Removed(chains'[d], active) = Removed(chains[d], active) ]_vars
  <2>. SUFFICES ASSUME FocusInv, Next, active # None, active' = active,
                       NEW d \in DOMAIN chains \cap DOMAIN chains',
                       chains[d] # <<>>, Last(chains[d]) = active,
                       chains'[d] # <<>>, Last(chains'[d]) # active
                PROVE  Excused(d) \/ Removed(chains'[d], active) = Removed(chains[d], active)
    BY DEF Excused
  <2>1. ActiveFirst(d)
    BY Before DEF ActiveFirst, FirstIs
  <2>2. Undisturbed(d) \/ Excused(d)
    BY <2>1, NextUndisturbed
  <2>. QED BY <2>2 DEF Undisturbed, FirstIs
<1>. QED BY <1>1, FocusInvariant, PTL DEF Spec, ActiveStaysFirst

================================================================================
