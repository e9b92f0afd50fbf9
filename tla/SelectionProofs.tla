----------------------------- MODULE SelectionProofs -----------------------------
(****************************************************************************)
(* The selection of Selection.tla: what the functions of the manager keep,  *)
(* where each item is after the model has changed, and with both that the   *)
(* selection, its listeners and the current item stay right.                *)
(****************************************************************************)
EXTENDS Selection, ItemSetProofs

Manager == [current : Int, anchor : Int, active : BOOLEAN, selected : ItemSets, told : ItemSets]

\* A manager of a model of n items.
Within(m, n) ==
    /\ m \in Manager
    /\ m.current \in -1 .. n - 1 /\ m.anchor \in -1 .. n - 1
    /\ n > 0 => m.current >= 0
    /\ m.active => m.anchor >= 0 /\ m.current >= 0
    /\ AsSet(m.selected) \subseteq 0 .. n - 1

Knows(m) == m.told = SelectedItems(m)

\* The fields that the selection depends on.
Same(x, y) ==
    /\ x.current = y.current /\ x.anchor = y.anchor
    /\ x.active = y.active /\ x.selected = y.selected

Between(a, c) == {x \in Nat : (a <= x /\ x <= c) \/ (c <= x /\ x <= a)}

LEMMA RangeListed ==
    ASSUME NEW i \in Nat, NEW j \in Nat, NEW l, l = [k \in 1 .. (j - i) |-> (i + k) - 1]
    PROVE  l \in Seq(Nat) /\ ToSet(l) = i .. j - 1 /\ IsInjective(l)
<1>. DEFINE n == IF i <= j THEN j - i ELSE 0
<1>1. n \in Nat /\ 1 .. (j - i) = 1 .. n
  OBVIOUS
<1>2. DOMAIN l = 1 .. n /\ \A k \in 1 .. n : l[k] = (i + k) - 1 /\ l[k] \in Nat
  BY <1>1
<1>3. l \in Seq(Nat) /\ Len(l) = n
  <2>1. l \in [1 .. n -> Nat]
    BY <1>1, <1>2
  <2>. HIDE DEF n
  <2>2. l \in Seq(Nat)
    BY <1>1, <2>1, SeqDef
  <2>3. 1 .. Len(l) = 1 .. n /\ Len(l) \in Nat
    <3>1. Len(l) \in Nat /\ DOMAIN l = 1 .. Len(l)
      BY <2>2, LenProperties
    <3>. QED BY <1>2, <3>1
  <2>4. Len(l) = n
    <3>. DEFINE e == Len(l)
    <3>1. 1 .. e = 1 .. n /\ e \in Nat
      BY <2>3
    <3>. HIDE DEF e
    <3>2. e = n
      <4>1. e > 0 => e \in 1 .. n
        <5>1. e > 0 => e \in 1 .. e
          BY <3>1
        <5>. QED BY <3>1, <5>1
      <4>2. n > 0 => n \in 1 .. e
        BY <1>1, <3>1
      <4>. QED BY <1>1, <3>1, <4>1, <4>2
    <3>. QED BY <3>2 DEF e
  <2>. QED BY <2>2, <2>4
<1>4. ToSet(l) = i .. j - 1
  <2>1. ASSUME NEW x \in i .. j - 1 PROVE x \in ToSet(l)
    <3>1. x - i + 1 \in 1 .. n /\ (i + (x - i + 1)) - 1 = x
      OBVIOUS
    <3>2. l[x - i + 1] = x
      BY <1>2, <3>1
    <3>. HIDE DEF n
    <3>. QED BY <1>2, <3>1, <3>2 DEF ToSet
  <2>2. ASSUME NEW x \in ToSet(l) PROVE x \in i .. j - 1
    <3>1. PICK k \in 1 .. n : x = l[k]
      <4>. HIDE DEF n
      <4>. QED BY <1>2, <2>2 DEF ToSet
    <3>2. x = (i + k) - 1
      BY <1>2, <3>1
    <3>. QED BY <3>1, <3>2
  <2>. QED BY <2>1, <2>2
<1>5. IsInjective(l)
  <2>1. \A p, q \in 1 .. n : l[p] = l[q] => p = q
    <3>. SUFFICES ASSUME NEW p \in 1 .. n, NEW q \in 1 .. n, l[p] = l[q] PROVE p = q
      OBVIOUS
    <3>1. (i + p) - 1 = (i + q) - 1
      BY <1>2
    <3>. QED BY <3>1
  <2>. HIDE DEF n
  <2>. QED BY <1>2, <2>1 DEF IsInjective
<1>. QED BY <1>3, <1>4, <1>5

LEMMA AnchoredRangeIs ==
    ASSUME NEW m, m.anchor \in Nat, m.current \in Nat
    PROVE  /\ AnchoredRange(m) \in Seq(Nat)
           /\ ToSet(AnchoredRange(m)) = Between(m.anchor, m.current)
<1>. DEFINE a == m.anchor
            c == m.current
            i == Min({a, c})
            h == Max({a, c})
            j == h + 1
            l == AnchoredRange(m)
<1>1. a \in Nat /\ c \in Nat
  OBVIOUS
<1>2. i = (IF a <= c THEN a ELSE c) /\ h = (IF a >= c THEN a ELSE c)
  <2>. HIDE DEF a, c
  <2>. QED BY <1>1, MinOfTwo, MaxOfTwo
<1>3. l = [k \in 1 .. h - i + 1 |-> i + k - 1]
  BY DEF AnchoredRange
<1>. HIDE DEF a, c, i, h, l
<1>4. i \in Nat /\ h \in Nat /\ j \in Nat /\ h - i + 1 = j - i /\ j - 1 = h
  BY <1>1, <1>2
<1>5. l = [k \in 1 .. (j - i) |-> (i + k) - 1]
  <2>1. \A k \in 1 .. h - i + 1 : i + k - 1 = (i + k) - 1
    BY <1>4
  <2>. QED BY <1>3, <1>4, <2>1
<1>. HIDE DEF j
<1>6. l \in Seq(Nat) /\ ToSet(l) = i .. j - 1
  BY <1>4, <1>5, RangeListed
<1>7. i .. h = Between(a, c)
  BY <1>1, <1>2 DEF Between
<1>. QED BY <1>4, <1>6, <1>7 DEF a, c, l

\* What selectedItems() returns.
LEMMA SelectedIs ==
    ASSUME NEW m, NEW n \in Nat, Within(m, n)
    PROVE  /\ SelectedItems(m) \in ItemSets
           /\ HasRange(m) => AsSet(SelectedItems(m)) = AsSet(m.selected) \cup Between(m.anchor, m.current)
           /\ ~HasRange(m) => SelectedItems(m) = m.selected
           /\ AsSet(SelectedItems(m)) \subseteq 0 .. n - 1
<1>1. m.selected \in ItemSets /\ AsSet(m.selected) \subseteq 0 .. n - 1
  BY DEF Within, Manager
<1>2. CASE HasRange(m)
  <2>1. m.anchor \in Nat /\ m.current \in Nat /\ m.anchor < n /\ m.current < n
    BY <1>2 DEF Within, HasRange
  <2>2. AnchoredRange(m) \in Seq(Nat) /\ ToSet(AnchoredRange(m)) = Between(m.anchor, m.current)
    BY <2>1, AnchoredRangeIs
  <2>3. SelectedItems(m) = InsertAll(m.selected, AnchoredRange(m))
    BY <1>2 DEF SelectedItems
  <2>. DEFINE s == m.selected
              l == AnchoredRange(m)
  <2>4. InsertAll(s, l) \in ItemSets /\ AsSet(InsertAll(s, l)) = AsSet(s) \cup ToSet(l)
    <3>. HIDE DEF s, l
    <3>1. s \in ItemSets /\ l \in Seq(Nat)
      BY <1>1, <2>2 DEF s, l
    <3>. QED BY <3>1, InsertAllCorrect
  <2>5. Between(m.anchor, m.current) \subseteq 0 .. n - 1
    <3>. DEFINE a == m.anchor
                c == m.current
    <3>. HIDE DEF a, c
    <3>1. a \in Nat /\ c \in Nat /\ a < n /\ c < n
      BY <2>1 DEF a, c
    <3>2. Between(a, c) \subseteq 0 .. n - 1
      BY <3>1 DEF Between
    <3>. QED BY <3>2 DEF a, c
  <2>. QED BY <1>1, <1>2, <2>2, <2>3, <2>4, <2>5
<1>3. CASE ~HasRange(m)
  BY <1>1, <1>3 DEF SelectedItems
<1>. QED BY <1>2, <1>3

LEMMA SameSelected ==
    ASSUME NEW x, NEW y, Same(x, y)
    PROVE  SelectedItems(x) = SelectedItems(y) /\ (HasRange(x) <=> HasRange(y))
<1>1. x.current = y.current /\ x.anchor = y.anchor /\ x.active = y.active /\ x.selected = y.selected
  BY DEF Same
<1>2. AnchoredRange(x) = AnchoredRange(y)
  BY <1>1 DEF AnchoredRange
<1>3. HasRange(x) <=> HasRange(y)
  BY <1>1 DEF HasRange
<1>. QED BY <1>1, <1>2, <1>3 DEF SelectedItems

LEMMA EmitKnows ==
    ASSUME NEW x, NEW n \in Nat, Within(x, n), NEW previous, x.told = previous
    PROVE  Within(Emit(x, previous), n) /\ Knows(Emit(x, previous)) /\ Same(Emit(x, previous), x)
<1>. DEFINE s == SelectedItems(x)
            y == [x EXCEPT !.told = s]
<1>1. s \in ItemSets
  BY SelectedIs
<1>. HIDE DEF s
<1>2. CASE s # previous
  <2>1. Emit(x, previous) = y
    BY <1>2 DEF Emit, s
  <2>2. x \in Manager
    BY DEF Within
  <2>3. y \in Manager /\ y.told = s /\ y.current = x.current /\ y.anchor = x.anchor
        /\ y.active = x.active /\ y.selected = x.selected
    BY <1>1, <2>2 DEF Manager
  <2>. HIDE DEF y
  <2>4. Same(y, x)
    BY <2>3 DEF Same
  <2>5. Within(y, n)
    BY <2>3 DEF Within
  <2>6. Knows(y)
    BY <2>3, <2>4, SameSelected DEF Knows, s
  <2>. QED BY <2>1, <2>4, <2>5, <2>6
<1>3. CASE s = previous
  <2>1. Emit(x, previous) = x
    BY <1>3 DEF Emit, s
  <2>. QED BY <1>3, <2>1 DEF Knows, Same, s
<1>. QED BY <1>2, <1>3


Sound(m, n) == Within(m, n) /\ Knows(m)

\* What each function of the manager keeps.  y is what it returns.
LEMMA SetCurrentSound ==
    ASSUME NEW m, NEW n \in Nat, Sound(m, n), NEW i \in 0 .. n - 1,
           NEW y, y = SetCurrentItem(m, n, i)
    PROVE  /\ Sound(y, n) /\ y.current = i /\ y.anchor = m.anchor /\ y.active = m.active
           /\ y.selected = m.selected
<1>. DEFINE x == [m EXCEPT !.current = i]
<1>1. m \in Manager /\ i \in Int /\ i >= 0 /\ i \in -1 .. n - 1
  BY DEF Sound, Within
<1>2. /\ x \in Manager /\ x.current = i /\ x.anchor = m.anchor /\ x.active = m.active
      /\ x.selected = m.selected /\ x.told = m.told
  BY <1>1 DEF Manager
<1>3. y = IF m.active THEN Emit(x, SelectedItems(m)) ELSE x
  BY DEF SetCurrentItem
<1>. HIDE DEF x
<1>4. Within(x, n)
  BY <1>1, <1>2 DEF Sound, Within
<1>5. x.told = SelectedItems(m)
  BY <1>2 DEF Sound, Knows
<1>6. CASE m.active
  <2>1. Within(y, n) /\ Knows(y) /\ Same(y, x)
    BY <1>3, <1>4, <1>5, <1>6, EmitKnows
  <2>. QED BY <1>2, <2>1 DEF Sound, Same
<1>7. CASE ~m.active
  <2>1. y = x
    BY <1>3, <1>7
  <2>2. ~HasRange(x) /\ ~HasRange(m)
    BY <1>2, <1>7 DEF HasRange
  <2>3. Knows(x)
    BY <1>2, <1>5, <2>2 DEF Knows, SelectedItems
  <2>. QED BY <1>2, <1>4, <2>1, <2>3 DEF Sound
<1>. QED BY <1>6, <1>7

LEMMA SetSelectedItemsSound ==
    ASSUME NEW m, NEW n \in Nat, Sound(m, n), NEW s \in ItemSets, AsSet(s) \subseteq 0 .. n - 1,
           ~HasRange(m) \/ AsSet(SelectedItems(m)) \subseteq AsSet(s),
           NEW y, y = SetSelectedItems(m, s)
    PROVE  Sound(y, n) /\ y.current = m.current /\ (HasRange(y) <=> HasRange(m))
<1>. DEFINE x == [m EXCEPT !.selected = s, !.told = s]
<1>1. m \in Manager
  BY DEF Sound, Within
<1>2. /\ x \in Manager /\ x.current = m.current /\ x.anchor = m.anchor /\ x.active = m.active
      /\ x.selected = s /\ x.told = s
  BY <1>1 DEF Manager
<1>3. y = IF m.selected # s THEN x ELSE m
  BY DEF SetSelectedItems
<1>. HIDE DEF x
<1>4. CASE m.selected # s
  <2>1. y = x
    BY <1>3, <1>4
  <2>2. HasRange(x) <=> HasRange(m)
    BY <1>2 DEF HasRange
  <2>3. Within(x, n)
    BY <1>2 DEF Sound, Within
  <2>4. CASE ~HasRange(m)
    <3>1. Knows(x)
      BY <1>2, <2>2, <2>4 DEF Knows, SelectedItems
    <3>. QED BY <1>2, <2>1, <2>2, <2>3, <3>1 DEF Sound
  <2>5. CASE HasRange(m)
    <3>. DEFINE l == AnchoredRange(x)
    <3>1. x.anchor \in Nat /\ x.current \in Nat
      BY <1>2, <2>5 DEF Sound, Within, HasRange
    <3>2. l \in Seq(Nat) /\ ToSet(l) = Between(x.anchor, x.current)
      BY <3>1, AnchoredRangeIs
    <3>3. Between(x.anchor, x.current) \subseteq AsSet(SelectedItems(m))
      <4>1. AsSet(SelectedItems(m)) = AsSet(m.selected) \cup Between(m.anchor, m.current)
        BY <2>5, SelectedIs DEF Sound
      <4>. QED BY <1>2, <4>1
    <3>. HIDE DEF l
    <3>4. InsertAll(s, l) = s
      <4>1. ToSet(l) \subseteq AsSet(s)
        BY <2>5, <3>2, <3>3
      <4>. QED BY <3>2, <4>1, InsertAllAbsorbs
    <3>5. SelectedItems(x) = s
      BY <1>2, <2>2, <2>5, <3>4 DEF SelectedItems, l
    <3>6. Knows(x)
      BY <1>2, <3>5 DEF Knows
    <3>. QED BY <1>2, <2>1, <2>2, <2>3, <3>6 DEF Sound
  <2>. QED BY <2>4, <2>5
<1>5. CASE m.selected = s
  BY <1>3, <1>5
<1>. QED BY <1>4, <1>5

\* An anchored selection begins at the current item, when none has a range.
LEMMA BeginSound ==
    ASSUME NEW m, NEW n \in Nat, Sound(m, n), NEW i \in 0 .. n - 1, m.current = i, ~HasRange(m),
           NEW y, y = BeginAnchoredSelection(m, n, i)
    PROVE  /\ Sound(y, n) /\ y.current = i /\ y.anchor = i /\ y.active /\ y.selected = m.selected
           /\ ~HasRange(y)
<1>1. m \in Manager /\ i \in Int /\ i >= 0 /\ i \in -1 .. n - 1
  BY DEF Sound, Within
<1>2. y = [m EXCEPT !.active = TRUE, !.anchor = i]
  BY DEF BeginAnchoredSelection
<1>3. /\ y \in Manager /\ y.current = m.current /\ y.anchor = i /\ y.active = TRUE
      /\ y.selected = m.selected /\ y.told = m.told
  BY <1>1, <1>2 DEF Manager
<1>4. Within(y, n)
  BY <1>1, <1>3 DEF Sound, Within
<1>5. ~HasRange(y)
  BY <1>3 DEF HasRange
<1>6. Knows(y)
  BY <1>3, <1>5 DEF Sound, Knows, SelectedItems
<1>. QED BY <1>3, <1>4, <1>5, <1>6 DEF Sound

LEMMA EndSound ==
    ASSUME NEW m, NEW n \in Nat, Sound(m, n), NEW y, y = EndAnchoredSelection(m)
    PROVE  /\ Sound(y, n) /\ y.current = m.current /\ y.anchor = m.anchor /\ ~y.active
           /\ y.selected = SelectedItems(m) /\ ~HasRange(y) /\ y.told = m.told
<1>. DEFINE s == SelectedItems(m)
<1>1. m \in Manager /\ s \in ItemSets /\ AsSet(s) \subseteq 0 .. n - 1
  BY SelectedIs DEF Sound, Within
<1>2. y = [m EXCEPT !.selected = s, !.active = FALSE]
  BY DEF EndAnchoredSelection
<1>. HIDE DEF s
<1>3. /\ y \in Manager /\ y.current = m.current /\ y.anchor = m.anchor /\ y.active = FALSE
      /\ y.selected = s /\ y.told = m.told
  BY <1>1, <1>2 DEF Manager
<1>4. Within(y, n)
  BY <1>1, <1>3 DEF Sound, Within
<1>5. ~HasRange(y)
  BY <1>3 DEF HasRange
<1>6. Knows(y)
  <2>1. y.told = s
    BY <1>3 DEF Sound, Knows, s
  <2>2. SelectedItems(y) = y.selected
    BY <1>5 DEF SelectedItems
  <2>. QED BY <1>3, <2>1, <2>2 DEF Knows
<1>. QED BY <1>3, <1>4, <1>5, <1>6 DEF Sound, s

LEMMA ClearSound ==
    ASSUME NEW m, NEW n \in Nat, Sound(m, n), NEW y, y = ClearSelection(m)
    PROVE  Sound(y, n) /\ y.current = m.current /\ y.anchor = m.anchor
<1>1. m \in Manager /\ <<>> \in ItemSets /\ AsSet(<<>>) = {}
  BY EmptySet DEF Sound, Within
<1>2. CASE SelectedItems(m) = <<>>
  BY <1>2 DEF ClearSelection
<1>3. CASE SelectedItems(m) # <<>>
  <2>1. y = [m EXCEPT !.selected = <<>>, !.active = FALSE, !.told = <<>>]
    BY <1>3 DEF ClearSelection
  <2>2. /\ y \in Manager /\ y.current = m.current /\ y.anchor = m.anchor /\ y.active = FALSE
        /\ y.selected = <<>> /\ y.told = <<>>
    <3>. DEFINE e == <<>>
    <3>1. e \in ItemSets /\ y = [m EXCEPT !.selected = e, !.active = FALSE, !.told = e]
      BY <1>1, <2>1
    <3>. HIDE DEF e
    <3>2. /\ y \in Manager /\ y.current = m.current /\ y.anchor = m.anchor /\ y.active = FALSE
          /\ y.selected = e /\ y.told = e
      BY <1>1, <3>1 DEF Manager
    <3>. QED BY <3>2 DEF e
  <2>3. Within(y, n)
    BY <1>1, <2>2 DEF Sound, Within
  <2>4. ~HasRange(y)
    BY <2>2 DEF HasRange
  <2>5. Knows(y)
    BY <2>2, <2>4 DEF Knows, SelectedItems
  <2>. QED BY <2>2, <2>3, <2>5 DEF Sound
<1>. QED BY <1>2, <1>3

\* setSelected() and toggleSelected(), for c items from i on.
LEMMA SetSelectedSound ==
    ASSUME NEW m, NEW n \in Nat, Sound(m, n), NEW i \in 0 .. n - 1, NEW c \in Nat,
           NEW mode, NEW y, y = SetSelected(m, n, i, c, mode)
    PROVE  Sound(y, n) /\ y.current = m.current /\ ~y.active
<1>. DEFINE e == EndAnchoredSelection(m)
            j == Min({i + c, n})
            l == [k \in 1 .. j - i |-> i + k - 1]
            s == e.selected
            t == IF mode = "Select" THEN InsertAll(s, l) ELSE ToggleAll(s, l)
            x == [e EXCEPT !.selected = t]
<1>1. /\ Sound(e, n) /\ e.current = m.current /\ ~e.active /\ ~HasRange(e)
  BY EndSound
<1>2. e \in Manager /\ s \in ItemSets /\ AsSet(s) \subseteq 0 .. n - 1
  <2>. HIDE DEF e
  <2>. QED BY <1>1 DEF Sound, Within, Manager
<1>3. j \in Nat /\ j <= n
  <2>1. i + c \in Int /\ n \in Int /\ i + c >= 0
    OBVIOUS
  <2>2. j = IF i + c <= n THEN i + c ELSE n
    BY <2>1, MinOfTwo
  <2>. QED BY <2>1, <2>2
<1>4. l = [k \in 1 .. (j - i) |-> (i + k) - 1]
  <2>. HIDE DEF j
  <2>1. \A k \in 1 .. j - i : i + k - 1 = (i + k) - 1
    BY <1>3
  <2>. QED BY <2>1
<1>5. l \in Seq(Nat) /\ ToSet(l) = i .. j - 1 /\ IsInjective(l)
  <2>. HIDE DEF j, l
  <2>. QED BY <1>3, <1>4, RangeListed
<1>6. t \in ItemSets /\ AsSet(t) \subseteq 0 .. n - 1
  <2>1. \A p, q \in 1 .. Len(l) : p # q => l[p] # l[q]
    <3>1. DOMAIN l = 1 .. Len(l)
      <4>. HIDE DEF l
      <4>. QED BY <1>5
    <3>. HIDE DEF l
    <3>. QED BY <1>5, <3>1 DEF IsInjective
  <2>2. ToSet(l) \subseteq 0 .. n - 1
    <3>1. i .. j - 1 \subseteq 0 .. n - 1
      <4>. HIDE DEF j
      <4>. QED BY <1>3
    <3>. HIDE DEF l
    <3>. QED BY <1>5, <3>1
  <2>. HIDE DEF l, s
  <2>3. /\ InsertAll(s, l) \in ItemSets /\ AsSet(InsertAll(s, l)) = AsSet(s) \cup ToSet(l)
    BY <1>2, <1>5, InsertAllCorrect
  <2>4. /\ ToggleAll(s, l) \in ItemSets
        /\ AsSet(ToggleAll(s, l)) = (AsSet(s) \ ToSet(l)) \cup (ToSet(l) \ AsSet(s))
    BY <1>2, <1>5, <2>1, ToggleAllCorrect
  <2>. QED BY <1>2, <2>2, <2>3, <2>4
<1>7. y = Emit(x, s)
  BY DEF SetSelected
<1>. HIDE DEF e, l, j, t
<1>8. /\ x \in Manager /\ x.current = e.current /\ x.anchor = e.anchor /\ x.active = e.active
      /\ x.selected = t /\ x.told = e.told
  BY <1>2, <1>6 DEF Manager
<1>. HIDE DEF x
<1>9. Within(x, n)
  BY <1>1, <1>6, <1>8 DEF Sound, Within
<1>10. x.told = s
  <2>1. e.told = SelectedItems(e)
    BY <1>1 DEF Sound, Knows
  <2>. QED BY <1>1, <1>8, <2>1 DEF SelectedItems
<1>11. Within(y, n) /\ Knows(y) /\ Same(y, x)
  <2>. HIDE DEF s
  <2>. QED BY <1>7, <1>9, <1>10, EmitKnows
<1>. QED BY <1>1, <1>8, <1>11 DEF Sound, Same, HasRange

LEMMA NotSelected ==
    ASSUME NEW m, NEW n \in Nat, NEW i, i \notin 0 .. n - 1, NEW c, NEW mode
    PROVE  SetSelected(m, n, i, c, mode) = m
BY DEF SetSelected

LEMMA ToggleSound ==
    ASSUME NEW m, NEW n \in Nat, Sound(m, n), NEW i \in Int, NEW y, y = Toggle(m, n, i)
    PROVE  /\ Sound(y, n) /\ y.current = m.current
           /\ i \in 0 .. n - 1 => ~y.active
<1>1. y = SetSelected(m, n, i, 1, "Toggle") /\ 1 \in Nat
  BY DEF Toggle
<1>2. CASE i \in 0 .. n - 1
  <2>1. Sound(y, n) /\ y.current = m.current /\ ~y.active
    BY <1>1, <1>2, SetSelectedSound
  <2>. QED BY <2>1
<1>3. CASE i \notin 0 .. n - 1
  BY <1>1, <1>3, NotSelected
<1>. QED BY <1>2, <1>3

LEMMA SelectSound ==
    ASSUME NEW m, NEW n \in Nat, Sound(m, n), NEW i \in 0 .. n - 1, NEW y, y = Select(m, n, i)
    PROVE  Sound(y, n) /\ y.current = m.current /\ ~y.active
<1>1. y = SetSelected(m, n, i, 1, "Select") /\ 1 \in Nat
  BY DEF Select
<1>2. Sound(y, n) /\ y.current = m.current /\ ~y.active
  BY <1>1, SetSelectedSound
<1>. QED BY <1>2

LEMMA SelectOnlySound ==
    ASSUME NEW m, NEW n \in Nat, Sound(m, n), NEW i \in 0 .. n - 1, NEW y, y = SelectOnly(m, n, i)
    PROVE  Sound(y, n) /\ y.current = m.current /\ ~y.active
<1>. DEFINE x == ClearSelection(m)
<1>1. y = Select(x, n, i) /\ x = ClearSelection(m)
  BY DEF SelectOnly
<1>. HIDE DEF x
<1>2. Sound(x, n) /\ x.current = m.current
  BY <1>1, ClearSound
<1>. QED BY <1>1, <1>2, SelectSound


----------------------------------------------------------------------------
\* Where an item is after the model has changed.

IsCount(f, r, i) ==
    /\ f \in [0 .. Len(r) -> Nat] /\ f[0] = 0
    /\ \A k \in 1 .. Len(r) : f[k] = IF k \in UpTo(r, i) THEN f[k - 1] + r[k].count ELSE f[k - 1]

LEMMA CountIs ==
    ASSUME NEW r \in Seq(Ranges), NEW i \in Int
    PROVE  \E f : IsCount(f, r, i) /\ CountUpTo(r, i) = f[Len(r)]
<1>. DEFINE n == Len(r)
            step == [k \in 1 .. n |-> [c \in Nat |-> IF k \in UpTo(r, i) THEN c + r[k].count ELSE c]]
            IsUpto(f) == f = [k \in 0 .. n |-> IF k = 0 THEN 0
                                              ELSE IF k \in UpTo(r, i) THEN f[k - 1] + r[k].count
                                              ELSE f[k - 1]]
            upto == CHOOSE f : IsUpto(f)
<1>1. n \in Nat /\ \A k \in 1 .. n : r[k].count \in Nat
  BY RangeParts
<1>2. step \in [1 .. n -> [Nat -> Nat]]
  BY <1>1
<1>3. PICK g : IsIteration(g, n, Nat, 0, step)
  <2>1. 0 \in Nat
    OBVIOUS
  <2>. HIDE DEF step, n
  <2>. QED BY <1>1, <1>2, <2>1, Iterated
<1>4. g \in [0 .. n -> Nat] /\ \A k \in 0 .. n : g[k] = IF k = 0 THEN 0 ELSE step[k][g[k - 1]]
  <2>. HIDE DEF step, n
  <2>. QED BY <1>3 DEF IsIteration
<1>5. IsUpto(g)
  <2>1. ASSUME NEW k \in 0 .. n
        PROVE  g[k] = IF k = 0 THEN 0 ELSE IF k \in UpTo(r, i) THEN g[k - 1] + r[k].count ELSE g[k - 1]
    <3>1. k # 0 => k \in 1 .. n /\ k - 1 \in 0 .. n
      BY <1>1
    <3>2. k # 0 => g[k - 1] \in Nat
      <4>. HIDE DEF n
      <4>. QED BY <1>4, <3>1
    <3>3. g[k] = IF k = 0 THEN 0 ELSE step[k][g[k - 1]]
      BY <1>4
    <3>. HIDE DEF n
    <3>. QED BY <3>1, <3>2, <3>3
  <2>2. g = [k \in 0 .. n |-> g[k]]
    BY <1>4
  <2>. HIDE DEF n, step
  <2>. QED BY <2>1, <2>2
<1>6. IsUpto(upto)
  <2>. HIDE DEF IsUpto
  <2>. QED BY <1>5
<1>7. CountUpTo(r, i) = upto[n]
  BY DEF CountUpTo
<1>. HIDE DEF upto
<1>8. \A k \in 0 .. n : upto[k] = IF k = 0 THEN 0
                                  ELSE IF k \in UpTo(r, i) THEN upto[k - 1] + r[k].count
                                  ELSE upto[k - 1]
  BY <1>6
<1>. DEFINE D == {k \in 0 .. n : upto[k] \in Nat}
<1>9. D = 0 .. n
  <2>1. 0 \in D
    BY <1>1, <1>8
  <2>2. ASSUME NEW k \in 1 .. n, k - 1 \in D PROVE k \in D
    <3>1. k \in 0 .. n /\ k # 0 /\ upto[k - 1] \in Nat
      BY <1>1, <2>2
    <3>. HIDE DEF n
    <3>. QED BY <1>1, <1>8, <3>1
  <2>3. D \in SUBSET (0 .. n)
    OBVIOUS
  <2>. HIDE DEF D, n
  <2>. QED BY <1>1, <2>1, <2>2, <2>3, Climb
<1>10. upto \in [0 .. n -> Nat]
  <2>1. \A k \in 0 .. n : upto[k] \in Nat
    BY <1>9
  <2>2. DOMAIN upto = 0 .. n /\ upto = [k \in 0 .. n |-> upto[k]]
    BY <1>6
  <2>. HIDE DEF n, IsUpto
  <2>. QED BY <2>1, <2>2
<1>11. IsCount(upto, r, i)
  <2>1. 0 \in 0 .. n /\ \A k \in 1 .. n : k \in 0 .. n /\ k # 0
    BY <1>1
  <2>2. upto[0] = 0
    BY <1>8, <2>1
  <2>3. \A k \in 1 .. n : upto[k] = IF k \in UpTo(r, i) THEN upto[k - 1] + r[k].count ELSE upto[k - 1]
    <3>. HIDE DEF n
    <3>. QED BY <1>8, <2>1
  <2>. QED BY <1>10, <2>2, <2>3 DEF IsCount
<1>. QED BY <1>7, <1>11

\* A range behind the others counts when it begins at or before the index.
LEMMA CountAppend ==
    ASSUME NEW r \in Seq(Ranges), NEW x \in Ranges, NEW i \in Int,
           \A j \in 1 .. Len(r) : r[j].index <= x.index
    PROVE  /\ CountUpTo(r, i) \in Nat
           /\ CountUpTo(Append(r, x), i) = CountUpTo(r, i) + (IF x.index <= i THEN x.count ELSE 0)
<1>. DEFINE n == Len(r)
            u == Append(r, x)
<1>1. n \in Nat /\ u \in Seq(Ranges) /\ Len(u) = n + 1 /\ u[n + 1] = x /\ x.index \in Nat /\ x.count \in Nat
      /\ \A j \in 1 .. n : u[j] = r[j] /\ r[j].index \in Nat
  BY RangeParts DEF Ranges
<1>2. PICK f : IsCount(f, r, i) /\ CountUpTo(r, i) = f[n]
  BY CountIs
<1>. HIDE DEF u
<1>3. PICK g : IsCount(g, u, i) /\ CountUpTo(u, i) = g[n + 1]
  <2>1. Len(u) = n + 1
    BY <1>1
  <2>2. \E g : IsCount(g, u, i) /\ CountUpTo(u, i) = g[Len(u)]
    BY <1>1, CountIs
  <2>. HIDE DEF n
  <2>. QED BY <2>1, <2>2
<1>4. /\ f \in [0 .. n -> Nat] /\ f[0] = 0
      /\ \A k \in 1 .. n : f[k] = IF k \in UpTo(r, i) THEN f[k - 1] + r[k].count ELSE f[k - 1]
  BY <1>2 DEF IsCount
<1>5. /\ g \in [0 .. n + 1 -> Nat] /\ g[0] = 0
      /\ \A k \in 1 .. n + 1 : g[k] = IF k \in UpTo(u, i) THEN g[k - 1] + u[k].count ELSE g[k - 1]
  BY <1>1, <1>3 DEF IsCount
<1>6. \A k \in 1 .. n : k \in UpTo(u, i) <=> k \in UpTo(r, i)
  <2>. SUFFICES ASSUME NEW k \in 1 .. n PROVE k \in UpTo(u, i) <=> k \in UpTo(r, i)
    OBVIOUS
  <2>1. k \in DOMAIN u /\ k \in DOMAIN r /\ \A j \in 1 .. k : j \in 1 .. n
    BY <1>1
  <2>2. \A j \in 1 .. k : u[j] = r[j]
    BY <1>1, <2>1
  <2>. QED BY <2>1, <2>2 DEF UpTo
<1>7. n + 1 \in UpTo(u, i) <=> x.index <= i
  <2>1. n + 1 \in DOMAIN u /\ n + 1 \in 1 .. n + 1 /\ \A j \in 1 .. n + 1 : j = n + 1 \/ j \in 1 .. n
    BY <1>1
  <2>2. ASSUME x.index <= i, NEW j \in 1 .. n + 1 PROVE u[j].index <= i
    <3>1. CASE j = n + 1
      BY <1>1, <2>2, <3>1
    <3>2. CASE j \in 1 .. n
      <4>1. u[j] = r[j] /\ r[j].index <= x.index /\ r[j].index \in Nat
        BY <1>1, <3>2
      <4>. QED BY <1>1, <2>2, <4>1
    <3>. QED BY <2>1, <3>1, <3>2
  <2>3. n + 1 \in UpTo(u, i) => x.index <= i
    BY <1>1, <2>1 DEF UpTo
  <2>. QED BY <2>1, <2>2, <2>3 DEF UpTo
<1>. DEFINE D == {k \in 0 .. n : g[k] = f[k]}
<1>8. D = 0 .. n
  <2>1. 0 \in D
    BY <1>1, <1>4, <1>5
  <2>2. ASSUME NEW k \in 1 .. n, k - 1 \in D PROVE k \in D
    <3>1. g[k - 1] = f[k - 1] /\ k \in 0 .. n /\ k \in 1 .. n + 1
      BY <1>1, <2>2
    <3>2. u[k] = r[k] /\ (k \in UpTo(u, i) <=> k \in UpTo(r, i))
      BY <1>1, <1>6
    <3>3. f[k] = IF k \in UpTo(r, i) THEN f[k - 1] + r[k].count ELSE f[k - 1]
      BY <1>4
    <3>4. g[k] = IF k \in UpTo(u, i) THEN g[k - 1] + u[k].count ELSE g[k - 1]
      BY <1>5, <3>1
    <3>. QED BY <3>1, <3>2, <3>3, <3>4
  <2>3. D \in SUBSET (0 .. n)
    OBVIOUS
  <2>. HIDE DEF D, n
  <2>. QED BY <1>1, <2>1, <2>2, <2>3, Climb
<1>9. g[n] = f[n] /\ f[n] \in Nat
  <2>1. n \in 0 .. n
    BY <1>1
  <2>. QED BY <1>4, <1>8, <2>1
<1>10. g[n + 1] = IF n + 1 \in UpTo(u, i) THEN g[n] + u[n + 1].count ELSE g[n]
  <2>1. n + 1 \in 1 .. n + 1 /\ n + 1 - 1 = n
    BY <1>1
  <2>. DEFINE k == n + 1
  <2>2. k \in 1 .. n + 1 /\ k - 1 = n
    BY <2>1
  <2>. HIDE DEF n
  <2>3. g[k] = IF k \in UpTo(u, i) THEN g[k - 1] + u[k].count ELSE g[k - 1]
    <3>. HIDE DEF k
    <3>. QED BY <1>5, <2>2
  <2>. QED BY <2>2, <2>3
<1>11. g[n + 1] = f[n] + (IF x.index <= i THEN x.count ELSE 0)
  BY <1>1, <1>7, <1>9, <1>10
<1>. HIDE DEF n
<1>. QED BY <1>2, <1>3, <1>9, <1>11 DEF u


\* The ranges of itemsInserted(): for each old index with items before it, these.
IsRanges(R, n, new) ==
    R = [p \in 0 .. n + 1 |->
            IF p = 0 THEN <<>>
            ELSE IF new[p - 1] = 0 THEN R[p - 1]
            ELSE Append(R[p - 1], KItemRange(p - 1, new[p - 1]))]

LEMMA RangesExist ==
    ASSUME NEW n \in Nat, NEW new \in [0 .. n -> Nat]
    PROVE  \E R : IsRanges(R, n, new)
<1>. DEFINE N == n + 1
            X == Seq(Ranges)
            step == [p \in 1 .. N |-> [r \in X |->
                        IF new[p - 1] = 0 THEN r ELSE Append(r, KItemRange(p - 1, new[p - 1]))]]
<1>1. N \in Nat /\ <<>> \in X
  OBVIOUS
<1>2. step \in [1 .. N -> [X -> X]]
  <2>. SUFFICES ASSUME NEW p \in 1 .. N, NEW r \in X
                PROVE  (IF new[p - 1] = 0 THEN r ELSE Append(r, KItemRange(p - 1, new[p - 1]))) \in X
    OBVIOUS
  <2>1. p - 1 \in 0 .. n /\ p - 1 \in Nat
    OBVIOUS
  <2>2. new[p - 1] \in Nat
    BY <2>1
  <2>3. KItemRange(p - 1, new[p - 1]) \in Ranges
    <3>. DEFINE a == p - 1
                b == new[p - 1]
    <3>1. a \in Nat /\ b \in Nat
      BY <2>1, <2>2
    <3>. HIDE DEF a, b
    <3>2. KItemRange(a, b) \in Ranges
      BY <3>1, NewRange
    <3>. QED BY <3>2 DEF a, b
  <2>. QED BY <2>3
<1>3. PICK R : IsIteration(R, N, X, <<>>, step)
  <2>. HIDE DEF step, N, X
  <2>. QED BY <1>1, <1>2, Iterated
<1>4. R \in [0 .. N -> X] /\ \A p \in 0 .. N : R[p] = IF p = 0 THEN <<>> ELSE step[p][R[p - 1]]
  <2>. HIDE DEF step, N, X
  <2>. QED BY <1>3 DEF IsIteration
<1>5. ASSUME NEW p \in 0 .. N
      PROVE  R[p] = IF p = 0 THEN <<>>
                    ELSE IF new[p - 1] = 0 THEN R[p - 1]
                    ELSE Append(R[p - 1], KItemRange(p - 1, new[p - 1]))
  <2>1. p # 0 => p \in 1 .. N /\ p - 1 \in 0 .. N
    BY <1>1
  <2>2. p # 0 => R[p - 1] \in X
    <3>. HIDE DEF N, X
    <3>. QED BY <1>4, <2>1
  <2>3. R[p] = IF p = 0 THEN <<>> ELSE step[p][R[p - 1]]
    BY <1>4
  <2>. HIDE DEF N, X
  <2>. QED BY <2>1, <2>2, <2>3
<1>6. R = [p \in 0 .. N |-> R[p]]
  BY <1>4
<1>7. R = [p \in 0 .. N |-> IF p = 0 THEN <<>>
                            ELSE IF new[p - 1] = 0 THEN R[p - 1]
                            ELSE Append(R[p - 1], KItemRange(p - 1, new[p - 1]))]
  <2>. HIDE DEF N, step
  <2>. QED BY <1>5, <1>6
<1>. QED BY <1>7 DEF IsRanges

\* An old item is moved by the new items up to it: P[p] is the place, from 1 on,
\* of the old item p in the new list, and P[n] is behind its end.
LEMMA InsertedPlace ==
    ASSUME NEW n \in Nat, NEW P \in [0 .. n -> Nat], P[0] > 0,
           \A p \in 1 .. n : P[p - 1] < P[p],
           NEW new \in [0 .. n -> Nat], new[0] = P[0] - 1,
           \A p \in 1 .. n : new[p] = P[p] - 1 - P[p - 1],
           NEW R, IsRanges(R, n, new), NEW i \in 0 .. n - 1
    PROVE  AfterInserting(R[n + 1], i) = P[i] - 1
<1>. DEFINE N == n + 1
            C(p) == CountUpTo(R[p], i)
            Right(p) == /\ R[p] \in Seq(Ranges) /\ \A j \in 1 .. Len(R[p]) : R[p][j].index <= p - 1
                        /\ C(p) = IF p = 0 THEN 0 ELSE IF p - 1 <= i THEN P[p - 1] - p ELSE P[i] - 1 - i
            D == {p \in 0 .. N : Right(p)}
<1>1. N \in Nat /\ i \in Int /\ i \in 0 .. n
  OBVIOUS
<1>2. \A p \in 0 .. N : R[p] = IF p = 0 THEN <<>>
                               ELSE IF new[p - 1] = 0 THEN R[p - 1]
                               ELSE Append(R[p - 1], KItemRange(p - 1, new[p - 1]))
  BY DEF IsRanges
<1>3. 0 \in D
  <2>1. 0 \in 0 .. N /\ R[0] = <<>>
    BY <1>1, <1>2
  <2>2. R[0] \in Seq(Ranges) /\ Len(R[0]) = 0
    BY <2>1
  <2>3. C(0) = 0
    <3>. DEFINE r == R[0]
    <3>1. r \in Seq(Ranges) /\ Len(r) = 0
      BY <2>2
    <3>. HIDE DEF r
    <3>2. PICK f : IsCount(f, r, i) /\ CountUpTo(r, i) = f[Len(r)]
      BY <1>1, <3>1, CountIs
    <3>3. CountUpTo(r, i) = 0
      BY <3>1, <3>2 DEF IsCount
    <3>. QED BY <3>3 DEF r
  <2>4. \A j \in 1 .. Len(R[0]) : R[0][j].index <= 0 - 1
    BY <2>2
  <2>. HIDE DEF C
  <2>. QED BY <2>1, <2>2, <2>3, <2>4
<1>4. ASSUME NEW p \in 1 .. N, p - 1 \in D PROVE p \in D
  <2>. DEFINE q == p - 1
              r == R[q]
              x == KItemRange(q, new[q])
              u == R[p]
  <2>1. q \in Nat /\ q \in 0 .. n /\ p \in 0 .. N /\ p # 0 /\ p = q + 1 /\ p \in Int
    BY <1>1
  <2>2. /\ r \in Seq(Ranges) /\ \A j \in 1 .. Len(r) : r[j].index <= q - 1
        /\ CountUpTo(r, i) = IF q = 0 THEN 0 ELSE IF q - 1 <= i THEN P[q - 1] - q ELSE P[i] - 1 - i
    BY <1>4
  <2>3. new[q] \in Nat /\ P[q] \in Nat /\ P[i] \in Nat
    BY <1>1, <2>1
  <2>4. u = IF new[q] = 0 THEN r ELSE Append(r, x)
    BY <1>2, <2>1
  <2>5. x \in Ranges /\ x.index = q /\ x.count = new[q]
    <3>. DEFINE b == new[q]
    <3>1. b \in Nat
      BY <2>3
    <3>. HIDE DEF q, b
    <3>2. KItemRange(q, b) \in Ranges /\ KItemRange(q, b).index = q /\ KItemRange(q, b).count = b
      BY <2>1, <3>1, NewRange
    <3>. QED BY <3>2 DEF b
  <2>. HIDE DEF r, x, u, q
  <2>6. \A j \in 1 .. Len(r) : r[j].index <= q - 1 /\ r[j].index \in Nat
    BY <2>2, RangeParts
  <2>7. CountUpTo(r, i) \in Nat
    <3>1. PICK f : IsCount(f, r, i) /\ CountUpTo(r, i) = f[Len(r)]
      BY <1>1, <2>2, CountIs
    <3>2. Len(r) \in 0 .. Len(r)
      BY <2>2
    <3>. QED BY <3>1, <3>2 DEF IsCount
  <2>8. CountUpTo(u, i) = CountUpTo(r, i) + (IF q <= i THEN new[q] ELSE 0)
    <3>1. CASE new[q] = 0
      BY <2>4, <2>7, <3>1
    <3>2. CASE new[q] # 0
      <4>1. \A j \in 1 .. Len(r) : r[j].index <= x.index
        BY <2>1, <2>5, <2>6
      <4>2. CountUpTo(Append(r, x), i) = CountUpTo(r, i) + (IF x.index <= i THEN x.count ELSE 0)
        BY <1>1, <2>2, <2>5, <4>1, CountAppend
      <4>. QED BY <2>4, <2>5, <3>2, <4>2
    <3>. QED BY <3>1, <3>2
  <2>9. u \in Seq(Ranges) /\ \A j \in 1 .. Len(u) : u[j].index <= q
    <3>1. CASE new[q] = 0
      <4>1. u = r
        BY <2>4, <3>1
      <4>2. \A j \in 1 .. Len(r) : r[j].index <= q
        <5>. SUFFICES ASSUME NEW j \in 1 .. Len(r) PROVE r[j].index <= q
          OBVIOUS
        <5>1. r[j].index <= q - 1 /\ r[j].index \in Nat
          BY <2>6
        <5>. QED BY <2>1, <5>1
      <4>. QED BY <2>2, <4>1, <4>2
    <3>2. CASE new[q] # 0
      <4>1. u = Append(r, x)
        BY <2>4, <3>2
      <4>2. u \in Seq(Ranges) /\ Len(u) = Len(r) + 1 /\ u[Len(r) + 1] = x
            /\ Len(r) \in Nat /\ \A j \in 1 .. Len(r) : u[j] = r[j]
        <5>1. r \in Seq(Ranges) /\ x \in Ranges
          BY <2>2, <2>5
        <5>. QED BY <4>1, <5>1
      <4>3. ASSUME NEW j \in 1 .. Len(u) PROVE u[j].index <= q
        <5>1. CASE j \in 1 .. Len(r)
          <6>1. u[j] = r[j] /\ r[j].index <= q - 1 /\ r[j].index \in Nat
            BY <2>6, <4>2, <5>1
          <6>. QED BY <2>1, <6>1
        <5>2. CASE j = Len(r) + 1
          BY <2>1, <2>5, <4>2, <5>2
        <5>. QED BY <4>2, <5>1, <5>2
      <4>. QED BY <4>2, <4>3
    <3>. QED BY <3>1, <3>2
  <2>10. CountUpTo(u, i) = IF q <= i THEN P[q] - p ELSE P[i] - 1 - i
    <3>. DEFINE c == CountUpTo(r, i)
                a == P[q]
                b == P[q - 1]
                d == P[i]
                w == new[q]
    <3>1. CASE q = 0
      <4>1. w = a - 1 /\ c = 0
        BY <2>2, <3>1
      <4>. HIDE DEF c, a, d, w
      <4>. QED BY <1>1, <2>1, <2>3, <2>8, <3>1, <4>1 DEF a, d, w, c
    <3>2. CASE q # 0
      <4>1. q \in 1 .. n /\ q - 1 \in 0 .. n
        BY <2>1, <3>2
      <4>2. w = a - 1 - b /\ b \in Nat
        BY <4>1
      <4>3. c = IF q - 1 <= i THEN b - q ELSE d - 1 - i
        BY <2>2, <3>2
      <4>4. c + (IF q <= i THEN w ELSE 0) = IF q <= i THEN a - p ELSE d - 1 - i
        <5>1. a \in Nat /\ d \in Nat /\ c \in Nat
          BY <2>3, <2>7
        <5>2. q = i + 1 => b = d
          <6>1. q = i + 1 => q - 1 = i
            BY <1>1
          <6>. QED BY <6>1
        <5>. HIDE DEF c, a, b, d, w
        <5>3. CASE q <= i
          BY <1>1, <2>1, <4>2, <4>3, <5>1, <5>3
        <5>4. CASE q = i + 1
          BY <1>1, <2>1, <4>2, <4>3, <5>1, <5>2, <5>4
        <5>5. CASE q > i + 1
          BY <1>1, <2>1, <4>2, <4>3, <5>1, <5>5
        <5>. QED BY <1>1, <2>1, <5>3, <5>4, <5>5
      <4>. QED BY <2>8, <4>4
    <3>. QED BY <3>1, <3>2
  <2>11. \A j \in 1 .. Len(u) : u[j].index <= p - 1
    BY <2>1, <2>9
  <2>12. p - 1 = q
    BY <2>1
  <2>. QED BY <2>1, <2>9, <2>10, <2>11, <2>12 DEF u
<1>5. D = 0 .. N
  <2>1. D \in SUBSET (0 .. N)
    OBVIOUS
  <2>. HIDE DEF D, N
  <2>. QED BY <1>1, <1>3, <1>4, <2>1, Climb
<1>6. Right(N)
  <2>1. N \in 0 .. N
    BY <1>1
  <2>. HIDE DEF N, Right
  <2>. QED BY <1>5, <2>1
<1>7. C(N) = P[i] - 1 - i
  <2>1. N # 0 /\ ~(N - 1 <= i)
    BY <1>1
  <2>. HIDE DEF N, C
  <2>. QED BY <1>6, <2>1
<1>8. P[i] \in Nat
  BY <1>1
<1>9. i + C(N) = P[i] - 1
  <2>. HIDE DEF C
  <2>. QED BY <1>1, <1>7, <1>8
<1>. QED BY <1>9 DEF AfterInserting


\* itemsInserted(), when it moves each index i to g[i].
Shifts(ranges, n, h, g) ==
    g \in [0 .. n - 1 -> 0 .. h - 1] /\ \A i \in 0 .. n - 1 : AfterInserting(ranges, i) = g[i]
Shifted(m, y, g) ==
    /\ y.active = m.active
    /\ m.current >= 0 => y.current = g[m.current]
    /\ m.anchor >= 0 => y.anchor = g[m.anchor]
    /\ AsSet(y.selected) = {g[i] : i \in AsSet(m.selected)}

LEMMA InsertedSound ==
    ASSUME NEW m, NEW n \in Nat, Sound(m, n), NEW h \in Nat, h > n, NEW g, NEW ranges,
           Shifts(ranges, n, h, g), NEW y, y = ItemsInserted(m, h, ranges)
    PROVE  Sound(y, h) /\ Shifted(m, y, g)
<1>. DEFINE Moved(i) == IF i < 0 THEN 0 ELSE AfterInserting(ranges, i)
            s == m.selected
            to == [i \in AsSet(s) |-> Moved(i)]
            a == Moved(m.anchor)
            c == IF m.current < 0 THEN 0 ELSE Moved(m.current)
            b == IF m.current < 0 THEN SetCurrentItem(m, h, 0) ELSE [m EXCEPT !.current = Moved(m.current)]
            v == MoveAll(s, to)
            x == [b EXCEPT !.anchor = a, !.selected = v]
<1>1. /\ m \in Manager /\ m.current \in -1 .. n - 1 /\ m.anchor \in -1 .. n - 1
      /\ (m.active => m.anchor >= 0 /\ m.current >= 0)
      /\ s \in ItemSets /\ AsSet(s) \subseteq 0 .. n - 1
  BY DEF Sound, Within, Manager
<1>0. g \in [0 .. n - 1 -> 0 .. h - 1] /\ \A i \in 0 .. n - 1 : AfterInserting(ranges, i) = g[i]
  BY DEF Shifts
<1>2. \A i \in 0 .. n - 1 : Moved(i) = g[i] /\ g[i] \in 0 .. h - 1
  <2>. SUFFICES ASSUME NEW i \in 0 .. n - 1 PROVE Moved(i) = g[i] /\ g[i] \in 0 .. h - 1
    OBVIOUS
  <2>1. ~(i < 0)
    OBVIOUS
  <2>. QED BY <1>0, <2>1
<1>3. /\ a \in 0 .. h - 1 /\ (m.anchor >= 0 => a = g[m.anchor])
      /\ c \in 0 .. h - 1 /\ (m.current >= 0 => c = g[m.current])
  <2>1. \A i \in -1 .. n - 1 : i >= 0 => i \in 0 .. n - 1
    OBVIOUS
  <2>2. \A i \in -1 .. n - 1 : Moved(i) \in 0 .. h - 1 /\ (i >= 0 => Moved(i) = g[i])
    <3>. SUFFICES ASSUME NEW i \in -1 .. n - 1
                  PROVE  Moved(i) \in 0 .. h - 1 /\ (i >= 0 => Moved(i) = g[i])
      OBVIOUS
    <3>1. CASE i >= 0
      BY <1>2, <2>1, <3>1
    <3>2. CASE i < 0
      BY <3>2
    <3>. QED BY <3>1, <3>2
  <2>3. 0 \in 0 .. h - 1
    OBVIOUS
  <2>. HIDE DEF Moved
  <2>. QED BY <1>1, <2>2, <2>3
<1>4. to \in [AsSet(s) -> Int] /\ \A i \in AsSet(s) : to[i] = g[i] /\ g[i] \in 0 .. h - 1
  <2>. HIDE DEF Moved, s
  <2>. QED BY <1>1, <1>2
<1>5. v \in ItemSets /\ AsSet(v) = {g[i] : i \in AsSet(s)} /\ AsSet(v) \subseteq 0 .. h - 1
  <2>. HIDE DEF to, s
  <2>1. v \in ItemSets /\ AsSet(v) = {to[i] : i \in AsSet(s)} \cap Nat
    BY <1>1, <1>4, MoveAllCorrect
  <2>2. {to[i] : i \in AsSet(s)} = {g[i] : i \in AsSet(s)}
    BY <1>4
  <2>. DEFINE G == {g[i] : i \in AsSet(s)}
  <2>3. G \subseteq 0 .. h - 1
    BY <1>4
  <2>4. AsSet(v) = G \cap Nat
    BY <2>1, <2>2
  <2>. HIDE DEF v, G
  <2>5. AsSet(v) = G /\ AsSet(v) \subseteq 0 .. h - 1
    <3>1. \A k \in G : k \in Nat
      BY <2>3
    <3>2. G \cap Nat = G
      BY <3>1
    <3>. QED BY <2>3, <2>4, <3>2
  <2>. QED BY <2>1, <2>5 DEF G
<1>6. /\ b \in Manager /\ b.current = c /\ b.anchor = m.anchor /\ b.active = m.active
      /\ b.selected = s /\ b.told = m.told
  <2>1. CASE m.current < 0
    <3>1. ~m.active /\ 0 \in 0 .. h - 1
      BY <1>1, <2>1
    <3>2. b = [m EXCEPT !.current = 0]
      BY <2>1, <3>1 DEF SetCurrentItem
    <3>. HIDE DEF b
    <3>. QED BY <1>1, <2>1, <3>2 DEF Manager
  <2>2. CASE ~(m.current < 0)
    <3>1. b = [m EXCEPT !.current = c]
      BY <2>2
    <3>. HIDE DEF b, c
    <3>2. c \in Int
      BY <1>3
    <3>. QED BY <1>1, <3>1, <3>2 DEF Manager
  <2>. QED BY <2>1, <2>2
<1>7. /\ y = Emit([b EXCEPT !.anchor = Moved(b.anchor),
                             !.selected = MoveAll(b.selected, [i \in AsSet(b.selected) |-> Moved(i)])],
                  SelectedItems(m))
  BY DEF ItemsInserted
<1>. HIDE DEF b
<1>8. y = Emit(x, SelectedItems(m))
  BY <1>6, <1>7
<1>. HIDE DEF a, c, v, Moved
<1>9. /\ x \in Manager /\ x.current = c /\ x.anchor = a /\ x.active = m.active
      /\ x.selected = v /\ x.told = m.told
  <2>1. a \in Int /\ c \in Int
    BY <1>3
  <2>. QED BY <1>5, <1>6, <2>1 DEF Manager
<1>. HIDE DEF x
<1>10. Within(x, h)
  <2>1. a \in -1 .. h - 1 /\ c \in -1 .. h - 1 /\ a >= 0 /\ c >= 0
    BY <1>3
  <2>. QED BY <1>5, <1>9, <2>1 DEF Within
<1>11. x.told = SelectedItems(m)
  BY <1>9 DEF Sound, Knows
<1>12. Within(y, h) /\ Knows(y) /\ Same(y, x)
  BY <1>8, <1>10, <1>11, EmitKnows
<1>. QED BY <1>3, <1>5, <1>9, <1>12 DEF Sound, Same, Shifted

\* itemsRemoved(), when f[i] of the items before i are left.
Drops(ranges, n, h, f, gone) ==
    /\ \A i \in 0 .. n - 1 :
          /\ AfterRemoving(ranges, h, i, FALSE) = IF i \in gone THEN -1 ELSE f[i]
          /\ AfterRemoving(ranges, h, i, TRUE) = IF f[i] < h THEN f[i] ELSE h - 1
          /\ i \notin gone => f[i] < h
    /\ AfterRemoving(ranges, h, -1, FALSE) = -1
Dropped(m, y, h, f, gone) ==
    /\ y.active <=> m.active /\ m.anchor \notin gone
    /\ m.anchor >= 0 /\ m.anchor \notin gone => y.anchor = f[m.anchor]
    /\ y.current = IF f[m.current] < h THEN f[m.current] ELSE h - 1
    /\ AsSet(y.selected) = {f[i] : i \in AsSet(m.selected) \ gone}

LEMMA RemovedSound ==
    ASSUME NEW m, NEW n \in Nat, Sound(m, n), n > 0, NEW gone \in SUBSET (0 .. n - 1),
           NEW f \in [0 .. n -> Nat], NEW h \in Nat, NEW ranges, Drops(ranges, n, h, f, gone),
           NEW y, y = ItemsRemoved(m, h, ranges)
    PROVE  Sound(y, h) /\ Dropped(m, y, h, f, gone)
<1>. DEFINE Stays(i) == AfterRemoving(ranges, h, i, FALSE)
            s == m.selected
            to == [i \in AsSet(s) |-> Stays(i)]
            c == IF Stays(m.current) # m.current /\ Stays(m.current) < 0
                 THEN AfterRemoving(ranges, h, m.current, TRUE)
                 ELSE Stays(m.current)
            a == IF m.anchor >= 0 THEN Stays(m.anchor) ELSE m.anchor
            v == MoveAll(s, to)
            d == m.active /\ (m.anchor >= 0 => a >= 0)
            x == [m EXCEPT !.current = c, !.anchor = a, !.active = d, !.selected = v]
<1>1. /\ m \in Manager /\ m.current \in 0 .. n - 1 /\ m.anchor \in -1 .. n - 1
      /\ (m.active => m.anchor >= 0 /\ m.current >= 0) /\ m.active \in BOOLEAN
      /\ s \in ItemSets /\ AsSet(s) \subseteq 0 .. n - 1
  BY DEF Sound, Within, Manager
<1>2. /\ \A i \in 0 .. n - 1 : f[i] \in Nat
      /\ \A i \in 0 .. n - 1 :
          /\ AfterRemoving(ranges, h, i, FALSE) = IF i \in gone THEN -1 ELSE f[i]
          /\ AfterRemoving(ranges, h, i, TRUE) = IF f[i] < h THEN f[i] ELSE h - 1
          /\ i \notin gone => f[i] < h
      /\ AfterRemoving(ranges, h, -1, FALSE) = -1
  <2>1. \A i \in 0 .. n - 1 : f[i] \in Nat
    OBVIOUS
  <2>. QED BY <2>1 DEF Drops
<1>3. \A i \in 0 .. n - 1 : /\ Stays(i) = IF i \in gone THEN -1 ELSE f[i]
                            /\ Stays(i) \in -1 .. h - 1
                            /\ Stays(i) >= 0 <=> i \notin gone
  <2>. SUFFICES ASSUME NEW i \in 0 .. n - 1
                PROVE /\ Stays(i) = IF i \in gone THEN -1 ELSE f[i]
                      /\ Stays(i) \in -1 .. h - 1
                      /\ Stays(i) >= 0 <=> i \notin gone
    OBVIOUS
  <2>1. Stays(i) = IF i \in gone THEN -1 ELSE f[i]
    BY <1>2
  <2>2. f[i] \in Nat /\ (i \notin gone => f[i] < h)
    BY <1>2
  <2>. HIDE DEF Stays
  <2>. QED BY <2>1, <2>2
<1>4. c = (IF f[m.current] < h THEN f[m.current] ELSE h - 1) /\ c \in -1 .. h - 1 /\ (h > 0 => c >= 0)
  <2>. DEFINE k == m.current
              w == f[k]
              e == AfterRemoving(ranges, h, k, TRUE)
  <2>1. k \in 0 .. n - 1 /\ w \in Nat
    BY <1>1, <1>2
  <2>2. e = IF w < h THEN w ELSE h - 1
    BY <1>2, <2>1
  <2>3. /\ Stays(k) = (IF k \in gone THEN -1 ELSE w) /\ (k \notin gone => w < h)
    BY <1>2, <1>3, <2>1
  <2>4. c = IF Stays(k) # k /\ Stays(k) < 0 THEN e ELSE Stays(k)
    OBVIOUS
  <2>. HIDE DEF c, e, w, k, Stays
  <2>5. c = IF w < h THEN w ELSE h - 1
    BY <2>1, <2>2, <2>3, <2>4
  <2>6. c \in -1 .. h - 1 /\ (h > 0 => c >= 0)
    BY <2>1, <2>5
  <2>. QED BY <2>5, <2>6 DEF w, k
<1>5. /\ a \in -1 .. h - 1 /\ (m.anchor >= 0 => (a >= 0 <=> m.anchor \notin gone))
      /\ (m.anchor >= 0 /\ m.anchor \notin gone => a = f[m.anchor])
  <2>. DEFINE k == m.anchor
  <2>1. k \in -1 .. n - 1 /\ a = IF k >= 0 THEN Stays(k) ELSE k
    BY <1>1
  <2>2. CASE k >= 0
    <3>1. k \in 0 .. n - 1
      BY <2>1, <2>2
    <3>. HIDE DEF Stays, a, k
    <3>2. /\ a \in -1 .. h - 1 /\ (a >= 0 <=> k \notin gone) /\ (k \notin gone => a = f[k])
      BY <1>3, <2>1, <2>2, <3>1
    <3>. QED BY <2>2, <3>2 DEF k
  <2>3. CASE ~(k >= 0)
    <3>1. a = -1
      <4>. HIDE DEF k, a, Stays
      <4>. QED BY <2>1, <2>3
    <3>. HIDE DEF a
    <3>. QED BY <2>3, <3>1
  <2>. QED BY <2>2, <2>3
<1>6. to \in [AsSet(s) -> Int] /\ \A i \in AsSet(s) : to[i] = Stays(i)
  <2>. HIDE DEF Stays, s
  <2>. QED BY <1>1, <1>3
<1>7. v \in ItemSets /\ AsSet(v) = {f[i] : i \in AsSet(s) \ gone} /\ AsSet(v) \subseteq 0 .. h - 1
  <2>. HIDE DEF to, s
  <2>1. v \in ItemSets /\ AsSet(v) = {to[i] : i \in AsSet(s)} \cap Nat
    BY <1>1, <1>6, MoveAllCorrect
  <2>. HIDE DEF v, Stays
  <2>2. \A i \in AsSet(s) : to[i] \in Nat <=> i \notin gone
    BY <1>1, <1>3, <1>6
  <2>3. \A i \in AsSet(s) : i \notin gone => to[i] = f[i]
    BY <1>1, <1>3, <1>6
  <2>4. {to[i] : i \in AsSet(s)} \cap Nat = {f[i] : i \in AsSet(s) \ gone}
    BY <2>2, <2>3
  <2>5. \A i \in AsSet(s) \ gone : f[i] \in 0 .. h - 1
    <3>. SUFFICES ASSUME NEW i \in AsSet(s) \ gone PROVE f[i] \in 0 .. h - 1
      OBVIOUS
    <3>1. i \in 0 .. n - 1
      BY <1>1
    <3>2. f[i] \in Nat /\ f[i] < h
      BY <1>2, <3>1
    <3>. QED BY <3>2
  <2>. QED BY <2>1, <2>4, <2>5
<1>8. y = Emit(x, SelectedItems(m))
  BY DEF ItemsRemoved
<1>9. d \in BOOLEAN
  OBVIOUS
<1>10. d <=> m.active /\ m.anchor \notin gone
  <2>. HIDE DEF a
  <2>. QED BY <1>1, <1>5
<1>11. d => a >= 0 /\ c >= 0
  <2>1. d => a >= 0 /\ m.anchor >= 0
    <3>. HIDE DEF a
    <3>. QED BY <1>1
  <2>2. a >= 0 => h > 0
    <3>. HIDE DEF a
    <3>. QED BY <1>5
  <2>. HIDE DEF a, d, c
  <2>. QED BY <1>4, <2>1, <2>2
<1>. HIDE DEF a, c, d, v
<1>12. /\ x \in Manager /\ x.current = c /\ x.anchor = a /\ x.active = d
      /\ x.selected = v /\ x.told = m.told
  <2>1. a \in Int /\ c \in Int
    BY <1>4, <1>5
  <2>. QED BY <1>1, <1>7, <1>9, <2>1 DEF Manager
<1>. HIDE DEF x
<1>13. Within(x, h)
  BY <1>4, <1>5, <1>7, <1>11, <1>12 DEF Within
<1>14. x.told = SelectedItems(m)
  BY <1>12 DEF Sound, Knows
<1>15. Within(y, h) /\ Knows(y) /\ Same(y, x)
  BY <1>8, <1>13, <1>14, EmitKnows
<1>16. y.current = c /\ y.anchor = a /\ y.active = d /\ y.selected = v
  BY <1>12, <1>15 DEF Same
<1>17. AsSet(y.selected) = {f[i] : i \in AsSet(m.selected) \ gone}
  BY <1>7, <1>16
<1>18. m.anchor >= 0 /\ m.anchor \notin gone => y.anchor = f[m.anchor]
  BY <1>5, <1>16
<1>19. y.current = IF f[m.current] < h THEN f[m.current] ELSE h - 1
  BY <1>4, <1>16
<1>. QED BY <1>10, <1>15, <1>16, <1>17, <1>18, <1>19 DEF Sound, Dropped

\* itemsMoved(), when it moves each index i to g[i].
Arranges(to, n, g) ==
    /\ g \in [0 .. n - 1 -> 0 .. n - 1]
    /\ \A i \in 0 .. n - 1 : g[i] = IF i \in DOMAIN to THEN to[i] ELSE i

LEMMA MovedSound ==
    ASSUME NEW m, NEW n \in Nat, Sound(m, n), n > 0, NEW to, NEW g, Arranges(to, n, g),
           NEW y, y = ItemsMoved(m, n, to)
    PROVE  /\ Sound(y, n) /\ y.current = g[m.current] /\ ~HasRange(y)
           /\ AsSet(y.selected) = {g[i] : i \in AsSet(SelectedItems(m))}
<1>. DEFINE Moved(i) == IF i \in DOMAIN to THEN to[i] ELSE i
            e == EndAnchoredSelection(m)
            c == Moved(m.current)
            z == [e EXCEPT !.current = c]
            b == BeginAnchoredSelection(z, n, c)
            s == SelectedItems(m)
            all == [i \in AsSet(s) |-> Moved(i)]
            v == MoveAll(s, all)
            x == [b EXCEPT !.selected = v]
<1>0. /\ g \in [0 .. n - 1 -> 0 .. n - 1]
      /\ \A i \in 0 .. n - 1 : g[i] = IF i \in DOMAIN to THEN to[i] ELSE i
  BY DEF Arranges
<1>1. /\ Sound(e, n) /\ e.current = m.current /\ e.anchor = m.anchor /\ ~e.active /\ e.selected = s
      /\ e.told = m.told
  <2>. HIDE DEF e
  <2>1. e = EndAnchoredSelection(m)
    BY DEF e
  <2>. QED BY <2>1, EndSound
<1>2. m.current \in 0 .. n - 1 /\ s \in ItemSets /\ AsSet(s) \subseteq 0 .. n - 1 /\ e \in Manager
  <2>. HIDE DEF e
  <2>. QED BY <1>1, SelectedIs DEF Sound, Within
<1>3. c = g[m.current] /\ c \in 0 .. n - 1
  BY <1>0, <1>2
<1>4. all \in [AsSet(s) -> Int] /\ \A i \in AsSet(s) : all[i] = g[i] /\ g[i] \in 0 .. n - 1
  <2>. HIDE DEF s
  <2>. QED BY <1>0, <1>2
<1>5. v \in ItemSets /\ AsSet(v) = {g[i] : i \in AsSet(s)} /\ AsSet(v) \subseteq 0 .. n - 1
  <2>. HIDE DEF all, s
  <2>1. v \in ItemSets /\ AsSet(v) = {all[i] : i \in AsSet(s)} \cap Nat
    BY <1>2, <1>4, MoveAllCorrect
  <2>2. {all[i] : i \in AsSet(s)} = {g[i] : i \in AsSet(s)}
    BY <1>4
  <2>. DEFINE G == {g[i] : i \in AsSet(s)}
  <2>3. G \subseteq 0 .. n - 1
    BY <1>4
  <2>4. AsSet(v) = G \cap Nat
    BY <2>1, <2>2
  <2>. HIDE DEF v, G
  <2>5. AsSet(v) = G /\ AsSet(v) \subseteq 0 .. n - 1
    <3>1. \A k \in G : k \in Nat
      BY <2>3
    <3>2. G \cap Nat = G
      BY <3>1
    <3>. QED BY <2>3, <2>4, <3>2
  <2>. QED BY <2>1, <2>5 DEF G
<1>6. y = Emit([b EXCEPT !.selected = MoveAll(b.selected, [i \in AsSet(b.selected) |-> Moved(i)])],
               SelectedItems(m))
  <2>1. e.current = m.current
    BY <1>1
  <2>2. y = LET bb == BeginAnchoredSelection([e EXCEPT !.current = Moved(e.current)], n, c)
            IN Emit([bb EXCEPT !.selected = MoveAll(bb.selected, [i \in AsSet(bb.selected) |-> Moved(i)])],
                    SelectedItems(m))
    BY DEF ItemsMoved
  <2>. HIDE DEF e, Moved
  <2>. QED BY <2>1, <2>2
<1>. HIDE DEF e, c, s
<1>7. b = [z EXCEPT !.active = TRUE, !.anchor = c]
  BY <1>3 DEF BeginAnchoredSelection
<1>. HIDE DEF b
<1>8. /\ b \in Manager /\ b.current = c /\ b.anchor = c /\ b.active = TRUE /\ b.selected = s
      /\ b.told = m.told
  <2>1. c \in Int
    BY <1>3
  <2>2. /\ z \in Manager /\ z.current = c /\ z.selected = s /\ z.told = m.told
    BY <1>1, <1>2, <2>1 DEF Manager
  <2>. HIDE DEF z
  <2>. QED BY <1>7, <2>1, <2>2 DEF Manager
<1>9. y = Emit(x, SelectedItems(m))
  BY <1>6, <1>8
<1>. HIDE DEF v, Moved
<1>10. /\ x \in Manager /\ x.current = c /\ x.anchor = c /\ x.active = TRUE
       /\ x.selected = v /\ x.told = m.told
  BY <1>5, <1>8 DEF Manager
<1>. HIDE DEF x
<1>11. Within(x, n)
  <2>1. c \in -1 .. n - 1 /\ c >= 0
    BY <1>3
  <2>. QED BY <1>5, <1>10, <2>1 DEF Within
<1>12. x.told = SelectedItems(m)
  BY <1>10 DEF Sound, Knows
<1>13. Within(y, n) /\ Knows(y) /\ Same(y, x)
  BY <1>9, <1>11, <1>12, EmitKnows
<1>14. ~HasRange(y)
  BY <1>10, <1>13 DEF Same, HasRange
<1>. QED BY <1>3, <1>5, <1>10, <1>13, <1>14 DEF Sound, Same, s


\* f[k] of the first k of n items are left when those of gone are removed.
IsKept(f, n, gone) ==
    /\ f \in [0 .. n -> Nat] /\ f[0] = 0
    /\ \A k \in 1 .. n : f[k] = f[k - 1] + (IF k - 1 \in gone THEN 0 ELSE 1)

LEMMA KeptSteps ==
    ASSUME NEW n \in Nat, NEW gone, NEW f, IsKept(f, n, gone),
           NEW a \in 0 .. n, NEW b \in 0 .. n, a <= b
    PROVE  /\ f[a] \in Nat /\ f[b] \in Nat /\ f[a] <= f[b]
           /\ (\A x \in a .. b - 1 : x \in gone) => f[b] = f[a]
           /\ (\A x \in a .. b - 1 : x \notin gone) => f[b] = f[a] + (b - a)
<1>. DEFINE N == b - a
            Right(d) == /\ f[a + d] \in Nat /\ f[a] <= f[a + d]
                        /\ (\A x \in a .. b - 1 : x \in gone) => f[a + d] = f[a]
                        /\ (\A x \in a .. b - 1 : x \notin gone) => f[a + d] = f[a] + d
            D == {d \in 0 .. N : Right(d)}
<1>1. N \in Nat /\ a + N = b /\ a + 0 = a /\ a \in Nat /\ b \in Nat
  OBVIOUS
<1>2. \A k \in 0 .. n : f[k] \in Nat
  BY DEF IsKept
<1>3. 0 \in D
  <2>1. f[a] \in Nat
    BY <1>2
  <2>2. 0 \in 0 .. N /\ f[a + 0] = f[a]
    BY <1>1
  <2>3. f[a] <= f[a] /\ f[a] = f[a] + 0
    <3>. DEFINE v == f[a]
    <3>1. v \in Nat
      BY <2>1
    <3>. HIDE DEF v
    <3>2. v <= v /\ v = v + 0
      BY <3>1
    <3>. QED BY <3>2 DEF v
  <2>. HIDE DEF N
  <2>. QED BY <2>1, <2>2, <2>3
<1>4. ASSUME NEW d \in 1 .. N, d - 1 \in D PROVE d \in D
  <2>. DEFINE e == d - 1
              k == a + d
              u == f[a + e]
              v == f[k]
              w == f[a]
  <2>1. k \in 1 .. n /\ a + e = k - 1 /\ k - 1 \in 0 .. n /\ k - 1 \in a .. b - 1 /\ d \in 0 .. N
        /\ e \in Nat /\ d = e + 1
    BY <1>1
  <2>2. v = u + (IF k - 1 \in gone THEN 0 ELSE 1)
    BY <2>1 DEF IsKept
  <2>3. /\ u \in Nat /\ w <= u /\ ((\A x \in a .. b - 1 : x \in gone) => u = w)
        /\ ((\A x \in a .. b - 1 : x \notin gone) => u = w + e)
    BY <1>4
  <2>4. w \in Nat
    BY <1>2
  <2>5. ((\A x \in a .. b - 1 : x \in gone) => k - 1 \in gone)
        /\ ((\A x \in a .. b - 1 : x \notin gone) => k - 1 \notin gone)
    BY <2>1
  <2>. HIDE DEF u, v, w, k, e, N
  <2>6. v \in Nat /\ w <= v
    BY <2>2, <2>3, <2>4
  <2>7. (\A x \in a .. b - 1 : x \in gone) => v = w
    BY <2>2, <2>3, <2>4, <2>5
  <2>8. (\A x \in a .. b - 1 : x \notin gone) => v = w + d
    BY <2>1, <2>2, <2>3, <2>4, <2>5
  <2>. QED BY <2>1, <2>6, <2>7, <2>8 DEF v, w, k
<1>5. D = 0 .. N
  <2>1. D \in SUBSET (0 .. N)
    OBVIOUS
  <2>. HIDE DEF D, N
  <2>. QED BY <1>1, <1>3, <1>4, <2>1, Climb
<1>6. Right(N)
  <2>1. N \in 0 .. N
    BY <1>1
  <2>. HIDE DEF N, Right
  <2>. QED BY <1>5, <2>1
<1>. QED BY <1>1, <1>2, <1>6

LEMMA MinOfOne ==
    ASSUME NEW k \in Int
    PROVE  Min({k}) = k
<1>1. Min({k}) \in {k}
  <2>1. \E x \in {k} : \A y \in {k} : x <= y
    OBVIOUS
  <2>. QED BY <2>1 DEF Min
<1>. QED BY <1>1

\* The range that has i, if one has.
Hit(r, i) == {k \in UpTo(r, i) : i < Behind(r[k])}

\* indexAfterRangesRemoving(): the range of an index that is removed, and the
\* number of indexes that are removed up to there.
LEMMA RemovedPlace ==
    ASSUME NEW n \in Nat, NEW gone \in SUBSET (0 .. n - 1), NEW f, IsKept(f, n, gone),
           NEW r, r = RangesOf(gone), NEW i \in 0 .. n - 1
    PROVE  /\ Hit(r, i) # {} <=> i \in gone
           /\ (IF Hit(r, i) = {} THEN i ELSE Behind(r[Min(Hit(r, i))])) - CountUpTo(r, i) = f[i]
<1>. DEFINE K == Low(r, i)
            E(k) == IF k = 0 THEN 0 ELSE r[k].index + r[k].count
<1>1. r \in ItemSets /\ AsSet(r) = gone
  BY RangesOfCorrect
<1>2. /\ r \in Seq(Ranges) /\ Len(r) \in Nat /\ DOMAIN r = 1 .. Len(r)
      /\ \A k \in 1 .. Len(r) : r[k].index \in Nat /\ r[k].count \in Nat /\ r[k].count > 0
      /\ \A k \in 2 .. Len(r) : r[k - 1].index + r[k - 1].count < r[k].index
  BY <1>1, ValidParts
<1>3. /\ K \in 0 .. Len(r) /\ \A k \in 1 .. K : r[k].index <= i
      /\ \A k \in K + 1 .. Len(r) : r[k].index > i
  <2>1. i \in Int
    OBVIOUS
  <2>. QED BY <1>1, <2>1, LowFinds
<1>4. i \in gone <=> K > 0 /\ i < E(K)
  <2>1. ContainsItem(r, i) <=> i \in AsSet(r)
    <3>1. i \in Int
      OBVIOUS
    <3>. QED BY <1>1, <3>1, ContainsTells
  <2>2. K > 0 => Behind(r[K]) = E(K)
    BY <1>3 DEF Behind
  <2>. QED BY <1>1, <2>1, <2>2 DEF ContainsItem
<1>. HIDE DEF K
<1>5. \A k \in 1 .. Len(r) : k \in UpTo(r, i) <=> k <= K
  <2>. SUFFICES ASSUME NEW k \in 1 .. Len(r) PROVE k \in UpTo(r, i) <=> k <= K
    OBVIOUS
  <2>1. CASE k <= K
    <3>1. \A j \in 1 .. k : j \in 1 .. K
      BY <1>3, <2>1
    <3>. QED BY <1>2, <1>3, <2>1, <3>1 DEF UpTo
  <2>2. CASE ~(k <= K)
    <3>1. k \in K + 1 .. Len(r) /\ k \in 1 .. k
      BY <1>3, <2>2
    <3>2. r[k].index > i /\ r[k].index \in Int
      BY <1>2, <1>3, <3>1
    <3>3. ~(r[k].index <= i)
      <4>. DEFINE p == r[k].index
      <4>1. p > i /\ p \in Int
        BY <3>2
      <4>. HIDE DEF p
      <4>2. ~(p <= i)
        BY <4>1
      <4>. QED BY <4>2 DEF p
    <3>. QED BY <2>2, <3>1, <3>3 DEF UpTo
  <2>. QED BY <2>1, <2>2
<1>6. \A k \in 1 .. Len(r) : E(k) \in 0 .. n /\ r[k].index \in 0 .. n /\ r[k].index <= E(k)
                             /\ E(k) = r[k].index + r[k].count
                             /\ \A x \in r[k].index .. E(k) - 1 : x \in gone
  <2>. SUFFICES ASSUME NEW k \in 1 .. Len(r)
                PROVE  E(k) \in 0 .. n /\ r[k].index \in 0 .. n /\ r[k].index <= E(k)
                       /\ E(k) = r[k].index + r[k].count
                       /\ \A x \in r[k].index .. E(k) - 1 : x \in gone
    OBVIOUS
  <2>. DEFINE p == r[k].index
              c == r[k].count
              e == E(k)
  <2>1. p \in Nat /\ c \in Nat /\ c > 0 /\ k # 0
    BY <1>2
  <2>2. e = p + c
    BY <2>1
  <2>3. ASSUME NEW x \in p .. e - 1 PROVE x \in gone
    <3>1. x \in Nat /\ p <= x /\ x < p + c
      <4>. HIDE DEF p, c, e
      <4>. QED BY <2>1, <2>2
    <3>2. Holds(r, k, x)
      BY <3>1 DEF Holds
    <3>3. Covers(r, x)
      BY <3>2 DEF Covers
    <3>. QED BY <1>1, <1>2, <3>1, <3>3, Members
  <2>. HIDE DEF p, c, e
  <2>4. e - 1 \in p .. e - 1
    BY <2>1, <2>2
  <2>5. e - 1 \in 0 .. n - 1
    BY <2>3, <2>4
  <2>6. e \in 0 .. n /\ p \in 0 .. n /\ p <= e
    BY <2>1, <2>2, <2>5
  <2>. QED BY <2>2, <2>3, <2>6 DEF p, c, e
<1>7. ASSUME NEW x \in gone
      PROVE  \E k \in 1 .. Len(r) : r[k].index <= x /\ x < E(k)
  <2>1. Covers(r, x)
    BY <1>1, <1>2, Members
  <2>2. PICK k \in 1 .. Len(r) : Holds(r, k, x)
    BY <2>1 DEF Covers
  <2>3. r[k].index <= x /\ x < r[k].index + r[k].count /\ k # 0
    BY <1>2, <2>2 DEF Holds
  <2>. QED BY <2>3
<1>8. PICK c : IsCount(c, r, i) /\ CountUpTo(r, i) = c[Len(r)]
  <2>1. i \in Int
    OBVIOUS
  <2>. QED BY <1>2, <2>1, CountIs
<1>9. /\ c \in [0 .. Len(r) -> Nat] /\ c[0] = 0
      /\ \A k \in 1 .. Len(r) : c[k] = IF k \in UpTo(r, i) THEN c[k - 1] + r[k].count ELSE c[k - 1]
  BY <1>8 DEF IsCount
\* Up to K each range takes its indexes out, and between two ranges all stay.
<1>10. c[K] + f[E(K)] = E(K) /\ c[K] \in Nat
  <2>. DEFINE Right(k) == c[k] + f[E(k)] = E(k)
              D == {k \in 0 .. K : Right(k)}
  <2>1. 0 \in D
    BY <1>3, <1>9 DEF IsKept
  <2>2. ASSUME NEW k \in 1 .. K, k - 1 \in D PROVE k \in D
    <3>. DEFINE j == k - 1
                p == r[k].index
                w == r[k].count
                e == E(k)
                d == E(j)
    <3>1. k \in 1 .. Len(r) /\ j \in 0 .. Len(r) /\ k \in 0 .. K /\ k <= K /\ j \in Int
      BY <1>2, <1>3
    <3>2. p \in 0 .. n /\ e \in 0 .. n /\ p <= e /\ e = p + w /\ \A x \in p .. e - 1 : x \in gone
      BY <1>6, <3>1
    <3>3. d \in 0 .. n /\ d <= p
      <4>1. CASE j = 0
        BY <3>2, <4>1
      <4>2. CASE j # 0
        <5>1. j \in 1 .. Len(r) /\ k \in 2 .. Len(r)
          BY <3>1, <4>2
        <5>2. d \in 0 .. n /\ d = r[k - 1].index + r[k - 1].count
          BY <1>6, <5>1
        <5>3. d < p
          BY <1>2, <5>1, <5>2
        <5>. HIDE DEF d, p
        <5>. QED BY <3>2, <5>2, <5>3
      <4>. QED BY <4>1, <4>2
    <3>4. ASSUME NEW x \in d .. p - 1 PROVE x \notin gone
      <4>. SUFFICES ASSUME x \in gone PROVE FALSE
        OBVIOUS
      <4>1. PICK l \in 1 .. Len(r) : r[l].index <= x /\ x < E(l)
        BY <1>7
      <4>. DEFINE q == r[l].index
                  g == E(l)
      <4>2. q <= x /\ x < g /\ q \in Int /\ g \in Int /\ x \in Int /\ d <= x /\ x < p
        <5>1. q \in 0 .. n /\ g \in 0 .. n
          BY <1>6
        <5>2. x \in Int /\ d <= x /\ x < p
          <6>. HIDE DEF d, p
          <6>. QED BY <3>2, <3>3
        <5>. HIDE DEF q, g, d, p
        <5>. QED BY <4>1, <5>1, <5>2 DEF q, g
      <4>3. CASE l < k
        <5>1. g <= d
          <6>1. CASE l = j
            BY <1>6, <6>1
          <6>2. CASE l # j
            <7>1. l < j /\ j \in 1 .. Len(r)
              BY <3>1, <4>3, <6>2
            <7>2. r[l].index + r[l].count < r[j].index
              BY <1>1, <7>1, Apart
            <7>3. g = r[l].index + r[l].count
              BY <1>6
            <7>4. g < r[j].index /\ r[j].index <= d /\ r[j].index \in 0 .. n
              <8>1. r[j].index <= E(j) /\ r[j].index \in 0 .. n
                BY <1>6, <7>1
              <8>. QED BY <7>2, <7>3, <8>1
            <7>. DEFINE o == r[j].index
            <7>5. g < o /\ o <= d /\ o \in Int
              BY <7>4
            <7>. HIDE DEF g, o, d
            <7>. QED BY <3>3, <4>2, <7>5
          <6>. QED BY <6>1, <6>2
        <5>. HIDE DEF g, d
        <5>. QED BY <3>3, <4>2, <5>1
      <4>4. CASE l = k
        <5>. HIDE DEF p, q
        <5>1. q = p
          BY <4>4 DEF p, q
        <5>. QED BY <4>2, <5>1
      <4>5. CASE k < l
        <5>1. r[k].index + r[k].count < r[l].index
          BY <1>1, <3>1, <4>5, Apart
        <5>2. e < q
          BY <3>2, <5>1
        <5>. HIDE DEF p, q, e
        <5>. QED BY <3>2, <4>2, <5>2
      <4>. QED BY <3>1, <4>3, <4>4, <4>5
    <3>5. c[j] + f[d] = d
      BY <2>2
    <3>6. c[k] = c[j] + w
      BY <1>5, <1>9, <3>1
    <3>7. f[e] = f[p] /\ f[p] = f[d] + (p - d) /\ f[d] \in Nat
      <4>. HIDE DEF p, d, e
      <4>1. f[e] = f[p]
        <5>1. p \in 0 .. n /\ e \in 0 .. n /\ p <= e /\ \A x \in p .. e - 1 : x \in gone
          BY <3>2
        <5>. QED BY <5>1, KeptSteps
      <4>2. f[p] = f[d] + (p - d) /\ f[d] \in Nat
        BY <3>2, <3>3, <3>4, KeptSteps
      <4>. QED BY <4>1, <4>2
    <3>8. w \in Nat /\ c[j] \in Nat
      BY <1>2, <1>9, <3>1
    <3>9. c[k] + f[e] = e
      <4>. DEFINE A == c[k]
                  B == c[j]
                  F == f[e]
                  G == f[p]
                  H == f[d]
      <4>1. B + H = d /\ A = B + w /\ F = G /\ G = H + (p - d) /\ H \in Nat /\ B \in Nat /\ w \in Nat
        BY <3>5, <3>6, <3>7, <3>8
      <4>2. p \in Int /\ d \in Int /\ e = p + w
        <5>. HIDE DEF p, d, e, w
        <5>. QED BY <3>2, <3>3
      <4>. HIDE DEF A, B, F, G, H, p, d, e, w
      <4>3. A + F = e
        BY <4>1, <4>2
      <4>. QED BY <4>3 DEF A, F
    <3>. QED BY <3>1, <3>9
  <2>3. D = 0 .. K
    <3>1. D \in SUBSET (0 .. K)
      OBVIOUS
    <3>. HIDE DEF D
    <3>. QED BY <1>3, <2>1, <2>2, <3>1, Climb
  <2>4. K \in 0 .. K /\ K \in 0 .. Len(r)
    BY <1>3
  <2>. QED BY <1>9, <2>3, <2>4
<1>11. CountUpTo(r, i) = c[K]
  <2>. DEFINE N == Len(r) - K
              D == {d \in 0 .. N : c[K + d] = c[K]}
  <2>1. 0 \in D /\ N \in Nat
    <3>1. K + 0 = K /\ 0 \in 0 .. N /\ N \in Nat
      BY <1>2, <1>3
    <3>. HIDE DEF N
    <3>. QED BY <3>1
  <2>2. ASSUME NEW d \in 1 .. N, d - 1 \in D PROVE d \in D
    <3>. DEFINE k == K + d
    <3>1. k \in 1 .. Len(r) /\ ~(k <= K) /\ k - 1 = K + (d - 1) /\ d \in 0 .. N
      BY <1>2, <1>3
    <3>2. c[K + (d - 1)] = c[K]
      BY <2>2
    <3>3. c[k] = c[k - 1]
      <4>. HIDE DEF k
      <4>. QED BY <1>5, <1>9, <3>1
    <3>. HIDE DEF N
    <3>. QED BY <3>1, <3>2, <3>3
  <2>3. D = 0 .. N
    <3>1. D \in SUBSET (0 .. N)
      OBVIOUS
    <3>. HIDE DEF D, N
    <3>. QED BY <2>1, <2>2, <3>1, Climb
  <2>4. N \in 0 .. N /\ K + N = Len(r)
    BY <1>2, <1>3, <2>1
  <2>5. c[K + N] = c[K]
    <3>. HIDE DEF N
    <3>. QED BY <2>3, <2>4
  <2>. QED BY <1>8, <2>4, <2>5
<1>12. CASE i \in gone
  <2>1. K > 0 /\ i < E(K) /\ K \in 1 .. Len(r)
    BY <1>2, <1>3, <1>4, <1>12
  <2>2. Hit(r, i) = {K}
    <3>1. ASSUME NEW k \in Hit(r, i) PROVE k = K
      <4>1. k \in 1 .. Len(r) /\ i < r[k].index + r[k].count /\ k <= K
        BY <1>2, <1>5 DEF Hit, UpTo, Behind
      <4>2. CASE k < K
        <5>. DEFINE g == r[k].index + r[k].count
                    q == r[K].index
        <5>1. g < q
          BY <1>1, <2>1, <4>1, <4>2, Apart
        <5>2. q <= i /\ q \in Nat /\ g \in Nat /\ i < g
          BY <1>2, <1>3, <2>1, <4>1
        <5>. HIDE DEF g, q
        <5>. QED BY <5>1, <5>2
      <4>. QED BY <2>1, <4>1, <4>2
    <3>2. K \in Hit(r, i)
      <4>1. K \in UpTo(r, i)
        BY <1>3, <1>5, <2>1
      <4>2. Behind(r[K]) = E(K)
        BY <2>1 DEF Behind
      <4>. QED BY <2>1, <4>1, <4>2 DEF Hit
    <3>. QED BY <3>1, <3>2
  <2>3. Min(Hit(r, i)) = K
    <3>1. K \in Int
      BY <2>1
    <3>. QED BY <2>2, <3>1, MinOfOne
  <2>4. Behind(r[Min(Hit(r, i))]) = E(K)
    BY <2>1, <2>3 DEF Behind
  <2>. DEFINE e == E(K)
              p == r[K].index
  <2>5. f[e] = f[i]
    <3>1. e \in 0 .. n /\ p \in 0 .. n /\ \A x \in p .. e - 1 : x \in gone
      BY <1>6, <2>1
    <3>2. p <= i /\ i < e
      BY <1>3, <2>1
    <3>. HIDE DEF e, p
    <3>3. i \in 0 .. n /\ i <= e /\ \A x \in i .. e - 1 : x \in gone
      <4>1. \A x \in i .. e - 1 : x \in p .. e - 1
        BY <3>1, <3>2
      <4>. QED BY <3>1, <3>2, <4>1
    <3>. QED BY <3>1, <3>3, KeptSteps
  <2>6. e - CountUpTo(r, i) = f[i]
    <3>1. c[K] + f[e] = e /\ c[K] \in Nat
      BY <1>10
    <3>2. f[i] \in Nat
      BY DEF IsKept
    <3>. DEFINE A == c[K]
                B == f[i]
    <3>3. A + B = e /\ A \in Nat /\ B \in Nat
      BY <2>5, <3>1, <3>2
    <3>. HIDE DEF A, B, e
    <3>4. e - A = B
      BY <3>3
    <3>. QED BY <1>11, <3>4 DEF A, B
  <2>7. Hit(r, i) # {}
    BY <2>2
  <2>. HIDE DEF e
  <2>. QED BY <1>12, <2>4, <2>6, <2>7 DEF e
<1>13. CASE i \notin gone
  <2>1. Hit(r, i) = {}
    <3>. SUFFICES ASSUME NEW k \in Hit(r, i) PROVE FALSE
      OBVIOUS
    <3>1. k \in 1 .. Len(r) /\ i < r[k].index + r[k].count /\ k <= K
      BY <1>2, <1>5 DEF Hit, UpTo, Behind
    <3>2. r[k].index <= i
      BY <1>3, <3>1
    <3>3. Holds(r, k, i)
      BY <3>1, <3>2 DEF Holds
    <3>4. Covers(r, i) /\ i \in Nat
      BY <3>1, <3>3 DEF Covers
    <3>. QED BY <1>1, <1>2, <1>13, <3>4, Members
  <2>. DEFINE e == E(K)
  <2>2. e \in 0 .. n /\ e <= i
    <3>1. CASE K = 0
      BY <3>1
    <3>2. CASE K # 0
      <4>1. K > 0 /\ K \in 1 .. Len(r)
        BY <1>2, <1>3, <3>2
      <4>2. e \in 0 .. n /\ ~(i < e)
        BY <1>4, <1>6, <1>13, <4>1
      <4>. HIDE DEF e
      <4>. QED BY <4>2
    <3>. QED BY <3>1, <3>2
  <2>3. ASSUME NEW x \in e .. i - 1 PROVE x \notin gone
    <3>. SUFFICES ASSUME x \in gone PROVE FALSE
      OBVIOUS
    <3>1. PICK k \in 1 .. Len(r) : r[k].index <= x /\ x < E(k)
      BY <1>7
    <3>. DEFINE p == r[k].index
                g == E(k)
    <3>2. p \in Int /\ g \in Int /\ x \in Int /\ e <= x /\ x < i /\ p <= x /\ x < g
      <4>1. p \in 0 .. n /\ g \in 0 .. n
        BY <1>6
      <4>2. x \in Int /\ e <= x /\ x < i
        <5>. HIDE DEF e
        <5>. QED BY <2>2
      <4>. HIDE DEF p, g, e
      <4>. QED BY <3>1, <4>1, <4>2 DEF p, g
    <3>3. CASE k <= K
      <4>1. K \in 1 .. Len(r)
        BY <1>2, <1>3, <3>3
      <4>2. CASE k = K
        <5>. HIDE DEF g, e
        <5>1. g = e
          BY <4>2 DEF g, e
        <5>. QED BY <3>2, <5>1
      <4>3. CASE k < K
        <5>. DEFINE q == r[K].index
        <5>1. g < q
          <6>1. r[k].index + r[k].count < r[K].index
            BY <1>1, <4>1, <4>3, Apart
          <6>. QED BY <6>1
        <5>2. q <= e /\ q \in Int
          BY <1>6, <4>1
        <5>. HIDE DEF q, g, e
        <5>. QED BY <2>2, <3>2, <5>1, <5>2
      <4>. QED BY <1>3, <3>3, <4>2, <4>3
    <3>4. CASE ~(k <= K)
      <4>1. k \in K + 1 .. Len(r)
        BY <1>3, <3>4
      <4>2. p > i
        BY <1>3, <4>1
      <4>. HIDE DEF p
      <4>. QED BY <3>2, <4>2
    <3>. QED BY <3>3, <3>4
  <2>4. f[i] = f[e] + (i - e) /\ f[e] \in Nat
    <3>1. i \in 0 .. n
      OBVIOUS
    <3>. HIDE DEF e
    <3>. QED BY <2>2, <2>3, <3>1, KeptSteps
  <2>5. i - CountUpTo(r, i) = f[i]
    <3>1. c[K] + f[e] = e /\ c[K] \in Nat
      BY <1>10
    <3>. DEFINE A == c[K]
                B == f[e]
                C == f[i]
    <3>2. A + B = e /\ A \in Nat /\ C = B + (i - e) /\ B \in Nat
      BY <2>4, <3>1
    <3>. HIDE DEF A, B, C, e
    <3>3. i - A = C
      BY <2>2, <3>2
    <3>. QED BY <1>11, <3>3 DEF A, C
  <2>. QED BY <1>13, <2>1, <2>5
<1>. QED BY <1>12, <1>13


LEMMA RemovedTo ==
    ASSUME NEW n \in Nat, NEW gone \in SUBSET (0 .. n - 1), NEW f, IsKept(f, n, gone),
           NEW r, r = RangesOf(gone), NEW h, h = f[n]
    PROVE  h \in Nat /\ Drops(r, n, h, f, gone)
<1>1. h \in Nat /\ \A i \in 0 .. n : f[i] \in Nat
  BY DEF IsKept
<1>2. r \in ItemSets /\ AsSet(r) = gone
  BY RangesOfCorrect
<1>3. ASSUME NEW i \in 0 .. n - 1
      PROVE  /\ AfterRemoving(r, h, i, FALSE) = IF i \in gone THEN -1 ELSE f[i]
             /\ AfterRemoving(r, h, i, TRUE) = IF f[i] < h THEN f[i] ELSE h - 1
             /\ i \notin gone => f[i] < h
  <2>. DEFINE W == Hit(r, i)
              index == IF W = {} THEN i ELSE Behind(r[Min(W)])
              e == index - CountUpTo(r, i)
              v == f[i]
  <2>1. (W # {} <=> i \in gone) /\ e = v
    BY RemovedPlace
  <2>2. v \in Nat
    BY <1>1
  <2>3. i \notin gone => v < h
    <3>. SUFFICES ASSUME i \notin gone PROVE v < h
      OBVIOUS
    <3>. DEFINE k == i + 1
    <3>1. k \in 1 .. n /\ k - 1 = i /\ k \in 0 .. n /\ n \in 0 .. n /\ k <= n
      OBVIOUS
    <3>. HIDE DEF k
    <3>2. f[k] = f[k - 1] + (IF k - 1 \in gone THEN 0 ELSE 1)
      BY <3>1 DEF IsKept
    <3>3. f[k] = v + 1
      BY <3>1, <3>2
    <3>4. f[k] <= h
      BY <3>1, KeptSteps
    <3>. HIDE DEF v
    <3>. QED BY <1>1, <2>2, <3>3, <3>4
  <2>4. ASSUME NEW adjust \in BOOLEAN
        PROVE AfterRemoving(r, h, i, adjust) = IF W # {} /\ ~adjust THEN -1 ELSE Max({-1, Min({e, h - 1})})
    BY DEF AfterRemoving, Hit
  <2>. HIDE DEF W, e, v
  <2>5. Max({-1, Min({e, h - 1})}) = IF v < h THEN v ELSE h - 1
    <3>. DEFINE b == h - 1
                a == Min({e, b})
    <3>1. e \in Int /\ b \in Int
      BY <1>1, <2>1, <2>2
    <3>. HIDE DEF b
    <3>2. a = IF e <= b THEN e ELSE b
      BY <3>1, MinOfTwo
    <3>. HIDE DEF a
    <3>3. a \in Int /\ -1 \in Int
      BY <3>1, <3>2
    <3>4. Max({-1, a}) = IF -1 >= a THEN -1 ELSE a
      BY <3>3, MaxOfTwo
    <3>5. a = IF v < h THEN v ELSE h - 1
      BY <1>1, <2>1, <2>2, <3>2 DEF b
    <3>. QED BY <1>1, <2>2, <3>4, <3>5 DEF a, b
  <2>6. AfterRemoving(r, h, i, FALSE) = IF W # {} THEN -1 ELSE Max({-1, Min({e, h - 1})})
    BY <2>4
  <2>7. AfterRemoving(r, h, i, TRUE) = Max({-1, Min({e, h - 1})})
    BY <2>4
  <2>. QED BY <2>1, <2>3, <2>5, <2>6, <2>7 DEF v
<1>4. AfterRemoving(r, h, -1, FALSE) = -1
  <2>. DEFINE W == Hit(r, -1)
              c == CountUpTo(r, -1)
              e == -1 - c
  <2>1. r \in Seq(Ranges) /\ Len(r) \in Nat /\ DOMAIN r = 1 .. Len(r) /\ -1 \in Int
        /\ \A k \in 1 .. Len(r) : r[k].index \in Nat
    BY <1>2, ValidParts
  <2>2. W = {}
    <3>. SUFFICES ASSUME NEW k \in UpTo(r, -1) PROVE FALSE
      BY DEF Hit
    <3>1. k \in 1 .. Len(r) /\ k \in 1 .. k
      BY <2>1 DEF UpTo
    <3>2. r[k].index <= -1
      BY <3>1 DEF UpTo
    <3>. QED BY <2>1, <3>1, <3>2
  <2>3. c \in Nat
    <3>1. PICK f1 : IsCount(f1, r, -1) /\ CountUpTo(r, -1) = f1[Len(r)]
      BY <2>1, CountIs
    <3>2. Len(r) \in 0 .. Len(r)
      BY <2>1
    <3>. QED BY <3>1, <3>2 DEF IsCount
  <2>4. AfterRemoving(r, h, -1, FALSE) = Max({-1, Min({e, h - 1})})
    BY <2>2 DEF AfterRemoving, Hit
  <2>. HIDE DEF W, c
  <2>5. Max({-1, Min({e, h - 1})}) = -1
    <3>. DEFINE b == h - 1
                a == Min({e, b})
    <3>1. e \in Int /\ b \in Int /\ e <= -1
      BY <1>1, <2>3
    <3>. HIDE DEF b, e
    <3>2. a = IF e <= b THEN e ELSE b
      BY <3>1, MinOfTwo
    <3>. HIDE DEF a
    <3>3. a \in Int /\ -1 \in Int /\ a <= -1
      BY <3>1, <3>2
    <3>4. Max({-1, a}) = IF -1 >= a THEN -1 ELSE a
      BY <3>3, MaxOfTwo
    <3>. QED BY <3>3, <3>4 DEF a, b
  <2>. QED BY <2>4, <2>5
<1>. QED BY <1>1, <1>3, <1>4 DEF Drops

\* What removeItems() leaves of the first k items.
IsLeft(L, l, gone) ==
    L = [k \in 0 .. Len(l) |->
            IF k = 0 THEN <<>>
            ELSE IF k - 1 \in gone THEN L[k - 1]
            ELSE Append(L[k - 1], l[k])]

LEMMA LeftExists ==
    ASSUME NEW S, NEW l \in Seq(S), NEW gone
    PROVE  \E L : IsLeft(L, l, gone)
<1>. DEFINE n == Len(l)
            X == Seq(S)
            step == [k \in 1 .. n |-> [r \in X |-> IF k - 1 \in gone THEN r ELSE Append(r, l[k])]]
<1>1. n \in Nat /\ <<>> \in X /\ \A k \in 1 .. n : l[k] \in S
  OBVIOUS
<1>2. step \in [1 .. n -> [X -> X]]
  <2>. SUFFICES ASSUME NEW k \in 1 .. n, NEW r \in X
                PROVE  (IF k - 1 \in gone THEN r ELSE Append(r, l[k])) \in X
    OBVIOUS
  <2>1. l[k] \in S
    BY <1>1
  <2>2. Append(r, l[k]) \in X
    BY <2>1
  <2>. QED BY <2>2
<1>3. PICK L : IsIteration(L, n, X, <<>>, step)
  <2>. HIDE DEF step, n, X
  <2>. QED BY <1>1, <1>2, Iterated
<1>4. L \in [0 .. n -> X] /\ \A k \in 0 .. n : L[k] = IF k = 0 THEN <<>> ELSE step[k][L[k - 1]]
  <2>. HIDE DEF step, n, X
  <2>. QED BY <1>3 DEF IsIteration
<1>5. ASSUME NEW k \in 0 .. n
      PROVE  L[k] = IF k = 0 THEN <<>> ELSE IF k - 1 \in gone THEN L[k - 1] ELSE Append(L[k - 1], l[k])
  <2>1. k # 0 => k \in 1 .. n /\ k - 1 \in 0 .. n
    BY <1>1
  <2>2. k # 0 => L[k - 1] \in X
    <3>. HIDE DEF n, X
    <3>. QED BY <1>4, <2>1
  <2>3. L[k] = IF k = 0 THEN <<>> ELSE step[k][L[k - 1]]
    BY <1>4
  <2>. HIDE DEF n, X
  <2>. QED BY <2>1, <2>2, <2>3
<1>6. L = [k \in 0 .. n |-> L[k]]
  BY <1>4
<1>7. L = [k \in 0 .. n |-> IF k = 0 THEN <<>>
                            ELSE IF k - 1 \in gone THEN L[k - 1] ELSE Append(L[k - 1], l[k])]
  <2>. HIDE DEF n, step
  <2>. QED BY <1>5, <1>6
<1>. QED BY <1>7 DEF IsLeft

\* Each item that is left is in its place, and no other.
AllLeft(l, gone, u, f) ==
    /\ IsKept(f, Len(l), gone)
    /\ \A j \in 1 .. Len(l) : j - 1 \notin gone =>
          f[j] \in 1 .. Len(u) /\ f[j] = f[j - 1] + 1 /\ u[f[j]] = l[j]
    /\ \A p \in 1 .. Len(u) : \E j \in 1 .. Len(l) : j - 1 \notin gone /\ p = f[j]

LEMMA LeftPlaces ==
    ASSUME NEW S, NEW l \in Seq(S), NEW gone, NEW L, IsLeft(L, l, gone),
           NEW f, f = [k \in 0 .. Len(l) |-> Len(L[k])], NEW w, w = L[Len(l)]
    PROVE  w \in Seq(S) /\ AllLeft(l, gone, w, f)
<1>. DEFINE n == Len(l)
            Right(k) == /\ L[k] \in Seq(S)
                        /\ \A j \in 1 .. k : j - 1 \notin gone =>
                              f[j] \in 1 .. Len(L[k]) /\ L[k][f[j]] = l[j]
                        /\ \A p \in 1 .. Len(L[k]) : \E j \in 1 .. k : j - 1 \notin gone /\ p = f[j]
            D == {k \in 0 .. n : Right(k)}
<1>1. n \in Nat /\ \A k \in 1 .. n : l[k] \in S
  OBVIOUS
<1>2. \A k \in 0 .. n : f[k] = Len(L[k])
  OBVIOUS
<1>3. L[0] = <<>> /\ \A k \in 1 .. n : L[k] = IF k - 1 \in gone THEN L[k - 1] ELSE Append(L[k - 1], l[k])
  <2>1. \A k \in 0 .. n : L[k] = IF k = 0 THEN <<>> ELSE IF k - 1 \in gone THEN L[k - 1] ELSE Append(L[k - 1], l[k])
    BY DEF IsLeft
  <2>2. 0 \in 0 .. n /\ \A k \in 1 .. n : k \in 0 .. n /\ k # 0
    BY <1>1
  <2>. HIDE DEF n
  <2>. QED BY <2>1, <2>2
<1>4. 0 \in D
  <2>1. 0 \in 0 .. n
    BY <1>1
  <2>2. L[0] \in Seq(S) /\ Len(L[0]) = 0
    BY <1>3
  <2>3. 1 .. 0 = {} /\ 1 .. Len(L[0]) = {}
    BY <2>2
  <2>. QED BY <2>1, <2>2, <2>3
<1>5. ASSUME NEW k \in 1 .. n, k - 1 \in D PROVE k \in D
  <2>. DEFINE a == L[k - 1]
              u == L[k]
              x == l[k]
  <2>1. /\ a \in Seq(S)
        /\ \A j \in 1 .. k - 1 : j - 1 \notin gone => f[j] \in 1 .. Len(a) /\ a[f[j]] = l[j]
        /\ \A p \in 1 .. Len(a) : \E j \in 1 .. k - 1 : j - 1 \notin gone /\ p = f[j]
    BY <1>5
  <2>2. u = (IF k - 1 \in gone THEN a ELSE Append(a, x)) /\ x \in S /\ f[k] = Len(u) /\ k \in 0 .. n
    BY <1>1, <1>2, <1>3
  <2>3. k \in 1 .. k /\ (\A j \in 1 .. k - 1 : j \in 1 .. k) /\ (\A j \in 1 .. k : j = k \/ j \in 1 .. k - 1)
    OBVIOUS
  <2>. HIDE DEF a, u, x, n
  <2>4. CASE k - 1 \in gone
    <3>1. u = a
      BY <2>2, <2>4
    <3>2. Right(k)
      BY <2>1, <2>3, <2>4, <3>1 DEF u
    <3>. QED BY <2>2, <3>2
  <2>5. CASE k - 1 \notin gone
    <3>1. u = Append(a, x)
      BY <2>2, <2>5
    <3>2. /\ u \in Seq(S) /\ Len(a) \in Nat /\ Len(u) = Len(a) + 1 /\ u[Len(a) + 1] = x
          /\ \A j \in 1 .. Len(a) : u[j] = a[j]
      BY <2>1, <2>2, <3>1
    <3>3. f[k] = Len(a) + 1 /\ f[k] \in 1 .. Len(u) /\ u[f[k]] = x
      BY <2>2, <3>2
    <3>4. ASSUME NEW j \in 1 .. k, j - 1 \notin gone PROVE f[j] \in 1 .. Len(u) /\ u[f[j]] = l[j]
      <4>1. CASE j = k
        BY <3>3, <4>1 DEF x
      <4>2. CASE j \in 1 .. k - 1
        <5>. DEFINE e == f[j]
        <5>1. e \in 1 .. Len(a) /\ a[e] = l[j]
          BY <2>1, <3>4, <4>2
        <5>. HIDE DEF e
        <5>2. e \in 1 .. Len(u) /\ u[e] = l[j]
          BY <3>2, <5>1
        <5>. QED BY <5>2 DEF e
      <4>. QED BY <2>3, <4>1, <4>2
    <3>5. ASSUME NEW p \in 1 .. Len(u) PROVE \E j \in 1 .. k : j - 1 \notin gone /\ p = f[j]
      <4>1. CASE p \in 1 .. Len(a)
        BY <2>1, <2>3, <4>1
      <4>2. CASE p = Len(a) + 1
        BY <2>3, <2>5, <3>3, <4>2
      <4>3. p \in 1 .. Len(a) + 1 /\ Len(a) \in Nat
        BY <3>2
      <4>4. p \in 1 .. Len(a) \/ p = Len(a) + 1
        BY <4>3
      <4>. QED BY <4>1, <4>2, <4>4
    <3>6. Right(k)
      BY <3>2, <3>4, <3>5 DEF u
    <3>. QED BY <2>2, <3>6
  <2>. QED BY <2>4, <2>5
<1>6. D = 0 .. n
  <2>1. D \in SUBSET (0 .. n)
    OBVIOUS
  <2>. HIDE DEF D, n
  <2>. QED BY <1>1, <1>4, <1>5, <2>1, Climb
<1>7. \A k \in 0 .. n : Right(k)
  <2>. HIDE DEF n, Right
  <2>. QED BY <1>6
<1>8. f \in [0 .. n -> Nat]
  <2>1. \A k \in 0 .. n : L[k] \in Seq(S)
    BY <1>7
  <2>2. \A k \in 0 .. n : Len(L[k]) \in Nat
    <3>. HIDE DEF n
    <3>. QED BY <2>1
  <2>. QED BY <2>2
<1>9. \A k \in 1 .. n : f[k] = f[k - 1] + (IF k - 1 \in gone THEN 0 ELSE 1)
  <2>. SUFFICES ASSUME NEW k \in 1 .. n PROVE f[k] = f[k - 1] + (IF k - 1 \in gone THEN 0 ELSE 1)
    OBVIOUS
  <2>. DEFINE j == k - 1
              a == L[j]
  <2>1. j \in 0 .. n /\ k \in 0 .. n /\ l[k] \in S
    BY <1>1
  <2>2. f[k] = Len(L[k]) /\ f[j] = Len(a) /\ a \in Seq(S)
    BY <1>2, <1>7, <2>1
  <2>3. L[k] = IF j \in gone THEN a ELSE Append(a, l[k])
    BY <1>3
  <2>. HIDE DEF a, j
  <2>4. Len(L[k]) = Len(a) + (IF j \in gone THEN 0 ELSE 1)
    BY <2>1, <2>2, <2>3
  <2>. QED BY <2>2, <2>4 DEF j
<1>10. f[0] = 0
  <2>1. 0 \in 0 .. n
    BY <1>1
  <2>. QED BY <1>2, <1>3, <2>1
<1>11. IsKept(f, n, gone)
  BY <1>8, <1>9, <1>10 DEF IsKept
<1>12. n \in 0 .. n /\ \A j \in 1 .. n : j \in 1 .. n
  BY <1>1
<1>13. Right(n)
  <2>. HIDE DEF n, Right
  <2>. QED BY <1>7, <1>12
<1>14. \A j \in 1 .. n : j - 1 \notin gone => f[j] = f[j - 1] + 1
  <2>. HIDE DEF n
  <2>. QED BY <1>9
<1>15. w = L[n]
  OBVIOUS
<1>16. /\ w \in Seq(S)
       /\ \A j \in 1 .. n : j - 1 \notin gone =>
            f[j] \in 1 .. Len(w) /\ f[j] = f[j - 1] + 1 /\ w[f[j]] = l[j]
       /\ \A p \in 1 .. Len(w) : \E j \in 1 .. n : j - 1 \notin gone /\ p = f[j]
  <2>. HIDE DEF n
  <2>. QED BY <1>13, <1>14, <1>15
<1>. QED BY <1>11, <1>16 DEF AllLeft


----------------------------------------------------------------------------
\* Two lists of items, the second after the model has changed.

Arranged(l) == l \in Seq(Items) /\ \A j, k \in 1 .. Len(l) : l[j] = l[k] => j = k

\* The items at the indexes of K are in both lists, that at i now at g[i]; the
\* other items of l are gone.
Moves(l, u, K, g) ==
    /\ Arranged(l) /\ Arranged(u) /\ K \in SUBSET (0 .. Len(l) - 1)
    /\ \A i \in K : g[i] \in 0 .. Len(u) - 1 /\ u[g[i] + 1] = l[i + 1]
    /\ \A i \in 0 .. Len(l) - 1 : i \notin K => l[i + 1] \notin ToSet(u)

Climbs(K, g) == \A i, j \in K : i < j => g[i] < g[j]

LEMMA KeptItems ==
    ASSUME NEW l, NEW u, NEW K, NEW g, Moves(l, u, K, g),
           NEW x, x \in ToSet(l) \cap ToSet(u)
    PROVE  \E i \in K : x = l[i + 1]
<1>1. /\ l \in Seq(Items) /\ Len(l) \in Nat
      /\ \A i \in 0 .. Len(l) - 1 : i \notin K => l[i + 1] \notin ToSet(u)
  BY DEF Moves, Arranged
<1>2. PICK j \in 1 .. Len(l) : x = l[j]
  BY <1>1 DEF ToSet
<1>3. j - 1 \in 0 .. Len(l) - 1 /\ j - 1 + 1 = j
  BY <1>1
<1>. DEFINE i == j - 1
<1>4. i \in 0 .. Len(l) - 1 /\ x = l[i + 1]
  BY <1>2, <1>3
<1>. HIDE DEF i
<1>. QED BY <1>1, <1>4

\* When the indexes of S are moved into T, the items stay chosen; when they alone
\* are, exactly these items are.
LEMMA ItemsFollow ==
    ASSUME NEW l, NEW u, NEW K, NEW g, Moves(l, u, K, g),
           NEW S \in SUBSET (0 .. Len(l) - 1), NEW T \in SUBSET (0 .. Len(u) - 1),
           \A i \in K : i \in S => g[i] \in T
    PROVE  /\ ItemsAt(l, S) \cap (ToSet(l) \cap ToSet(u)) \subseteq ItemsAt(u, T)
           /\ (\A i \in K : g[i] \in T => i \in S) =>
                 ItemsAt(u, T) \cap (ToSet(l) \cap ToSet(u)) = ItemsAt(l, S) \cap (ToSet(l) \cap ToSet(u))
<1>1. /\ l \in Seq(Items) /\ Len(l) \in Nat /\ u \in Seq(Items) /\ Len(u) \in Nat
      /\ \A j, k \in 1 .. Len(l) : l[j] = l[k] => j = k
      /\ \A j, k \in 1 .. Len(u) : u[j] = u[k] => j = k
      /\ K \in SUBSET (0 .. Len(l) - 1)
      /\ \A i \in K : g[i] \in 0 .. Len(u) - 1 /\ u[g[i] + 1] = l[i + 1]
  BY DEF Moves, Arranged
<1>2. ASSUME NEW i \in K, NEW j \in 0 .. Len(l) - 1, l[j + 1] = l[i + 1] PROVE i = j
  <2>1. i + 1 \in 1 .. Len(l) /\ j + 1 \in 1 .. Len(l)
    BY <1>1
  <2>2. i + 1 = j + 1
    BY <1>1, <1>2, <2>1
  <2>3. i \in Int /\ j \in Int
    BY <1>1
  <2>. QED BY <2>2, <2>3
<1>3. ASSUME NEW i \in K, NEW t \in 0 .. Len(u) - 1, u[t + 1] = l[i + 1] PROVE t = g[i]
  <2>. DEFINE v == g[i]
  <2>1. v \in 0 .. Len(u) - 1 /\ u[v + 1] = l[i + 1]
    BY <1>1
  <2>. HIDE DEF v
  <2>2. v + 1 \in 1 .. Len(u) /\ t + 1 \in 1 .. Len(u) /\ v \in Int /\ t \in Int
    BY <1>1, <2>1
  <2>3. v + 1 = t + 1
    BY <1>1, <1>3, <2>1, <2>2
  <2>4. v = t
    BY <2>2, <2>3
  <2>. QED BY <2>4 DEF v
<1>4. ASSUME NEW x \in ToSet(l) \cap ToSet(u)
      PROVE  /\ x \in ItemsAt(l, S) => x \in ItemsAt(u, T)
             /\ (\A i \in K : g[i] \in T => i \in S) => (x \in ItemsAt(u, T) => x \in ItemsAt(l, S))
  <2>1. PICK i \in K : x = l[i + 1]
    BY KeptItems
  <2>2. x = u[g[i] + 1]
    BY <1>1, <2>1
  <2>3. ASSUME x \in ItemsAt(l, S) PROVE x \in ItemsAt(u, T)
    <3>1. PICK j \in S : x = l[j + 1]
      BY <2>3 DEF ItemsAt
    <3>2. i = j
      BY <1>2, <2>1, <3>1
    <3>. QED BY <2>2, <3>2 DEF ItemsAt
  <2>4. ASSUME \A k \in K : g[k] \in T => k \in S, x \in ItemsAt(u, T) PROVE x \in ItemsAt(l, S)
    <3>1. PICK t \in T : x = u[t + 1]
      BY <2>4 DEF ItemsAt
    <3>2. t = g[i]
      BY <1>3, <2>1, <3>1
    <3>3. i \in S
      BY <2>4, <3>2
    <3>. QED BY <2>1, <3>3 DEF ItemsAt
  <2>. QED BY <2>3, <2>4
<1>. QED BY <1>4

LEMMA BetweenFollows ==
    ASSUME NEW n, NEW h, NEW K \in SUBSET (0 .. n - 1), n \in Nat, h \in Nat, NEW g,
           \A i \in K : g[i] \in 0 .. h - 1, Climbs(K, g),
           NEW a \in K, NEW c \in K, NEW x \in K
    PROVE  x \in Between(a, c) <=> g[x] \in Between(g[a], g[c])
<1>. DEFINE p == g[a]
            q == g[c]
            y == g[x]
<1>1. a \in Nat /\ c \in Nat /\ x \in Nat /\ p \in Nat /\ q \in Nat /\ y \in Nat
  <2>1. a \in 0 .. n - 1 /\ c \in 0 .. n - 1 /\ x \in 0 .. n - 1
    OBVIOUS
  <2>2. p \in 0 .. h - 1 /\ q \in 0 .. h - 1 /\ y \in 0 .. h - 1
    OBVIOUS
  <2>. HIDE DEF p, q, y
  <2>. QED BY <2>1, <2>2
<1>2. /\ (a < x => p < y) /\ (x < a => y < p) /\ (c < x => q < y) /\ (x < c => y < q)
      /\ (a = x => p = y) /\ (c = x => q = y)
  BY DEF Climbs
<1>. HIDE DEF p, q, y
<1>3. x \in Between(a, c) <=> y \in Between(p, q)
  BY <1>1, <1>2 DEF Between
<1>. QED BY <1>3 DEF p, q, y

\* What is before the first of a list's places that K has behind c.
NextOf(l, u, c) == {k \in c + 1 .. Len(l) : l[k] \in ToSet(u)}

LEMMA NextIs ==
    ASSUME NEW l, NEW u, NEW K, NEW g, Moves(l, u, K, g), NEW c \in 0 .. Len(l) - 1
    PROVE  NextOf(l, u, c) = {k \in c + 1 .. Len(l) : k - 1 \in K}
<1>1. /\ Len(l) \in Nat /\ Len(u) \in Nat /\ u \in Seq(Items)
      /\ \A i \in K : g[i] \in 0 .. Len(u) - 1 /\ u[g[i] + 1] = l[i + 1]
      /\ \A i \in 0 .. Len(l) - 1 : i \notin K => l[i + 1] \notin ToSet(u)
  BY DEF Moves, Arranged
<1>2. ASSUME NEW k \in c + 1 .. Len(l) PROVE l[k] \in ToSet(u) <=> k - 1 \in K
  <2>. DEFINE i == k - 1
  <2>1. i \in 0 .. Len(l) - 1 /\ i + 1 = k
    BY <1>1
  <2>. HIDE DEF i
  <2>2. ASSUME i \in K PROVE l[k] \in ToSet(u)
    <3>. DEFINE v == g[i]
    <3>1. v \in 0 .. Len(u) - 1 /\ u[v + 1] = l[k]
      BY <1>1, <2>1, <2>2
    <3>. HIDE DEF v
    <3>2. v + 1 \in 1 .. Len(u)
      BY <1>1, <3>1
    <3>. QED BY <1>1, <3>1, <3>2 DEF ToSet
  <2>3. ASSUME i \notin K PROVE l[k] \notin ToSet(u)
    BY <1>1, <2>1, <2>3
  <2>. QED BY <2>2, <2>3 DEF i
<1>. QED BY <1>2 DEF NextOf


----------------------------------------------------------------------------
\* The invariant: the items are different ones, the manager is in order and its
\* listeners know its selection; a rubber band is only there while the button is
\* held beside the items, and then the selection of before is within the model
\* and no anchored selection has a range; while the button is held on an item,
\* that is the current item.

Mouse == [pressed : Int, toggle : BOOLEAN, clear : BOOLEAN, band : BOOLEAN, old : ItemSets,
          held : BOOLEAN]

Presses(w, m, n) ==
    /\ w \in Mouse
    /\ w.band => /\ w.held /\ w.pressed = -1 /\ ~w.toggle
                 /\ AsSet(w.old) \subseteq 0 .. n - 1 /\ ~HasRange(m)
    /\ w.held /\ w.pressed >= 0 => m.current = w.pressed

SelectionInv ==
    /\ Arranged(items)
    /\ Sound(manager, count)
    /\ Presses(mouse, manager, count)

LEMMA InitHolds == Init => SelectionInv
<1>. SUFFICES ASSUME Init PROVE SelectionInv
  OBVIOUS
<1>1. items = <<>> /\ mouse = Up
      /\ manager = [current |-> -1, anchor |-> -1, active |-> FALSE, selected |-> <<>>, told |-> <<>>]
  BY DEF Init
<1>. DEFINE e == <<>>
<1>2. e \in ItemSets /\ AsSet(e) = {}
  BY EmptySet
<1>3. Arranged(items) /\ count = 0
  BY <1>1 DEF Arranged, count
<1>4. manager = [current |-> -1, anchor |-> -1, active |-> FALSE, selected |-> e, told |-> e]
  BY <1>1
<1>5. mouse = [pressed |-> -1, toggle |-> FALSE, clear |-> FALSE, band |-> FALSE, old |-> e, held |-> FALSE]
  BY <1>1 DEF Up
<1>. HIDE DEF e
<1>6. /\ manager \in Manager /\ manager.current = -1 /\ manager.anchor = -1 /\ manager.active = FALSE
      /\ manager.selected = e /\ manager.told = e
  <2>1. -1 \in Int
    OBVIOUS
  <2>. QED BY <1>2, <1>4, <2>1 DEF Manager
<1>7. Within(manager, 0)
  BY <1>2, <1>6 DEF Within
<1>8. Knows(manager)
  BY <1>6 DEF Knows, SelectedItems, HasRange
<1>9. mouse \in Mouse /\ mouse.band = FALSE /\ mouse.held = FALSE
  <2>1. -1 \in Int
    OBVIOUS
  <2>. QED BY <1>2, <1>5, <2>1 DEF Mouse
<1>. QED BY <1>3, <1>7, <1>8, <1>9 DEF SelectionInv, Sound, Presses

LEMMA Facts ==
    ASSUME SelectionInv
    PROVE  /\ items \in Seq(Items) /\ count \in Nat /\ count = Len(items) /\ Sound(manager, count)
           /\ manager \in Manager /\ mouse \in Mouse
           /\ count > 0 => manager.current \in IndexSet
           /\ mouse.pressed \in Int /\ mouse.old \in ItemSets
           /\ mouse.toggle \in BOOLEAN /\ mouse.band \in BOOLEAN /\ mouse.held \in BOOLEAN
           /\ IndexSet = 0 .. count - 1
<1>1. items \in Seq(Items) /\ count \in Nat /\ count = Len(items)
  BY DEF SelectionInv, Arranged, count
<1>2. Sound(manager, count) /\ Within(manager, count) /\ mouse \in Mouse
  BY DEF SelectionInv, Sound, Presses
<1>3. count > 0 => manager.current \in 0 .. count - 1
  <2>. DEFINE c == manager.current
              n == count
  <2>1. c \in -1 .. n - 1 /\ (n > 0 => c >= 0) /\ n \in Nat
    BY <1>1, <1>2 DEF Within
  <2>. HIDE DEF c, n
  <2>2. n > 0 => c \in 0 .. n - 1
    BY <2>1
  <2>. QED BY <2>2 DEF c, n
<1>4. /\ mouse.pressed \in Int /\ mouse.old \in ItemSets
      /\ mouse.toggle \in BOOLEAN /\ mouse.band \in BOOLEAN /\ mouse.held \in BOOLEAN
  BY <1>2 DEF Mouse
<1>. QED BY <1>1, <1>2, <1>3, <1>4 DEF Within, IndexSet

\* A key that leaves a sound manager keeps the invariant.
LEMMA KeySound ==
    ASSUME Careful, SelectionInv, NEW m, Key(m), Sound(m, count)
    PROVE  SelectionInv' /\ items' = items
<1>1. ~mouse.held /\ manager' = m /\ items' = items /\ mouse' = mouse
  BY DEF Key, Quiet
<1>2. count' = count
  BY <1>1 DEF count
<1>3. Arranged(items) /\ mouse \in Mouse /\ ~mouse.band
  BY <1>1, Facts DEF SelectionInv, Presses
<1>4. Presses(mouse, m, count)
  BY <1>1, <1>3 DEF Presses
<1>5. Arranged(items') /\ Sound(manager', count') /\ Presses(mouse', manager', count')
  BY <1>1, <1>2, <1>3, <1>4
<1>. QED BY <1>1, <1>5 DEF SelectionInv

LEMMA MoveCurrentKeeps ==
    ASSUME Careful, SelectionInv, NEW shift \in BOOLEAN, NEW control \in BOOLEAN,
           MoveCurrent(shift, control)
    PROVE  SelectionInv' /\ items' = items
<1>. DEFINE n == count
<1>1. n \in Nat /\ Sound(manager, n)
  BY Facts
<1>2. PICK i \in KeyTargets :
          LET ended == IF control THEN EndAnchoredSelection(manager) ELSE manager
              moved == SetCurrentItem(ended, count, i)
              only == IF shift \/ control THEN moved ELSE SelectOnly(moved, count, i)
          IN Key(IF shift THEN only ELSE BeginAnchoredSelection(only, count, i))
  BY DEF MoveCurrent
<1>. DEFINE ended == IF control THEN EndAnchoredSelection(manager) ELSE manager
            moved == SetCurrentItem(ended, n, i)
            only == IF shift \/ control THEN moved ELSE SelectOnly(moved, n, i)
            last == IF shift THEN only ELSE BeginAnchoredSelection(only, n, i)
<1>3. Key(last) /\ i \in 0 .. n - 1
  BY <1>2 DEF KeyTargets, IndexSet
<1>. HIDE DEF n
<1>4. Sound(ended, n) /\ (control => ~ended.active)
  <2>. DEFINE e == EndAnchoredSelection(manager)
  <2>1. e = EndAnchoredSelection(manager)
    OBVIOUS
  <2>2. ended = IF control THEN e ELSE manager
    OBVIOUS
  <2>. HIDE DEF e, ended
  <2>3. Sound(e, n) /\ ~e.active
    BY <1>1, <2>1, EndSound
  <2>. QED BY <1>1, <2>2, <2>3
<1>. HIDE DEF ended
<1>5. Sound(moved, n) /\ moved.current = i /\ moved.active = ended.active
  <2>1. moved = SetCurrentItem(ended, n, i)
    OBVIOUS
  <2>. HIDE DEF moved
  <2>. QED BY <1>1, <1>3, <1>4, <2>1, SetCurrentSound
<1>. HIDE DEF moved
<1>6. Sound(only, n) /\ only.current = i /\ (~shift => ~only.active)
  <2>. DEFINE o == SelectOnly(moved, n, i)
  <2>1. o = SelectOnly(moved, n, i) /\ only = IF shift \/ control THEN moved ELSE o
    OBVIOUS
  <2>. HIDE DEF o, only
  <2>2. Sound(o, n) /\ o.current = i /\ ~o.active
    BY <1>1, <1>3, <1>5, <2>1, SelectOnlySound
  <2>. QED BY <1>4, <1>5, <2>1, <2>2
<1>. HIDE DEF only
<1>7. Sound(last, n)
  <2>. DEFINE b == BeginAnchoredSelection(only, n, i)
  <2>1. b = BeginAnchoredSelection(only, n, i) /\ last = IF shift THEN only ELSE b
    OBVIOUS
  <2>. HIDE DEF b, last
  <2>2. ~shift => Sound(b, n)
    <3>. SUFFICES ASSUME ~shift PROVE Sound(b, n)
      OBVIOUS
    <3>1. ~HasRange(only)
      BY <1>6 DEF HasRange
    <3>. QED BY <1>1, <1>3, <1>6, <2>1, <3>1, BeginSound
  <2>. QED BY <1>6, <2>1, <2>2
<1>. HIDE DEF last
<1>8. Sound(last, count)
  BY <1>7 DEF n
<1>. QED BY <1>3, <1>8, KeySound

\* What the other keys do, one after the other.
LEMMA KeysKeep ==
    ASSUME Careful, SelectionInv, Keys
    PROVE  SelectionInv' /\ items' = items
<1>. DEFINE n == count
            c == manager.current
<1>1. n \in Nat /\ n = count /\ Sound(manager, n) /\ (n > 0 => c \in 0 .. n - 1) /\ IndexSet = 0 .. n - 1
  BY Facts
<1>2. \A m : Key(m) => n > 0
  BY DEF Key
<1>3. \A m : Key(m) /\ Sound(m, n) => SelectionInv' /\ items' = items
  BY KeySound
<1>. HIDE DEF n
\* the last steps of several keys
<1>4. ASSUME NEW m, Sound(m, n), NEW i \in 0 .. n - 1, m.current = i, ~m.active
      PROVE  Sound(BeginAnchoredSelection(m, n, i), n)
  <2>. DEFINE y == BeginAnchoredSelection(m, n, i)
  <2>1. y = BeginAnchoredSelection(m, n, i) /\ ~HasRange(m)
    BY <1>4 DEF HasRange
  <2>. HIDE DEF y
  <2>2. Sound(y, n)
    BY <1>1, <1>4, <2>1, BeginSound
  <2>. QED BY <2>2 DEF y
<1>5. ASSUME NEW shift \in BOOLEAN, NEW control \in BOOLEAN, MoveCurrent(shift, control)
      PROVE  SelectionInv' /\ items' = items
  BY <1>5, MoveCurrentKeeps
<1>6. CASE SelectSingle
  <2>. DEFINE y == Select(manager, n, c)
  <2>1. Key(y) /\ y = Select(manager, n, c)
    BY <1>1, <1>6 DEF SelectSingle
  <2>. HIDE DEF y, c
  <2>2. Sound(y, n)
    BY <1>1, <1>2, <2>1, SelectSound
  <2>. QED BY <1>3, <2>1, <2>2
<1>7. CASE ToggleCurrent
  <2>. DEFINE e == EndAnchoredSelection(manager)
              t == Toggle(e, n, c)
              y == BeginAnchoredSelection(t, n, c)
  <2>1. Key(y) /\ e = EndAnchoredSelection(manager) /\ t = Toggle(e, n, c) /\ y = BeginAnchoredSelection(t, n, c)
    BY <1>1, <1>7 DEF ToggleCurrent
  <2>. HIDE DEF y, t, e
  <2>2. Sound(e, n) /\ e.current = c
    BY <1>1, <2>1, EndSound
  <2>3. c \in 0 .. n - 1 /\ c \in Int
    <3>. HIDE DEF c
    <3>. QED BY <1>1, <1>2, <2>1
  <2>. HIDE DEF c
  <2>4. Sound(t, n) /\ t.current = c /\ ~t.active
    <3>1. n \in Nat /\ Sound(e, n) /\ t = Toggle(e, n, c)
      BY <1>1, <2>1, <2>2
    <3>2. Sound(t, n) /\ t.current = e.current /\ (c \in 0 .. n - 1 => ~t.active)
      BY <2>3, <3>1, ToggleSound
    <3>. QED BY <2>2, <2>3, <3>2
  <2>5. Sound(y, n)
    BY <1>4, <2>1, <2>3, <2>4
  <2>. QED BY <1>3, <2>1, <2>5
<1>8. CASE SelectCurrent
  <2>. DEFINE y == Select(manager, n, c)
  <2>1. Key(y) /\ y = Select(manager, n, c)
    BY <1>1, <1>8 DEF SelectCurrent
  <2>. HIDE DEF y, c
  <2>2. Sound(y, n)
    BY <1>1, <1>2, <2>1, SelectSound
  <2>. QED BY <1>3, <2>1, <2>2
<1>9. CASE ChangeCurrentItem
  <2>1. PICK i \in IndexSet :
            Key(BeginAnchoredSelection(SelectOnly(SetCurrentItem(manager, count, i), count, i), count, i))
    BY <1>9 DEF ChangeCurrentItem
  <2>. DEFINE m == SetCurrentItem(manager, n, i)
              o == SelectOnly(m, n, i)
              y == BeginAnchoredSelection(o, n, i)
  <2>2. /\ Key(y) /\ i \in 0 .. n - 1 /\ m = SetCurrentItem(manager, n, i) /\ o = SelectOnly(m, n, i)
        /\ y = BeginAnchoredSelection(o, n, i)
    BY <1>1, <2>1
  <2>. HIDE DEF m, o, y
  <2>3. Sound(m, n) /\ m.current = i
    <3>1. n \in Nat /\ Sound(manager, n) /\ i \in 0 .. n - 1 /\ m = SetCurrentItem(manager, n, i)
      BY <1>1, <2>2
    <3>. QED BY <3>1, SetCurrentSound
  <2>4. Sound(o, n) /\ o.current = i /\ ~o.active
    <3>1. n \in Nat /\ i \in 0 .. n - 1 /\ o = SelectOnly(m, n, i)
      BY <1>1, <2>2
    <3>2. Sound(o, n) /\ o.current = m.current /\ ~o.active
      BY <2>3, <3>1, SelectOnlySound
    <3>. QED BY <2>3, <3>2
  <2>5. Sound(y, n)
    BY <1>4, <2>2, <2>4
  <2>. QED BY <1>3, <2>2, <2>5
<1>10. CASE Escape
  <2>. DEFINE y == ClearSelection(manager)
  <2>1. Key(y) /\ y = ClearSelection(manager)
    BY <1>10 DEF Escape
  <2>. HIDE DEF y
  <2>2. Sound(y, n)
    BY <1>1, <2>1, ClearSound
  <2>. QED BY <1>3, <2>1, <2>2
<1>11. ASSUME NEW mode, Key(SetSelected(manager, n, 0, n, mode))
       PROVE  SelectionInv' /\ items' = items
  <2>. DEFINE y == SetSelected(manager, n, 0, n, mode)
  <2>1. Key(y) /\ y = SetSelected(manager, n, 0, n, mode)
    BY <1>11
  <2>. HIDE DEF y
  <2>2. 0 \in 0 .. n - 1
    BY <1>1, <1>2, <2>1
  <2>3. Sound(y, n)
    BY <1>1, <2>1, <2>2, SetSelectedSound
  <2>. QED BY <1>3, <2>1, <2>3
<1>12. CASE SelectAll
  BY <1>1, <1>11, <1>12 DEF SelectAll
<1>13. CASE InvertSelection
  BY <1>1, <1>11, <1>13 DEF InvertSelection
<1>14. CASE UpdateViewState
  <2>1. PICK i \in IndexSet, more \in SUBSET IndexSet :
            LET m == SetCurrentItem(manager, count, i)
            IN Key(SetSelectedItems(m, InsertAll(SelectedItems(m), Ascending(RangesOf(more)))))
    BY <1>14 DEF UpdateViewState
  <2>. DEFINE m == SetCurrentItem(manager, n, i)
              r == RangesOf(more)
              l == Ascending(r)
              g == SelectedItems(m)
              s == InsertAll(g, l)
              y == SetSelectedItems(m, s)
  <2>2. /\ Key(y) /\ i \in 0 .. n - 1 /\ more \in SUBSET (0 .. n - 1)
        /\ m = SetCurrentItem(manager, n, i) /\ y = SetSelectedItems(m, s)
    BY <1>1, <2>1
  <2>. HIDE DEF m
  <2>3. Sound(m, n) /\ Within(m, n)
    BY <1>1, <2>2, SetCurrentSound DEF Sound
  <2>4. r \in ItemSets /\ AsSet(r) = more
    BY <1>1, <2>2, RangesOfCorrect
  <2>5. l \in Seq(Nat) /\ ToSet(l) = more
    <3>. HIDE DEF r
    <3>. QED BY <2>4, AscendingCorrect
  <2>6. g \in ItemSets /\ AsSet(g) \subseteq 0 .. n - 1
    BY <1>1, <2>3, SelectedIs
  <2>7. s \in ItemSets /\ AsSet(s) = AsSet(g) \cup more
    <3>. HIDE DEF g, l
    <3>. QED BY <2>5, <2>6, InsertAllCorrect
  <2>. HIDE DEF s, y
  <2>8. Sound(y, n)
    <3>1. AsSet(s) \subseteq 0 .. n - 1 /\ AsSet(SelectedItems(m)) \subseteq AsSet(s)
      BY <2>2, <2>6, <2>7
    <3>. QED BY <1>1, <2>2, <2>3, <2>7, <3>1, SetSelectedItemsSound
  <2>. QED BY <1>3, <2>2, <2>8
<1>. QED BY <1>5, <1>6, <1>7, <1>8, <1>9, <1>10, <1>12, <1>13, <1>14 DEF Keys


LEMMA MouseKeeps ==
    ASSUME SelectionInv, NEW m, NEW w, manager' = m, mouse' = w, items' = items,
           Sound(m, count), Presses(w, m, count)
    PROVE  SelectionInv'
<1>1. count' = count
  BY DEF count
<1>2. Arranged(items') /\ Sound(manager', count') /\ Presses(mouse', manager', count')
  BY <1>1 DEF SelectionInv
<1>. QED BY <1>2 DEF SelectionInv

\* Without a rubber band, a mouse is in order when its item is the current one.
LEMMA PressesIf ==
    ASSUME NEW w, w \in Mouse, ~w.band, NEW m, NEW n, w.held /\ w.pressed >= 0 => m.current = w.pressed
    PROVE  Presses(w, m, n)
BY DEF Presses

LEMMA AtPressSound ==
    ASSUME NEW n, n = count, n \in Nat, Sound(manager, n), NEW i, NEW shift \in BOOLEAN,
           NEW control \in BOOLEAN, NEW y, y = AtPress(i, shift, control)
    PROVE  Sound(y, n) /\ (~shift => ~y.active)
<1>. DEFINE d == ClearSelection(manager)
            m == IF shift \/ control \/ ContainsItem(SelectedItems(manager), i) THEN manager ELSE d
            e == EndAnchoredSelection(m)
<1>1. y = (IF shift THEN m ELSE e) /\ d = ClearSelection(manager)
  BY DEF AtPress
<1>. HIDE DEF d
<1>2. Sound(d, n)
  BY <1>1, ClearSound
<1>3. Sound(m, n)
  BY <1>2
<1>4. e = EndAnchoredSelection(m)
  OBVIOUS
<1>. HIDE DEF m, e
<1>5. Sound(e, n) /\ ~e.active
  BY <1>3, <1>4, EndSound
<1>. QED BY <1>1, <1>3, <1>5

LEMMA PressKeeps ==
    ASSUME Careful, SelectionInv, Press
    PROVE  SelectionInv' /\ items' = items
<1>. DEFINE n == count
<1>1. /\ n \in Nat /\ n = count /\ Sound(manager, n) /\ IndexSet = 0 .. n - 1 /\ mouse \in Mouse
      /\ mouse.band \in BOOLEAN
  BY Facts
<1>2. ~mouse.held /\ items' = items
  BY DEF Press
<1>3. ~mouse.band
  BY <1>2 DEF SelectionInv, Presses
<1>. HIDE DEF n
<1>4. ASSUME NEW i \in IndexSet, PressToggle(i) PROVE SelectionInv'
  <2>. DEFINE t == Toggle(manager, n, i)
              c == SetCurrentItem(t, n, i)
              y == BeginAnchoredSelection(c, n, i)
              w == [mouse EXCEPT !.pressed = i, !.toggle = TRUE, !.held = TRUE]
  <2>1. /\ manager' = y /\ mouse' = w /\ i \in 0 .. n - 1 /\ i \in Int
        /\ t = Toggle(manager, n, i) /\ c = SetCurrentItem(t, n, i) /\ y = BeginAnchoredSelection(c, n, i)
    BY <1>1, <1>4 DEF PressToggle
  <2>. HIDE DEF t, c, y
  <2>2. Sound(t, n) /\ ~t.active
    <3>1. n \in Nat /\ i \in Int /\ t = Toggle(manager, n, i)
      BY <1>1, <2>1
    <3>2. Sound(t, n) /\ (i \in 0 .. n - 1 => ~t.active)
      BY <1>1, <3>1, ToggleSound
    <3>. QED BY <2>1, <3>2
  <2>3. Sound(c, n) /\ c.current = i /\ ~c.active
    <3>1. n \in Nat /\ i \in 0 .. n - 1 /\ c = SetCurrentItem(t, n, i)
      BY <1>1, <2>1
    <3>2. Sound(c, n) /\ c.current = i /\ c.active = t.active
      BY <2>2, <3>1, SetCurrentSound
    <3>. QED BY <2>2, <3>2
  <2>4. Sound(y, n) /\ y.current = i
    <3>1. n \in Nat /\ i \in 0 .. n - 1 /\ y = BeginAnchoredSelection(c, n, i) /\ ~HasRange(c)
      BY <1>1, <2>1, <2>3 DEF HasRange
    <3>. QED BY <2>3, <3>1, BeginSound
  <2>5. w \in Mouse /\ w.pressed = i /\ w.band = mouse.band
    BY <1>1, <2>1 DEF Mouse
  <2>. HIDE DEF w
  <2>6. Presses(w, y, n)
    BY <1>3, <2>4, <2>5, PressesIf
  <2>. QED BY <1>1, <1>2, <2>1, <2>4, <2>6, MouseKeeps
<1>5. ASSUME NEW i \in IndexSet, NEW shift \in BOOLEAN, NEW control \in BOOLEAN,
             PressItem(i, shift, control)
      PROVE  SelectionInv'
  <2>. DEFINE a == AtPress(i, shift, control)
              m == SetCurrentItem(a, n, i)
              begin == ~shift \/ ~m.active
              t == Toggle(m, n, i)
              s == Select(m, n, i)
              u == BeginAnchoredSelection(t, n, i)
              v == BeginAnchoredSelection(s, n, i)
              y == IF control /\ ~shift THEN u ELSE IF begin THEN v ELSE m
              clear == mouse.clear \/ (~shift /\ ~control /\ ContainsItem(SelectedItems(manager), i))
              w == [mouse EXCEPT !.pressed = i, !.toggle = FALSE, !.held = TRUE, !.clear = clear]
  <2>1. manager' = y /\ i \in 0 .. n - 1 /\ i \in Int /\ mouse' = w
    BY <1>1, <1>5 DEF PressItem
  <2>2. a = AtPress(i, shift, control) /\ m = SetCurrentItem(a, n, i)
    OBVIOUS
  <2>. HIDE DEF a
  <2>3. Sound(a, n)
    BY <1>1, <2>2, AtPressSound
  <2>4. Sound(m, n) /\ m.current = i
    <3>1. n \in Nat /\ i \in 0 .. n - 1
      BY <1>1, <2>1
    <3>. HIDE DEF m
    <3>. QED BY <2>2, <2>3, <3>1, SetCurrentSound
  <2>5. /\ t = Toggle(m, n, i) /\ s = Select(m, n, i) /\ u = BeginAnchoredSelection(t, n, i)
        /\ v = BeginAnchoredSelection(s, n, i)
    OBVIOUS
  <2>. HIDE DEF m, t, s, u, v
  <2>6. Sound(t, n) /\ t.current = i /\ ~t.active
    <3>1. n \in Nat /\ i \in Int /\ t = Toggle(m, n, i)
      BY <1>1, <2>1, <2>5
    <3>2. Sound(t, n) /\ t.current = m.current /\ (i \in 0 .. n - 1 => ~t.active)
      BY <2>4, <3>1, ToggleSound
    <3>. QED BY <2>1, <2>4, <3>2
  <2>7. Sound(s, n) /\ s.current = i /\ ~s.active
    <3>1. n \in Nat /\ i \in 0 .. n - 1 /\ s = Select(m, n, i)
      BY <1>1, <2>1, <2>5
    <3>2. Sound(s, n) /\ s.current = m.current /\ ~s.active
      BY <2>4, <3>1, SelectSound
    <3>. QED BY <2>4, <3>2
  <2>8. Sound(u, n) /\ u.current = i
    <3>1. n \in Nat /\ i \in 0 .. n - 1 /\ u = BeginAnchoredSelection(t, n, i) /\ ~HasRange(t)
      BY <1>1, <2>1, <2>5, <2>6 DEF HasRange
    <3>. QED BY <2>6, <3>1, BeginSound
  <2>9. Sound(v, n) /\ v.current = i
    <3>1. n \in Nat /\ i \in 0 .. n - 1 /\ v = BeginAnchoredSelection(s, n, i) /\ ~HasRange(s)
      BY <1>1, <2>1, <2>5, <2>7 DEF HasRange
    <3>. QED BY <2>7, <3>1, BeginSound
  <2>10. Sound(y, n) /\ y.current = i
    BY <2>4, <2>8, <2>9
  <2>. HIDE DEF y
  <2>11. clear \in BOOLEAN
    BY <1>1 DEF Mouse
  <2>. HIDE DEF clear
  <2>12. w \in Mouse /\ w.pressed = i /\ w.band = mouse.band
    BY <1>1, <2>1, <2>11 DEF Mouse
  <2>. HIDE DEF w
  <2>13. Presses(w, y, n)
    BY <1>3, <2>10, <2>12, PressesIf
  <2>. QED BY <1>1, <1>2, <2>1, <2>10, <2>13, MouseKeeps
<1>6. ASSUME NEW shift \in BOOLEAN, NEW control \in BOOLEAN, PressNowhere(shift, control)
      PROVE  SelectionInv'
  <2>. DEFINE m == AtPress(-1, shift, control)
              s == SelectedItems(m)
              w == [mouse EXCEPT !.pressed = -1, !.toggle = FALSE, !.held = TRUE, !.band = TRUE, !.old = s]
  <2>1. manager' = m /\ mouse' = w /\ ~HasRange(m) /\ m = AtPress(-1, shift, control)
    BY <1>6 DEF PressNowhere
  <2>. HIDE DEF m
  <2>2. Sound(m, n)
    BY <1>1, <2>1, AtPressSound
  <2>3. s \in ItemSets /\ AsSet(s) \subseteq 0 .. n - 1
    <3>1. Within(m, n)
      BY <2>2 DEF Sound
    <3>. QED BY <1>1, <3>1, SelectedIs
  <2>. HIDE DEF s
  <2>4. /\ w \in Mouse /\ w.pressed = -1 /\ w.band = TRUE /\ w.held = TRUE /\ w.toggle = FALSE
        /\ w.old = s
    <3>1. -1 \in Int
      OBVIOUS
    <3>. QED BY <1>1, <2>3, <3>1 DEF Mouse
  <2>. HIDE DEF w
  <2>5. Presses(w, m, n)
    <3>1. ~(w.pressed >= 0)
      BY <2>4
    <3>. QED BY <2>1, <2>3, <2>4, <3>1 DEF Presses
  <2>. QED BY <1>1, <1>2, <2>1, <2>2, <2>5, MouseKeeps
<1>. QED BY <1>2, <1>4, <1>5, <1>6 DEF Press

LEMMA DragKeeps ==
    ASSUME SelectionInv, Drag
    PROVE  SelectionInv' /\ items' = items
<1>. DEFINE n == count
            i == mouse.pressed
            t == Toggle(manager, n, i)
            chosen == ContainsItem(SelectedItems(manager), i)
            y == IF chosen THEN manager ELSE t
            w == [mouse EXCEPT !.clear = @ /\ ~chosen, !.held = FALSE]
<1>1. n \in Nat /\ n = count /\ Sound(manager, n) /\ mouse \in Mouse /\ i \in Int
  BY Facts
<1>2. /\ mouse.held /\ i >= 0 /\ manager' = y /\ mouse' = w /\ items' = items
      /\ t = Toggle(manager, n, i)
  BY DEF Drag
<1>3. ~mouse.band
  <2>1. mouse.band => i = -1
    BY DEF SelectionInv, Presses
  <2>. QED BY <1>2, <2>1
<1>. HIDE DEF n, i, t
<1>4. Sound(t, n)
  <2>1. t = Toggle(manager, n, i)
    BY <1>2
  <2>. QED BY <1>1, <2>1, ToggleSound
<1>5. Sound(y, n)
  BY <1>1, <1>4
<1>. HIDE DEF y
<1>6. w \in Mouse /\ w.band = mouse.band /\ w.held = FALSE
  <2>. DEFINE b == mouse.clear /\ ~chosen
  <2>1. b \in BOOLEAN /\ w = [mouse EXCEPT !.clear = b, !.held = FALSE]
    OBVIOUS
  <2>. HIDE DEF b, w
  <2>. QED BY <1>1, <2>1 DEF Mouse
<1>. HIDE DEF w
<1>7. Presses(w, y, n)
  BY <1>3, <1>6, PressesIf
<1>. QED BY <1>1, <1>2, <1>5, <1>7, MouseKeeps

LEMMA MoveBandKeeps ==
    ASSUME SelectionInv, MoveBand
    PROVE  SelectionInv' /\ items' = items
<1>. DEFINE n == count
<1>1. /\ n \in Nat /\ n = count /\ Sound(manager, n) /\ mouse \in Mouse /\ IndexSet = 0 .. n - 1
      /\ mouse.old \in ItemSets
  BY Facts
<1>2. PICK i \in IndexSet \cup {-1}, covered \in SUBSET IndexSet, shift \in BOOLEAN, control \in BOOLEAN :
          LET here == BeginAnchoredSelection(
                          SetCurrentItem(EndAnchoredSelection(manager), count, i), count, i)
          IN /\ mouse.held /\ mouse.band /\ mouse.pressed < 0 /\ count > 0
             /\ BandChanged(IF i >= 0 THEN here ELSE manager, RangesOf(covered), shift, control)
             /\ UNCHANGED items
  BY DEF MoveBand
<1>. DEFINE e == EndAnchoredSelection(manager)
            c == SetCurrentItem(e, n, i)
            here == BeginAnchoredSelection(c, n, i)
            m == IF i >= 0 THEN here ELSE manager
            r == RangesOf(covered)
            old == IF shift \/ control THEN mouse.old ELSE <<>>
            s == IF control THEN Xor(old, r) ELSE Plus(r, old)
            y == SetSelectedItems(m, s)
            w == [mouse EXCEPT !.old = old]
<1>3. /\ mouse.held /\ mouse.band /\ items' = items /\ manager' = y /\ mouse' = w
      /\ covered \in SUBSET (0 .. n - 1) /\ i \in (0 .. n - 1) \cup {-1}
      /\ e = EndAnchoredSelection(manager) /\ c = SetCurrentItem(e, n, i)
      /\ here = BeginAnchoredSelection(c, n, i)
  BY <1>1, <1>2 DEF BandChanged
<1>4. mouse.pressed = -1 /\ ~mouse.toggle /\ AsSet(mouse.old) \subseteq 0 .. n - 1 /\ ~HasRange(manager)
  BY <1>3 DEF SelectionInv, Presses
<1>. HIDE DEF n, e, c, here
<1>5. i >= 0 => Sound(here, n) /\ ~HasRange(here)
  <2>. SUFFICES ASSUME i >= 0 PROVE Sound(here, n) /\ ~HasRange(here)
    OBVIOUS
  <2>1. i \in 0 .. n - 1
    BY <1>3
  <2>2. Sound(e, n) /\ ~e.active
    BY <1>1, <1>3, EndSound
  <2>3. Sound(c, n) /\ c.current = i /\ ~c.active
    <3>1. n \in Nat /\ c = SetCurrentItem(e, n, i)
      BY <1>1, <1>3
    <3>2. Sound(c, n) /\ c.current = i /\ c.active = e.active
      BY <2>1, <2>2, <3>1, SetCurrentSound
    <3>. QED BY <2>2, <3>2
  <2>4. n \in Nat /\ here = BeginAnchoredSelection(c, n, i) /\ ~HasRange(c)
    BY <1>1, <1>3, <2>3 DEF HasRange
  <2>. QED BY <2>1, <2>3, <2>4, BeginSound
<1>6. Sound(m, n) /\ ~HasRange(m)
  BY <1>1, <1>4, <1>5
<1>7. r \in ItemSets /\ AsSet(r) = covered
  BY <1>1, <1>3, RangesOfCorrect
<1>8. old \in ItemSets /\ AsSet(old) \subseteq 0 .. n - 1
  BY <1>1, <1>4, EmptySet
<1>. HIDE DEF m, r, old
<1>9. s \in ItemSets /\ AsSet(s) \subseteq 0 .. n - 1
  <2>1. Xor(old, r) \in ItemSets /\ AsSet(Xor(old, r)) = SymDiff(AsSet(old), AsSet(r))
    BY <1>7, <1>8, XorCorrect
  <2>2. Plus(r, old) \in ItemSets /\ AsSet(Plus(r, old)) = AsSet(r) \cup AsSet(old)
    BY <1>7, <1>8, PlusCorrect
  <2>3. SymDiff(AsSet(old), AsSet(r)) \subseteq AsSet(old) \cup AsSet(r)
    BY DEF SymDiff
  <2>. QED BY <1>3, <1>7, <1>8, <2>1, <2>2, <2>3
<1>10. y = SetSelectedItems(m, s)
  OBVIOUS
<1>. HIDE DEF s, y
<1>11. Sound(y, n) /\ ~HasRange(y)
  BY <1>1, <1>6, <1>9, <1>10, SetSelectedItemsSound
<1>12. /\ w \in Mouse /\ w.pressed = mouse.pressed /\ w.band = mouse.band /\ w.held = mouse.held
       /\ w.toggle = mouse.toggle /\ w.old = old
  BY <1>1, <1>8 DEF Mouse
<1>. HIDE DEF w
<1>13. Presses(w, y, n)
  <2>1. ~(w.pressed >= 0)
    BY <1>4, <1>12
  <2>. QED BY <1>3, <1>4, <1>8, <1>11, <1>12, <2>1 DEF Presses
<1>. QED BY <1>1, <1>3, <1>11, <1>13, MouseKeeps

LEMMA ReleaseToggleKeeps ==
    ASSUME SelectionInv, ReleaseToggle
    PROVE  SelectionInv' /\ items' = items
<1>. DEFINE n == count
            i == mouse.pressed
            t == Toggle(manager, n, i)
            w == [mouse EXCEPT !.toggle = FALSE, !.held = FALSE]
<1>1. n \in Nat /\ n = count /\ Sound(manager, n) /\ mouse \in Mouse /\ i \in Int
  BY Facts
<1>2. /\ mouse.pressed >= 0 /\ (manager' = manager \/ manager' = t) /\ mouse' = w /\ items' = items
      /\ t = Toggle(manager, n, i)
  BY DEF ReleaseToggle
<1>3. ~mouse.band
  BY <1>2 DEF SelectionInv, Presses
<1>. HIDE DEF n, i, t
<1>4. Sound(t, n)
  <2>1. t = Toggle(manager, n, i)
    BY <1>2
  <2>. QED BY <1>1, <2>1, ToggleSound
<1>. DEFINE y == manager'
<1>5. Sound(y, n) /\ manager' = y
  BY <1>1, <1>2, <1>4
<1>. HIDE DEF y
<1>6. w \in Mouse /\ w.band = mouse.band /\ w.held = FALSE
  BY <1>1 DEF Mouse
<1>. HIDE DEF w
<1>7. Presses(w, y, n)
  BY <1>3, <1>6, PressesIf
<1>. QED BY <1>1, <1>2, <1>5, <1>7, MouseKeeps

LEMMA ReleaseKeeps ==
    ASSUME SelectionInv, Release
    PROVE  SelectionInv' /\ items' = items
<1>. DEFINE n == count
<1>1. /\ n \in Nat /\ n = count /\ Sound(manager, n) /\ mouse \in Mouse /\ IndexSet = 0 .. n - 1
      /\ mouse.pressed \in Int
  BY Facts
<1>2. PICK i \in IndexSet \cup {-1} :
          /\ mouse.held /\ ~mouse.toggle
          /\ manager' = IF mouse.clear /\ i >= 0 /\ i = mouse.pressed
                        THEN BeginAnchoredSelection(SelectOnly(manager, count, i), count, i)
                        ELSE manager
          /\ mouse' = Up
          /\ UNCHANGED items
  BY DEF Release
<1>. DEFINE o == SelectOnly(manager, n, i)
            b == BeginAnchoredSelection(o, n, i)
            y == IF mouse.clear /\ i >= 0 /\ i = mouse.pressed THEN b ELSE manager
            w == Up
<1>3. /\ mouse.held /\ manager' = y /\ mouse' = w /\ items' = items /\ i \in (0 .. n - 1) \cup {-1}
      /\ o = SelectOnly(manager, n, i) /\ b = BeginAnchoredSelection(o, n, i)
  BY <1>1, <1>2
<1>4. i >= 0 /\ i = mouse.pressed => manager.current = i
  BY <1>3 DEF SelectionInv, Presses
<1>. HIDE DEF n, o, b
<1>5. i >= 0 /\ i = mouse.pressed => Sound(b, n)
  <2>. SUFFICES ASSUME i >= 0, i = mouse.pressed PROVE Sound(b, n)
    OBVIOUS
  <2>1. i \in 0 .. n - 1 /\ n \in Nat /\ o = SelectOnly(manager, n, i)
    BY <1>1, <1>3
  <2>2. Sound(o, n) /\ o.current = manager.current /\ ~o.active
    BY <1>1, <2>1, SelectOnlySound
  <2>3. o.current = i /\ ~HasRange(o) /\ b = BeginAnchoredSelection(o, n, i)
    BY <1>3, <1>4, <2>2 DEF HasRange
  <2>. QED BY <2>1, <2>2, <2>3, BeginSound
<1>6. Sound(y, n)
  BY <1>1, <1>5
<1>. HIDE DEF y
<1>7. w \in Mouse /\ ~w.band /\ ~w.held
  <2>. DEFINE e == <<>>
  <2>1. e \in ItemSets /\ -1 \in Int
    BY EmptySet
  <2>2. w = [pressed |-> -1, toggle |-> FALSE, clear |-> FALSE, band |-> FALSE, old |-> e, held |-> FALSE]
    BY DEF Up
  <2>. HIDE DEF e, w
  <2>. QED BY <2>1, <2>2 DEF Mouse
<1>. HIDE DEF w
<1>8. Presses(w, y, n)
  BY <1>7, PressesIf
<1>. QED BY <1>1, <1>3, <1>6, <1>8, MouseKeeps


----------------------------------------------------------------------------
\* What SelectionFollows and CurrentFollows say of a change of the list l with the
\* manager m to u with y.

Follows(l, m, u, y) ==
    LET kept == ToSet(l) \cap ToSet(u)
    IN /\ Explicit(l, m) \cap kept \subseteq Chosen(u, y)
       /\ (m.active => ItemsAt(l, {m.anchor, m.current}) \subseteq kept)
            => Chosen(u, y) \cap kept = Chosen(l, m) \cap kept

CurrentStays(l, m, u, y) ==
    LET next == NextOf(l, u, m.current)
    IN u[y.current + 1] = IF next # {} THEN l[Min(next)] ELSE Last(u)

LEMMA MovesApart ==
    ASSUME NEW l, NEW u, NEW K, NEW g, Moves(l, u, K, g), NEW i \in K, NEW j \in K, g[i] = g[j]
    PROVE  i = j
<1>1. /\ \A a, b \in 1 .. Len(l) : l[a] = l[b] => a = b
      /\ l[i + 1] = u[g[i] + 1] /\ l[j + 1] = u[g[j] + 1]
      /\ Len(l) \in Nat /\ i \in 0 .. Len(l) - 1 /\ j \in 0 .. Len(l) - 1
  <2>1. /\ Arranged(l) /\ K \in SUBSET (0 .. Len(l) - 1)
        /\ \A k \in K : u[g[k] + 1] = l[k + 1]
    BY DEF Moves
  <2>2. l[i + 1] = u[g[i] + 1] /\ l[j + 1] = u[g[j] + 1]
    BY <2>1
  <2>. QED BY <2>1, <2>2 DEF Arranged
<1>2. i + 1 \in 1 .. Len(l) /\ j + 1 \in 1 .. Len(l) /\ l[i + 1] = l[j + 1]
  BY <1>1
<1>3. i + 1 = j + 1
  BY <1>1, <1>2
<1>. QED BY <1>1, <1>3

\* The selection follows when the indexes of K keep their order and their part of
\* the selection, and the anchored selection its two ends.
Carried(K, g, m, y) ==
    /\ AsSet(y.selected) = {g[i] : i \in AsSet(m.selected) \cap K}
    /\ y.active => m.active
    /\ m.active /\ m.anchor \in K => y.active /\ y.anchor = g[m.anchor]
    /\ m.current \in K => y.current = g[m.current]

LEMMA ChangeFollows ==
    ASSUME NEW l, NEW u, NEW K, NEW g, Moves(l, u, K, g), Climbs(K, g),
           NEW m, Sound(m, Len(l)), NEW y, Sound(y, Len(u)), Carried(K, g, m, y)
    PROVE  Follows(l, m, u, y)
<1>. DEFINE n == Len(l)
            h == Len(u)
            S == AsSet(m.selected)
            W == AsSet(SelectedItems(m))
            T == AsSet(SelectedItems(y))
            kept == ToSet(l) \cap ToSet(u)
            a == m.anchor
            c == m.current
<1>1. /\ n \in Nat /\ h \in Nat /\ K \in SUBSET (0 .. n - 1)
      /\ \A i \in K : g[i] \in 0 .. h - 1 /\ u[g[i] + 1] = l[i + 1]
      /\ \A i \in 0 .. n - 1 : i \notin K => l[i + 1] \notin ToSet(u)
  BY DEF Moves, Arranged
<1>2. /\ W \in SUBSET (0 .. n - 1) /\ S \in SUBSET (0 .. n - 1)
      /\ W = IF HasRange(m) THEN S \cup Between(a, c) ELSE S
  <2>. HIDE DEF n
  <2>1. Sound(m, n)
    BY DEF n
  <2>2. Within(m, n)
    BY <2>1 DEF Sound
  <2>. QED BY <1>1, <2>1, <2>2, SelectedIs DEF Within
<1>3. /\ T \in SUBSET (0 .. h - 1)
      /\ T = IF HasRange(y) THEN AsSet(y.selected) \cup Between(y.anchor, y.current) ELSE AsSet(y.selected)
  <2>. HIDE DEF h
  <2>1. Sound(y, h)
    BY DEF h
  <2>2. Within(y, h)
    BY <2>1 DEF Sound
  <2>. QED BY <1>1, <2>1, <2>2, SelectedIs DEF Within
<1>4. \A i \in K : i \in S <=> g[i] \in AsSet(y.selected)
  <2>. SUFFICES ASSUME NEW i \in K PROVE i \in S <=> g[i] \in AsSet(y.selected)
    OBVIOUS
  <2>1. ASSUME g[i] \in AsSet(y.selected) PROVE i \in S
    <3>1. PICK j \in S \cap K : g[i] = g[j]
      BY <2>1 DEF Carried
    <3>2. i = j
      BY <3>1, MovesApart
    <3>. QED BY <3>1, <3>2
  <2>. QED BY <2>1 DEF Carried
<1>. HIDE DEF S, W, T
<1>5. ItemsAt(l, S) \cap kept \subseteq ItemsAt(u, T)
  <2>1. \A i \in K : i \in S => g[i] \in T
    BY <1>3, <1>4
  <2>2. S \in SUBSET (0 .. Len(l) - 1) /\ T \in SUBSET (0 .. Len(u) - 1)
    BY <1>2, <1>3
  <2>. QED BY <2>1, <2>2, ItemsFollow
<1>6. ASSUME m.active => ItemsAt(l, {a, c}) \subseteq kept
      PROVE  ItemsAt(u, T) \cap kept = ItemsAt(l, W) \cap kept
  <2>1. ASSUME m.active PROVE a \in K /\ c \in K
    <3>. HIDE DEF a, c
    <3>1. a \in 0 .. n - 1 /\ c \in 0 .. n - 1
      <4>1. a \in -1 .. n - 1 /\ c \in -1 .. n - 1 /\ a >= 0 /\ c >= 0
        BY <2>1 DEF Sound, Within, a, c
      <4>. HIDE DEF n
      <4>. QED BY <1>1, <4>1
    <3>2. l[a + 1] \in ItemsAt(l, {a, c}) /\ l[c + 1] \in ItemsAt(l, {a, c})
      BY DEF ItemsAt
    <3>3. l[a + 1] \in ToSet(u) /\ l[c + 1] \in ToSet(u)
      BY <1>6, <2>1, <3>2 DEF a
    <3>. QED BY <1>1, <3>1, <3>3
  <2>2. HasRange(m) <=> HasRange(y)
    <3>1. ASSUME m.active PROVE a = c <=> g[a] = g[c]
      BY <2>1, <3>1, MovesApart
    <3>2. m.active <=> y.active
      BY <2>1 DEF Carried
    <3>3. m.active => y.anchor = g[a] /\ y.current = g[c]
      BY <2>1 DEF Carried
    <3>. QED BY <3>1, <3>2, <3>3 DEF HasRange
  <2>3. \A i \in K : i \in W <=> g[i] \in T
    <3>. SUFFICES ASSUME NEW i \in K PROVE i \in W <=> g[i] \in T
      OBVIOUS
    <3>1. CASE ~HasRange(m)
      BY <1>2, <1>3, <1>4, <2>2, <3>1
    <3>2. CASE HasRange(m)
      <4>1. m.active /\ a \in K /\ c \in K
        BY <2>1, <3>2 DEF HasRange
      <4>2. y.anchor = g[a] /\ y.current = g[c]
        BY <4>1 DEF Carried
      <4>. HIDE DEF a, c, n, h
      <4>3. \A j \in K : g[j] \in 0 .. h - 1
        BY <1>1
      <4>4. i \in Between(a, c) <=> g[i] \in Between(g[a], g[c])
        BY <1>1, <4>1, <4>3, BetweenFollows
      <4>. QED BY <1>2, <1>3, <1>4, <2>2, <3>2, <4>2, <4>4
    <3>. QED BY <3>1, <3>2
  <2>4. \A i \in K : i \in W => g[i] \in T
    BY <2>3
  <2>5. \A i \in K : g[i] \in T => i \in W
    BY <2>3
  <2>6. W \in SUBSET (0 .. Len(l) - 1) /\ T \in SUBSET (0 .. Len(u) - 1)
    BY <1>2, <1>3
  <2>. QED BY <2>4, <2>5, <2>6, ItemsFollow
<1>. QED BY <1>5, <1>6 DEF Follows, Explicit, Chosen, S, W, T

\* A current item that is kept is its own next one.
LEMMA CurrentKept ==
    ASSUME NEW l, NEW u, NEW K, NEW g, Moves(l, u, K, g), NEW m, NEW y,
           m.current \in K, y.current = g[m.current]
    PROVE  CurrentStays(l, m, u, y)
<1>. DEFINE c == m.current
            next == NextOf(l, u, c)
<1>1. Len(l) \in Nat /\ c \in 0 .. Len(l) - 1 /\ u[g[c] + 1] = l[c + 1]
  <2>1. /\ Len(l) \in Nat /\ K \in SUBSET (0 .. Len(l) - 1)
        /\ \A i \in K : u[g[i] + 1] = l[i + 1]
    BY DEF Moves, Arranged
  <2>2. c \in K
    OBVIOUS
  <2>. HIDE DEF c
  <2>. QED BY <2>1, <2>2
<1>. HIDE DEF c
<1>2. next = {k \in c + 1 .. Len(l) : k - 1 \in K}
  BY <1>1, NextIs
<1>3. c + 1 \in next /\ \A k \in next : c + 1 <= k
  <2>1. c + 1 \in c + 1 .. Len(l) /\ (c + 1) - 1 = c /\ c \in K
    BY <1>1 DEF c
  <2>. QED BY <1>1, <1>2, <2>1
<1>4. Min(next) = c + 1
  <2>1. next \subseteq Int
    BY <1>1, <1>2
  <2>. HIDE DEF next
  <2>2. Min(next) \in next /\ \A k \in next : Min(next) <= k
    BY <1>3 DEF Min
  <2>. DEFINE x == Min(next)
  <2>3. x \in Int /\ c + 1 \in Int /\ c + 1 <= x /\ x <= c + 1
    BY <1>1, <1>3, <2>1, <2>2
  <2>. HIDE DEF x
  <2>4. x = c + 1
    BY <2>3
  <2>. QED BY <2>4 DEF x
<1>. QED BY <1>1, <1>3, <1>4 DEF CurrentStays, c


LEMMA Rising ==
    ASSUME NEW n \in Nat, NEW P \in [0 .. n -> Nat], \A p \in 1 .. n : P[p - 1] < P[p],
           NEW a \in 0 .. n, NEW b \in 0 .. n, a < b
    PROVE  P[a] < P[b]
<1>. DEFINE D == {q \in 0 .. n : \A p \in 0 .. n : p < q => P[p] < P[q]}
<1>1. 0 \in D
  <2>1. 0 \in 0 .. n /\ \A p \in 0 .. n : ~(p < 0)
    OBVIOUS
  <2>. QED BY <2>1
<1>2. ASSUME NEW q \in 1 .. n, q - 1 \in D PROVE q \in D
  <2>1. q \in 0 .. n /\ q - 1 \in 0 .. n /\ P[q] \in Nat /\ P[q - 1] \in Nat /\ P[q - 1] < P[q]
    OBVIOUS
  <2>. SUFFICES ASSUME NEW p \in 0 .. n, p < q PROVE P[p] < P[q]
    BY <2>1
  <2>2. p < q - 1 \/ p = q - 1
    BY <2>1
  <2>3. P[p] \in Nat
    OBVIOUS
  <2>4. p < q - 1 => P[p] < P[q - 1]
    BY <1>2
  <2>. QED BY <2>1, <2>2, <2>3, <2>4
<1>. HIDE DEF D
<1>3. D = 0 .. n
  <2>1. D \in SUBSET (0 .. n)
    BY DEF D
  <2>. QED BY <1>1, <1>2, <2>1, Climb
<1>. QED BY <1>3 DEF D

\* The places of n old items in a list of h: P[p] is that of the old item p, and P[n]
\* the one behind the end.
Places(P, n, h) ==
    /\ P \in [0 .. n -> Nat] /\ P[n] = h + 1
    /\ \A p \in 0 .. n - 1 : P[p] \in 1 .. h
    /\ \A p \in 1 .. n - 1 : P[p - 1] < P[p]

NewBefore(P, n) == [p \in 0 .. n |-> P[p] - 1 - (IF p = 0 THEN 0 ELSE P[p - 1])]

LEMMA PlacesRise ==
    ASSUME NEW n \in Nat, NEW h \in Nat, NEW P, Places(P, n, h)
    PROVE  /\ P \in [0 .. n -> Nat] /\ P[0] > 0 /\ \A p \in 1 .. n : P[p - 1] < P[p]
           /\ NewBefore(P, n) \in [0 .. n -> Nat] /\ NewBefore(P, n)[0] = P[0] - 1
           /\ \A p \in 1 .. n : NewBefore(P, n)[p] = P[p] - 1 - P[p - 1]
<1>. DEFINE new == NewBefore(P, n)
<1>1. /\ n \in Nat /\ h \in Nat /\ \A p \in 0 .. n : P[p] \in Nat
      /\ P \in [0 .. n -> Nat] /\ P[n] = h + 1
      /\ \A p \in 0 .. n - 1 : P[p] \in 1 .. h
      /\ \A p \in 1 .. n - 1 : P[p - 1] < P[p]
  BY DEF Places
<1>2. \A p \in 1 .. n : P[p - 1] < P[p]
  <2>. SUFFICES ASSUME NEW p \in 1 .. n PROVE P[p - 1] < P[p]
    OBVIOUS
  <2>1. CASE p = n
    <3>1. n - 1 \in 0 .. n - 1
      BY <1>1, <2>1
    <3>2. P[n - 1] \in 1 .. h
      BY <1>1, <3>1
    <3>. QED BY <1>1, <2>1, <3>2
  <2>2. CASE p # n
    <3>1. p \in 1 .. n - 1
      BY <1>1, <2>2
    <3>. QED BY <1>1, <3>1
  <2>. QED BY <2>1, <2>2
<1>3. P[0] > 0
  <2>1. CASE n = 0
    BY <1>1, <2>1
  <2>2. CASE n # 0
    <3>1. 0 \in 0 .. n - 1
      BY <1>1, <2>2
    <3>2. P[0] \in 1 .. h
      BY <1>1, <3>1
    <3>. QED BY <3>2, <1>1
  <2>. QED BY <2>1, <2>2
<1>4. /\ new \in [0 .. n -> Nat] /\ new[0] = P[0] - 1
      /\ \A p \in 1 .. n : new[p] = P[p] - 1 - P[p - 1]
  <2>1. ASSUME NEW p \in 0 .. n PROVE P[p] - 1 - (IF p = 0 THEN 0 ELSE P[p - 1]) \in Nat
    <3>1. CASE p = 0
      BY <1>1, <1>3, <3>1
    <3>2. CASE p # 0
      <4>1. p \in 1 .. n /\ p - 1 \in 0 .. n
        BY <1>1, <3>2
      <4>. DEFINE a == P[p]
                  b == P[p - 1]
      <4>2. a \in Nat /\ b \in Nat /\ b < a
        BY <1>1, <1>2, <4>1
      <4>. HIDE DEF a, b
      <4>3. a - 1 - b \in Nat
        BY <4>2
      <4>. QED BY <3>2, <4>3 DEF a, b
    <3>. QED BY <3>1, <3>2
  <2>2. new \in [0 .. n -> Nat]
    BY <2>1 DEF NewBefore
  <2>3. 0 \in 0 .. n /\ \A p \in 1 .. n : p \in 0 .. n /\ p # 0
    BY <1>1
  <2>4. new[0] = P[0] - 1 - 0
    BY <2>3 DEF NewBefore
  <2>5. \A p \in 1 .. n : new[p] = P[p] - 1 - P[p - 1]
    BY <2>3 DEF NewBefore
  <2>6. P[0] - 1 - 0 = P[0] - 1
    BY <1>1, <2>3
  <2>. QED BY <2>2, <2>4, <2>5, <2>6
<1>. QED BY <1>1, <1>2, <1>3, <1>4

LEMMA PlacesReached ==
    ASSUME NEW n \in Nat, NEW h \in Nat, NEW P, Places(P, n, h),
           NEW R, IsRanges(R, n, NewBefore(P, n)), NEW i \in 0 .. n - 1
    PROVE  AfterInserting(R[n + 1], i) = P[i] - 1
<1>. DEFINE new == NewBefore(P, n)
<1>1. /\ P \in [0 .. n -> Nat] /\ P[0] > 0 /\ \A p \in 1 .. n : P[p - 1] < P[p]
      /\ new \in [0 .. n -> Nat] /\ new[0] = P[0] - 1
      /\ \A p \in 1 .. n : new[p] = P[p] - 1 - P[p - 1]
  BY PlacesRise
<1>2. IsRanges(R, n, new)
  OBVIOUS
<1>. HIDE DEF new
<1>. QED BY <1>1, <1>2, InsertedPlace

LEMMA InsertedFollows ==
    ASSUME NEW l, NEW u, NEW n, n = Len(l), NEW h, h = Len(u), h > n, NEW K, K = 0 .. n - 1,
           NEW g, Moves(l, u, K, g), Climbs(K, g), NEW ranges, Shifts(ranges, n, h, g),
           NEW m, Sound(m, n), NEW y, y = ItemsInserted(m, h, ranges)
    PROVE  /\ Sound(y, h) /\ Follows(l, m, u, y)
           /\ l # <<>> => CurrentStays(l, m, u, y)
<1>1. n \in Nat /\ h \in Nat /\ Arranged(l)
  <2>1. Arranged(l) /\ Arranged(u)
    BY DEF Moves
  <2>. QED BY <2>1 DEF Arranged
<1>2. /\ Sound(y, h) /\ y.active = m.active
      /\ m.current >= 0 => y.current = g[m.current]
      /\ m.anchor >= 0 => y.anchor = g[m.anchor]
      /\ AsSet(y.selected) = {g[i] : i \in AsSet(m.selected)}
  <2>1. Sound(y, h) /\ Shifted(m, y, g)
    BY <1>1, InsertedSound
  <2>. QED BY <2>1 DEF Shifted
<1>3. Follows(l, m, u, y)
  <2>1. AsSet(m.selected) \in SUBSET K /\ m.active \in BOOLEAN /\ (m.active => m.anchor >= 0)
    BY DEF Sound, Within, Manager
  <2>2. AsSet(y.selected) = {g[i] : i \in AsSet(m.selected) \cap K}
    BY <1>2, <2>1
  <2>3. m.anchor \in K => y.anchor = g[m.anchor]
    BY <1>1, <1>2
  <2>4. m.current \in K => y.current = g[m.current]
    BY <1>1, <1>2
  <2>5. Carried(K, g, m, y)
    BY <1>2, <2>2, <2>3, <2>4 DEF Carried
  <2>6. Sound(m, Len(l)) /\ Sound(y, Len(u))
    BY <1>2
  <2>. QED BY <2>5, <2>6, ChangeFollows
<1>4. ASSUME l # <<>> PROVE CurrentStays(l, m, u, y)
  <2>1. n > 0
    BY <1>4, <1>1 DEF Arranged
  <2>2. m.current \in K
    <3>. DEFINE c == m.current
    <3>1. c \in -1 .. n - 1 /\ (n > 0 => c >= 0)
      BY DEF Sound, Within
    <3>. HIDE DEF c
    <3>2. c \in K
      BY <1>1, <2>1, <3>1
    <3>. QED BY <3>2 DEF c
  <2>3. y.current = g[m.current]
    BY <1>1, <1>2, <2>2
  <2>. QED BY <2>2, <2>3, CurrentKept
<1>. QED BY <1>2, <1>3, <1>4


\* The old items move up to their places.
PlacesOf(P, l, u) == \A p \in 0 .. Len(l) - 1 : u[P[p]] = l[p + 1]
MovedTo(P, n) == [i \in 0 .. n - 1 |-> P[i] - 1]

LEMMA PlacesMove ==
    ASSUME NEW l, Arranged(l), NEW u, Arranged(u), NEW n, n = Len(l), NEW h, h = Len(u),
           NEW P, Places(P, n, h), PlacesOf(P, l, u),
           NEW R, IsRanges(R, n, NewBefore(P, n)), NEW g, g = MovedTo(P, n),
           NEW K, K = 0 .. n - 1
    PROVE  Moves(l, u, K, g) /\ Climbs(K, g) /\ Shifts(R[n + 1], n, h, g)
<1>1. n \in Nat /\ h \in Nat
  BY DEF Arranged
<1>2. /\ P \in [0 .. n -> Nat] /\ \A p \in 1 .. n : P[p - 1] < P[p]
      /\ \A p \in 0 .. n - 1 : P[p] \in 1 .. h
  BY <1>1, PlacesRise DEF Places
<1>3. \A i \in K : g[i] = P[i] - 1 /\ g[i] \in 0 .. h - 1 /\ g[i] + 1 = P[i]
  <2>. SUFFICES ASSUME NEW i \in K PROVE g[i] = P[i] - 1 /\ g[i] \in 0 .. h - 1 /\ g[i] + 1 = P[i]
    OBVIOUS
  <2>1. g[i] = P[i] - 1
    BY DEF MovedTo
  <2>. DEFINE a == P[i]
  <2>2. a \in 1 .. h
    BY <1>2
  <2>. HIDE DEF a
  <2>3. a - 1 \in 0 .. h - 1 /\ (a - 1) + 1 = a
    BY <1>1, <2>2
  <2>. QED BY <2>1, <2>3 DEF a
<1>4. Moves(l, u, K, g)
  <2>1. \A i \in K : g[i] \in 0 .. h - 1 /\ u[g[i] + 1] = l[i + 1]
    BY <1>3 DEF PlacesOf
  <2>2. K \in SUBSET (0 .. n - 1) /\ \A i \in 0 .. n - 1 : i \in K
    OBVIOUS
  <2>. QED BY <2>1, <2>2 DEF Moves
<1>5. Climbs(K, g)
  <2>. SUFFICES ASSUME NEW i \in K, NEW j \in K, i < j PROVE g[i] < g[j]
    BY DEF Climbs
  <2>1. i \in 0 .. n /\ j \in 0 .. n
    BY <1>1
  <2>2. P[i] < P[j]
    BY <1>1, <1>2, <2>1, Rising
  <2>3. g[i] = P[i] - 1 /\ g[j] = P[j] - 1 /\ P[i] \in Nat /\ P[j] \in Nat
    BY <1>2, <1>3, <2>1
  <2>. QED BY <2>2, <2>3
<1>6. Shifts(R[n + 1], n, h, g)
  <2>1. \A i \in 0 .. n - 1 : AfterInserting(R[n + 1], i) = P[i] - 1
    BY <1>1, PlacesReached
  <2>2. \A i \in 0 .. n - 1 : AfterInserting(R[n + 1], i) = g[i]
    BY <1>3, <2>1
  <2>3. g \in [0 .. n - 1 -> 0 .. h - 1]
    BY <1>3 DEF MovedTo
  <2>. QED BY <2>2, <2>3 DEF Shifts
<1>. QED BY <1>4, <1>5, <1>6

\* A list of different items.
LEMMA KPermutation ==
    ASSUME NEW l \in SetToAllKPermutations(Items)
    PROVE  Arranged(l)
<1>1. PICK S \in SUBSET Items : l \in SetToSeqs(S)
  BY DEF SetToAllKPermutations
<1>2. IsFiniteSet(S)
  BY SelectionAssumption, FS_Subset
<1>. DEFINE n == Cardinality(S)
<1>3. n \in Nat
  BY <1>2, FS_CardinalityType
<1>4. l \in [1 .. n -> S] /\ \A i, j \in 1 .. n : i # j => l[i] # l[j]
  BY <1>1 DEF SetToSeqs
<1>. HIDE DEF n
<1>5. l \in Seq(S) /\ Len(l) = n
  <2>1. l \in Seq(S) /\ DOMAIN l = 1 .. n
    BY <1>3, <1>4, SeqDef
  <2>. QED BY <1>3, <2>1, LenProperties
<1>6. \A k \in 1 .. n : l[k] \in Items
  BY <1>4
<1>7. l \in [1 .. n -> Items]
  BY <1>4, <1>6
<1>8. l \in Seq(Items)
  BY <1>3, <1>7, SeqDef
<1>. QED BY <1>4, <1>5, <1>8 DEF Arranged

\* A change of the model while no button is held.
LEMMA ChangeKeeps ==
    ASSUME Careful, Quiet, SelectionInv, NEW u, Arranged(u), NEW y, Sound(y, Len(u)),
           items' = u, manager' = y, mouse' = mouse
    PROVE  SelectionInv'
<1>1. mouse \in Mouse /\ ~mouse.held /\ ~mouse.band
  BY DEF Quiet, SelectionInv, Presses
<1>2. Presses(mouse, y, Len(u))
  BY <1>1 DEF Presses
<1>3. count' = Len(u)
  BY DEF count
<1>4. Arranged(items') /\ Sound(manager', count') /\ Presses(mouse', manager', count')
  BY <1>2, <1>3
<1>. QED BY <1>4 DEF SelectionInv

LEMMA InsertItemsKeeps ==
    ASSUME Careful, SelectionInv, InsertItems
    PROVE  /\ SelectionInv' /\ Follows(items, manager, items', manager')
           /\ items # <<>> => CurrentStays(items, manager, items', manager')
<1>. DEFINE n == count
            Place(list, p) == IF p = n THEN Len(list) + 1
                              ELSE CHOOSE k \in DOMAIN list : list[k] = items[p + 1]
            New(list) == [p \in 0 .. n |-> Place(list, p) - 1 - (IF p = 0 THEN 0 ELSE Place(list, p - 1))]
            All(list) == CHOOSE R : IsRanges(R, n, New(list))
<1>1. PICK u \in SetToAllKPermutations(Items) :
          /\ ToSet(items) \subseteq ToSet(u) /\ Len(u) - n \in 1 .. Batch
          /\ \A p \in 1 .. n - 1 : Place(u, p - 1) < Place(u, p)
          /\ Quiet
          /\ items' = u
          /\ manager' = ItemsInserted(manager, Len(u), All(u)[n + 1])
          /\ mouse' = mouse
  BY DEF InsertItems, IsRanges
<1>. DEFINE l == items
            m == manager
            h == Len(u)
            P == [p \in 0 .. n |-> Place(u, p)]
<1>2. Arranged(u) /\ Arranged(l) /\ Sound(m, n) /\ n = Len(l) /\ n \in Nat /\ h \in Nat
  <2>1. Arranged(u)
    BY KPermutation
  <2>. QED BY <2>1, Facts DEF SelectionInv, Arranged
<1>3. h > n
  <2>. HIDE DEF n, h
  <2>1. h - n \in 1 .. Batch
    BY <1>1 DEF h
  <2>. QED BY <1>2, <2>1, SelectionAssumption
<1>4. Place(u, n) = h + 1
  OBVIOUS
<1>5. \A p \in 0 .. n - 1 : Place(u, p) \in 1 .. h /\ u[Place(u, p)] = l[p + 1]
  <2>. SUFFICES ASSUME NEW p \in 0 .. n - 1
                PROVE  Place(u, p) \in 1 .. h /\ u[Place(u, p)] = l[p + 1]
    OBVIOUS
  <2>1. p # n /\ p + 1 \in 1 .. n
    BY <1>2
  <2>2. l \in Seq(Items) /\ u \in Seq(Items) /\ DOMAIN u = 1 .. h /\ DOMAIN l = 1 .. n
    BY <1>2 DEF Arranged
  <2>3. l[p + 1] \in ToSet(u)
    BY <1>1, <2>1, <2>2 DEF ToSet
  <2>4. \E k \in DOMAIN u : u[k] = l[p + 1]
    BY <2>3 DEF ToSet
  <2>5. Place(u, p) = CHOOSE k \in DOMAIN u : u[k] = l[p + 1]
    BY <2>1
  <2>. HIDE DEF Place
  <2>. QED BY <2>2, <2>4, <2>5
<1>. HIDE DEF Place
<1>6. Places(P, n, h) /\ \A p \in 0 .. n - 1 : u[P[p]] = l[p + 1]
  <2>1. \A p \in 0 .. n : P[p] = Place(u, p)
    OBVIOUS
  <2>2. \A p \in 0 .. n : Place(u, p) \in Nat
    <3>. SUFFICES ASSUME NEW p \in 0 .. n PROVE Place(u, p) \in Nat
      OBVIOUS
    <3>1. p = n \/ p \in 0 .. n - 1
      BY <1>2
    <3>. HIDE DEF n, h
    <3>. QED BY <1>2, <1>4, <1>5, <3>1
  <2>3. P \in [0 .. n -> Nat]
    BY <2>2
  <2>4. /\ n \in 0 .. n /\ \A p \in 0 .. n - 1 : p \in 0 .. n
        /\ \A p \in 1 .. n - 1 : p \in 0 .. n /\ p - 1 \in 0 .. n
    BY <1>2
  <2>. HIDE DEF n, h, P
  <2>5. P[n] = h + 1 /\ \A p \in 0 .. n - 1 : P[p] \in 1 .. h /\ u[P[p]] = l[p + 1]
    BY <1>4, <1>5, <2>1, <2>4
  <2>6. \A p \in 1 .. n - 1 : P[p - 1] < P[p]
    BY <1>1, <2>1, <2>4
  <2>. QED BY <2>3, <2>5, <2>6 DEF Places
<1>7. New(u) = NewBefore(P, n)
  <2>. SUFFICES ASSUME NEW p \in 0 .. n
                PROVE  Place(u, p) - 1 - (IF p = 0 THEN 0 ELSE Place(u, p - 1))
                         = P[p] - 1 - (IF p = 0 THEN 0 ELSE P[p - 1])
    BY DEF NewBefore
  <2>1. p # 0 => p - 1 \in 0 .. n
    BY <1>2
  <2>. QED BY <2>1
<1>. DEFINE R == All(u)
            g == MovedTo(P, n)
            K == 0 .. n - 1
<1>8. IsRanges(R, n, NewBefore(P, n))
  <2>1. NewBefore(P, n) \in [0 .. n -> Nat]
    <3>. HIDE DEF n, h, P
    <3>. QED BY <1>2, <1>6, PlacesRise
  <2>2. \E r : IsRanges(r, n, NewBefore(P, n))
    <3>. HIDE DEF n, P
    <3>. QED BY <1>2, <2>1, RangesExist
  <2>. HIDE DEF n, P, New
  <2>3. R = CHOOSE r : IsRanges(r, n, NewBefore(P, n))
    BY <1>7
  <2>. HIDE DEF R
  <2>. QED BY <2>2, <2>3
<1>9. g = MovedTo(P, n) /\ K = 0 .. n - 1
  OBVIOUS
<1>10. manager' = ItemsInserted(m, h, R[n + 1])
  BY <1>1
<1>. HIDE DEF P, R, g, K, All
<1>11. Moves(l, u, K, g) /\ Climbs(K, g) /\ Shifts(R[n + 1], n, h, g)
  <2>1. /\ Arranged(l) /\ Arranged(u) /\ n = Len(l) /\ h = Len(u)
        /\ Places(P, n, h) /\ PlacesOf(P, l, u)
    BY <1>2, <1>6 DEF PlacesOf
  <2>. HIDE DEF n, h, l
  <2>. QED BY <1>8, <1>9, <2>1, PlacesMove
<1>. DEFINE ranges == R[n + 1]
<1>12. ASSUME NEW y, y = manager'
       PROVE  Sound(y, h) /\ Follows(l, m, u, y) /\ (l # <<>> => CurrentStays(l, m, u, y))
  <2>1. /\ n = Len(l) /\ h = Len(u) /\ y = ItemsInserted(m, h, ranges) /\ K = 0 .. n - 1
        /\ Moves(l, u, K, g) /\ Climbs(K, g) /\ Shifts(ranges, n, h, g) /\ h > n /\ Sound(m, n)
    BY <1>2, <1>3, <1>9, <1>10, <1>11, <1>12
  <2>. HIDE DEF n, h, l, m, ranges
  <2>. QED BY <2>1, InsertedFollows
<1>13. Sound(manager', h) /\ Follows(l, m, u, manager') /\ (l # <<>> => CurrentStays(l, m, u, manager'))
  BY <1>12
<1>14. SelectionInv'
  <2>. DEFINE y == manager'
  <2>1. Sound(y, Len(u)) /\ manager' = y
    BY <1>13
  <2>. HIDE DEF y
  <2>. QED BY <1>1, <1>2, <2>1, ChangeKeeps
<1>. QED BY <1>1, <1>13, <1>14


\* The items that are left move up.
Lengths(L, n) == [k \in 0 .. n |-> Len(L[k])]
LeftAs(l, n, gone, K, L, f, u) ==
    /\ Arranged(l) /\ n = Len(l) /\ gone \in SUBSET (0 .. n - 1) /\ K = (0 .. n - 1) \ gone
    /\ IsLeft(L, l, gone) /\ f = Lengths(L, n) /\ u = L[n]

LEMMA LeftMoves ==
    ASSUME NEW l, NEW n, NEW gone, NEW K, NEW L, NEW f, NEW u, LeftAs(l, n, gone, K, L, f, u)
    PROVE  IsKept(f, n, gone) /\ f[n] = Len(u) /\ Moves(l, u, K, f) /\ Climbs(K, f)
<1>. DEFINE h == Len(u)
<1>. USE DEF LeftAs
<1>1. /\ l \in Seq(Items) /\ n \in Nat /\ \A j, k \in 1 .. n : l[j] = l[k] => j = k
  BY DEF Arranged
<1>2. /\ IsKept(f, n, gone) /\ u \in Seq(Items)
      /\ \A j \in 1 .. n : j - 1 \notin gone =>
            f[j] \in 1 .. h /\ f[j] = f[j - 1] + 1 /\ u[f[j]] = l[j]
      /\ \A p \in 1 .. h : \E j \in 1 .. n : j - 1 \notin gone /\ p = f[j]
  <2>1. f = [k \in 0 .. Len(l) |-> Len(L[k])] /\ u = L[Len(l)]
    BY DEF Lengths
  <2>2. l \in Seq(Items)
    BY <1>1
  <2>3. u \in Seq(Items) /\ AllLeft(l, gone, u, f)
    <3>. HIDE DEF h
    <3>. QED BY <2>1, <2>2, LeftPlaces
  <2>. QED BY <2>3 DEF AllLeft
<1>3. h \in Nat /\ f[n] = h /\ \A i \in 0 .. n : f[i] \in Nat
  BY <1>1, <1>2 DEF IsKept, Lengths
<1>. HIDE DEF h
<1>4. Arranged(u)
  <2>. SUFFICES ASSUME NEW p \in 1 .. h, NEW q \in 1 .. h, u[p] = u[q] PROVE p = q
    BY <1>2 DEF Arranged, h
  <2>1. PICK j \in 1 .. n : j - 1 \notin gone /\ p = f[j]
    BY <1>2
  <2>2. PICK k \in 1 .. n : k - 1 \notin gone /\ q = f[k]
    BY <1>2
  <2>3. l[j] = l[k]
    BY <1>2, <2>1, <2>2
  <2>4. j = k
    BY <1>1, <2>3
  <2>. QED BY <2>1, <2>2, <2>4
<1>5. ASSUME NEW i \in K
      PROVE  i \in 0 .. n - 1 /\ i + 1 \in 1 .. n /\ f[i] \in 0 .. h - 1 /\ f[i + 1] = f[i] + 1 /\ u[f[i] + 1] = l[i + 1]
  <2>1. i \in 0 .. n - 1 /\ i + 1 \in 1 .. n /\ (i + 1) - 1 = i /\ i \notin gone /\ i \in 0 .. n
    BY <1>1
  <2>. DEFINE j == i + 1
  <2>2. j \in 1 .. n /\ j - 1 = i
    BY <2>1
  <2>. HIDE DEF j
  <2>3. f[j] \in 1 .. h /\ f[j] = f[i] + 1 /\ u[f[j]] = l[j]
    BY <1>2, <2>1, <2>2
  <2>4. f[i] \in Nat
    BY <1>3, <2>1
  <2>5. f[i] \in 0 .. h - 1
    <3>. DEFINE a == f[i]
                b == f[j]
    <3>1. a \in Nat /\ b = a + 1 /\ b \in 1 .. h
      BY <2>3, <2>4
    <3>. HIDE DEF a, b
    <3>2. a \in 0 .. h - 1
      BY <1>3, <3>1
    <3>. QED BY <3>2 DEF a
  <2>. QED BY <2>1, <2>3, <2>5 DEF j
<1>6. ASSUME NEW i \in 0 .. n - 1, i \notin K PROVE l[i + 1] \notin ToSet(u)
  <2>. SUFFICES ASSUME l[i + 1] \in ToSet(u) PROVE FALSE
    OBVIOUS
  <2>0. DOMAIN u = 1 .. h
    BY <1>2 DEF h
  <2>1. PICK p \in 1 .. h : l[i + 1] = u[p]
    BY <2>0 DEF ToSet
  <2>2. PICK j \in 1 .. n : j - 1 \notin gone /\ p = f[j]
    BY <1>2
  <2>3. i + 1 \in 1 .. n /\ l[i + 1] = l[j]
    <3>1. u[f[j]] = l[j]
      BY <1>2, <2>2
    <3>. QED BY <1>1, <2>1, <2>2, <3>1
  <2>4. i + 1 = j
    BY <1>1, <2>3
  <2>5. i = j - 1
    BY <2>4
  <2>. QED BY <1>6, <2>2, <2>5
<1>7. Moves(l, u, K, f)
  <2>1. K \in SUBSET (0 .. n - 1)
    OBVIOUS
  <2>2. \A i \in K : f[i] \in 0 .. h - 1 /\ u[f[i] + 1] = l[i + 1]
    BY <1>5
  <2>. QED BY <1>4, <1>6, <2>1, <2>2 DEF Moves, h
<1>8. Climbs(K, f)
  <2>. SUFFICES ASSUME NEW i \in K, NEW j \in K, i < j PROVE f[i] < f[j]
    BY DEF Climbs
  <2>1. i + 1 \in 0 .. n /\ j \in 0 .. n /\ i + 1 <= j /\ f[i] \in 0 .. h - 1 /\ f[i + 1] = f[i] + 1
    <3>1. i \in 0 .. n - 1 /\ j \in 0 .. n - 1 /\ f[i] \in 0 .. h - 1 /\ f[i + 1] = f[i] + 1
      BY <1>5
    <3>2. i + 1 \in 0 .. n /\ j \in 0 .. n /\ i + 1 <= j
      BY <1>1, <3>1
    <3>. QED BY <3>1, <3>2
  <2>. DEFINE k == i + 1
  <2>2. k \in 0 .. n /\ j \in 0 .. n /\ k <= j
    BY <2>1
  <2>. HIDE DEF k
  <2>3. f[k] <= f[j] /\ f[j] \in Nat
    BY <1>1, <1>2, <2>2, KeptSteps
  <2>. QED BY <1>3, <2>1, <2>3 DEF k
<1>. QED BY <1>2, <1>3, <1>7, <1>8 DEF h

\* A removed current item is replaced by the next one that is left.
LEMMA CurrentReplaced ==
    ASSUME NEW l, NEW u, NEW n, n = Len(l), NEW h, h = Len(u), NEW gone \in SUBSET (0 .. n - 1),
           NEW K, K = (0 .. n - 1) \ gone, NEW f, IsKept(f, n, gone), f[n] = h, Moves(l, u, K, f),
           NEW m, NEW y, m.current \in 0 .. n - 1,
           y.current = IF f[m.current] < h THEN f[m.current] ELSE h - 1
    PROVE  CurrentStays(l, m, u, y)
<1>. DEFINE c == m.current
            next == NextOf(l, u, c)
<1>1. Arranged(l) /\ Arranged(u)
  BY DEF Moves
<1>2. n \in Nat /\ h \in Nat
  BY <1>1 DEF Arranged
<1>3. c \in 0 .. n - 1 /\ y.current = IF f[c] < h THEN f[c] ELSE h - 1
  OBVIOUS
<1>. HIDE DEF c
<1>4. next = {k \in c + 1 .. n : k - 1 \in K}
  BY <1>3, NextIs
<1>5. \A i \in K : f[i] \in 0 .. h - 1 /\ u[f[i] + 1] = l[i + 1]
  BY DEF Moves
<1>6. \A i \in 0 .. n : f[i] \in Nat
  BY DEF IsKept
<1>7. ASSUME next # {} PROVE u[y.current + 1] = l[Min(next)]
  <2>1. next \in SUBSET Nat
    BY <1>2, <1>3, <1>4
  <2>. HIDE DEF next
  <2>2. \E i \in next : \A j \in next : i <= j
    BY <1>7, <2>1, Least
  <2>. DEFINE k == Min(next)
  <2>3. k \in next /\ \A j \in next : k <= j
    BY <2>2 DEF Min
  <2>. HIDE DEF k
  <2>. DEFINE b == k - 1
  <2>4. k \in c + 1 .. n /\ b \in K /\ b \in 0 .. n - 1 /\ b + 1 = k /\ c <= b /\ b \in 0 .. n /\ c \in 0 .. n
    BY <1>2, <1>3, <1>4, <2>3
  <2>5. \A x \in c .. b - 1 : x \in gone
    <3>. SUFFICES ASSUME NEW x \in c .. b - 1, x \notin gone PROVE FALSE
      OBVIOUS
    <3>1. x + 1 \in c + 1 .. n /\ (x + 1) - 1 = x /\ x \in 0 .. n - 1 /\ ~(k <= x + 1)
      BY <1>2, <1>3, <2>4
    <3>2. x + 1 \in next
      BY <1>4, <3>1
    <3>. QED BY <2>3, <3>1, <3>2
  <2>. HIDE DEF b
  <2>6. f[b] = f[c]
    BY <1>2, <2>4, <2>5, KeptSteps
  <2>7. f[b] \in 0 .. h - 1 /\ u[f[b] + 1] = l[b + 1]
    BY <1>5, <2>4
  <2>8. f[c] < h
    <3>. DEFINE v == f[b]
    <3>1. v \in 0 .. h - 1 /\ f[c] = v
      BY <2>6, <2>7
    <3>. HIDE DEF v
    <3>. QED BY <1>2, <3>1
  <2>. QED BY <1>3, <2>4, <2>6, <2>7, <2>8 DEF k
<1>8. ASSUME next = {} PROVE u[y.current + 1] = Last(u)
  <2>1. \A x \in c .. n - 1 : x \in gone
    <3>. SUFFICES ASSUME NEW x \in c .. n - 1, x \notin gone PROVE FALSE
      OBVIOUS
    <3>1. x + 1 \in c + 1 .. n /\ (x + 1) - 1 = x /\ x \in 0 .. n - 1
      BY <1>2, <1>3
    <3>2. x + 1 \in next
      BY <1>4, <3>1
    <3>. QED BY <1>8, <3>2
  <2>. DEFINE e == n
  <2>2. c \in 0 .. n /\ e \in 0 .. n /\ c <= e /\ \A x \in c .. e - 1 : x \in gone
    BY <1>2, <1>3, <2>1
  <2>. HIDE DEF e, next
  <2>3. f[e] = f[c]
    BY <1>2, <2>2, KeptSteps
  <2>4. y.current = h - 1
    BY <1>2, <1>3, <2>3 DEF e
  <2>5. y.current + 1 = h
    BY <1>2, <2>4
  <2>. QED BY <2>5 DEF Last
<1>. QED BY <1>7, <1>8 DEF CurrentStays, c


LEMMA RemovedFollows ==
    ASSUME NEW l, NEW u, NEW n, n = Len(l), n > 0, NEW h, h = Len(u),
           NEW gone \in SUBSET (0 .. n - 1), NEW K, K = (0 .. n - 1) \ gone, NEW f, IsKept(f, n, gone),
           f[n] = h, Moves(l, u, K, f), Climbs(K, f), NEW ranges, Drops(ranges, n, h, f, gone),
           NEW m, Sound(m, n), NEW y, y = ItemsRemoved(m, h, ranges)
    PROVE  Sound(y, h) /\ Follows(l, m, u, y) /\ CurrentStays(l, m, u, y)
<1>1. n \in Nat /\ h \in Nat /\ f \in [0 .. n -> Nat]
  <2>1. Arranged(l) /\ Arranged(u)
    BY DEF Moves
  <2>. QED BY <2>1 DEF Arranged, IsKept
<1>2. Sound(y, h) /\ Dropped(m, y, h, f, gone)
  BY <1>1, RemovedSound
<1>3. \A i \in 0 .. n - 1 : i \notin gone => f[i] < h
  BY DEF Drops
<1>4. /\ m.current \in 0 .. n - 1 /\ m.anchor \in -1 .. n - 1 /\ AsSet(m.selected) \subseteq 0 .. n - 1
      /\ m.active \in BOOLEAN /\ (m.active => m.anchor >= 0)
  <2>1. Within(m, n)
    BY DEF Sound
  <2>. DEFINE c == m.current
  <2>2. c \in -1 .. n - 1 /\ c >= 0
    BY <2>1 DEF Within
  <2>. HIDE DEF c
  <2>3. c \in 0 .. n - 1
    BY <1>1, <2>2
  <2>. QED BY <2>1, <2>3 DEF Within, Manager, c
<1>5. Carried(K, f, m, y)
  <2>1. AsSet(m.selected) \ gone = AsSet(m.selected) \cap K
    BY <1>4
  <2>2. AsSet(y.selected) = {f[i] : i \in AsSet(m.selected) \cap K}
    BY <1>2, <2>1 DEF Dropped
  <2>3. y.active => m.active
    BY <1>2 DEF Dropped
  <2>4. m.active /\ m.anchor \in K => y.active /\ y.anchor = f[m.anchor]
    BY <1>2, <1>4 DEF Dropped
  <2>5. m.current \in K => y.current = f[m.current]
    BY <1>2, <1>3 DEF Dropped
  <2>. QED BY <2>2, <2>3, <2>4, <2>5 DEF Carried
<1>6. Follows(l, m, u, y)
  <2>1. Sound(m, Len(l)) /\ Sound(y, Len(u))
    BY <1>2
  <2>. QED BY <1>5, <2>1, ChangeFollows
<1>7. CurrentStays(l, m, u, y)
  <2>1. y.current = IF f[m.current] < h THEN f[m.current] ELSE h - 1
    BY <1>2 DEF Dropped
  <2>. QED BY <1>4, <2>1, CurrentReplaced
<1>. QED BY <1>2, <1>6, <1>7

LEMMA RemoveItemsKeeps ==
    ASSUME Careful, SelectionInv, RemoveItems
    PROVE  /\ SelectionInv' /\ Follows(items, manager, items', manager')
           /\ items # <<>> => CurrentStays(items, manager, items', manager')
<1>. DEFINE n == count
            All(gone) == CHOOSE L : IsLeft(L, items, gone)
<1>1. PICK gone \in SUBSET IndexSet :
          /\ gone # {} /\ Quiet
          /\ items' = All(gone)[n]
          /\ manager' = ItemsRemoved(manager, Len(items'), RangesOf(gone))
          /\ mouse' = mouse
  BY DEF RemoveItems, IsLeft, count
<1>. DEFINE l == items
            m == manager
            L == All(gone)
            u == L[n]
            h == Len(u)
            f == Lengths(L, n)
            K == (0 .. n - 1) \ gone
            ranges == RangesOf(gone)
<1>2. Arranged(l) /\ Sound(m, n) /\ n = Len(l) /\ n \in Nat
  BY Facts DEF SelectionInv
<1>3. gone \in SUBSET (0 .. n - 1) /\ n > 0
  <2>1. gone \in SUBSET (0 .. n - 1) /\ gone # {}
    BY <1>1 DEF IndexSet
  <2>2. PICK x \in gone : x \in 0 .. n - 1
    BY <2>1
  <2>. HIDE DEF n
  <2>. QED BY <1>2, <2>1, <2>2
<1>4. IsLeft(L, l, gone)
  <2>1. l \in Seq(Items)
    BY <1>2 DEF Arranged
  <2>2. \E x : IsLeft(x, l, gone)
    BY <2>1, LeftExists
  <2>. QED BY <2>2
<1>5. /\ f = Lengths(L, n) /\ u = L[n] /\ h = Len(u) /\ K = (0 .. n - 1) \ gone
      /\ ranges = RangesOf(gone) /\ items' = u /\ manager' = ItemsRemoved(m, h, ranges)
  BY <1>1
<1>. HIDE DEF L, All, u, h, f, K, ranges
<1>6. IsKept(f, n, gone) /\ f[n] = h /\ Moves(l, u, K, f) /\ Climbs(K, f)
  <2>. HIDE DEF n, l
  <2>1. LeftAs(l, n, gone, K, L, f, u)
    BY <1>2, <1>3, <1>4, <1>5 DEF LeftAs
  <2>2. IsKept(f, n, gone) /\ f[n] = Len(u) /\ Moves(l, u, K, f) /\ Climbs(K, f)
    BY <2>1, LeftMoves
  <2>. QED BY <1>5, <2>2
<1>7. Drops(ranges, n, h, f, gone)
  <2>1. h = f[n]
    BY <1>6
  <2>. HIDE DEF n
  <2>. QED BY <1>2, <1>3, <1>5, <1>6, <2>1, RemovedTo
<1>8. ASSUME NEW y, y = manager' PROVE Sound(y, h) /\ Follows(l, m, u, y) /\ CurrentStays(l, m, u, y)
  <2>1. /\ n = Len(l) /\ n > 0 /\ h = Len(u) /\ gone \in SUBSET (0 .. n - 1) /\ K = (0 .. n - 1) \ gone
        /\ IsKept(f, n, gone) /\ f[n] = h /\ Moves(l, u, K, f) /\ Climbs(K, f)
        /\ Drops(ranges, n, h, f, gone) /\ Sound(m, n) /\ y = ItemsRemoved(m, h, ranges)
    BY <1>2, <1>3, <1>5, <1>6, <1>7, <1>8
  <2>. HIDE DEF n, l, m
  <2>. QED BY <2>1, RemovedFollows
<1>9. Sound(manager', h) /\ Follows(l, m, u, manager') /\ CurrentStays(l, m, u, manager')
  BY <1>8
<1>10. SelectionInv'
  <2>. DEFINE y == manager'
  <2>1. Sound(y, Len(u)) /\ manager' = y /\ Arranged(u)
    BY <1>5, <1>6, <1>9 DEF Moves
  <2>. HIDE DEF y
  <2>. QED BY <1>1, <1>5, <2>1, ChangeKeeps
<1>. QED BY <1>5, <1>9, <1>10


\* The selection follows when exactly the selected indexes are moved to selected ones.
Exactly(l, u, S, W, T) ==
    /\ ItemsAt(l, S) \cap (ToSet(l) \cap ToSet(u)) \subseteq ItemsAt(u, T)
    /\ ItemsAt(u, T) \cap (ToSet(l) \cap ToSet(u)) = ItemsAt(l, W) \cap (ToSet(l) \cap ToSet(u))

LEMMA ExactlyFollows ==
    ASSUME NEW l, NEW u, NEW K, NEW g, Moves(l, u, K, g),
           NEW S, NEW W \in SUBSET (0 .. Len(l) - 1), NEW T \in SUBSET (0 .. Len(u) - 1),
           S \subseteq W, \A i \in K : i \in W <=> g[i] \in T
    PROVE  Exactly(l, u, S, W, T)
<1>1. \A i \in K : i \in S => g[i] \in T
  OBVIOUS
<1>2. \A i \in K : i \in W => g[i] \in T
  OBVIOUS
<1>3. \A i \in K : g[i] \in T => i \in W
  OBVIOUS
<1>4. S \in SUBSET (0 .. Len(l) - 1)
  OBVIOUS
<1>5. ItemsAt(l, S) \cap (ToSet(l) \cap ToSet(u)) \subseteq ItemsAt(u, T)
  BY <1>1, <1>4, ItemsFollow
<1>6. ItemsAt(u, T) \cap (ToSet(l) \cap ToSet(u)) = ItemsAt(l, W) \cap (ToSet(l) \cap ToSet(u))
  BY <1>2, <1>3, ItemsFollow
<1>. QED BY <1>5, <1>6 DEF Exactly

LEMMA MovedFollows ==
    ASSUME NEW l, NEW u, NEW n, n = Len(l), n = Len(u), n > 0, NEW K, K = 0 .. n - 1, NEW g,
           Moves(l, u, K, g), NEW to, Arranges(to, n, g), NEW m, Sound(m, n),
           NEW y, y = ItemsMoved(m, n, to)
    PROVE  Sound(y, n) /\ Follows(l, m, u, y) /\ CurrentStays(l, m, u, y)
<1>. DEFINE S == AsSet(m.selected)
            W == AsSet(SelectedItems(m))
            T == AsSet(SelectedItems(y))
<1>1. n \in Nat
  <2>1. Arranged(l)
    BY DEF Moves
  <2>. QED BY <2>1 DEF Arranged
<1>2. Sound(y, n) /\ y.current = g[m.current] /\ ~HasRange(y) /\ AsSet(y.selected) = {g[i] : i \in W}
  BY <1>1, MovedSound
<1>3. W \in SUBSET (0 .. n - 1) /\ S \in SUBSET (0 .. n - 1) /\ S \subseteq W
  <2>1. Within(m, n)
    BY DEF Sound
  <2>2. AsSet(m.selected) \subseteq 0 .. n - 1
    BY <2>1 DEF Within
  <2>. QED BY <1>1, <2>1, <2>2, SelectedIs
<1>4. T \in SUBSET (0 .. n - 1) /\ T = {g[i] : i \in W}
  <2>1. Within(y, n)
    BY <1>2 DEF Sound
  <2>2. SelectedItems(y) = y.selected /\ AsSet(SelectedItems(y)) \subseteq 0 .. n - 1
    BY <1>1, <1>2, <2>1, SelectedIs
  <2>. QED BY <1>2, <2>2
<1>. HIDE DEF S, W, T
<1>5. \A i \in K : i \in W <=> g[i] \in T
  <2>. SUFFICES ASSUME NEW i \in K PROVE i \in W <=> g[i] \in T
    OBVIOUS
  <2>1. ASSUME g[i] \in T PROVE i \in W
    <3>1. PICK j \in W : g[i] = g[j]
      BY <1>4, <2>1
    <3>2. i = j
      BY <1>3, <3>1, MovesApart
    <3>. QED BY <3>1, <3>2
  <2>. QED BY <1>4, <2>1
<1>6. W \in SUBSET (0 .. Len(l) - 1) /\ S \in SUBSET (0 .. Len(l) - 1) /\ T \in SUBSET (0 .. Len(u) - 1)
  BY <1>3, <1>4
<1>7. Exactly(l, u, S, W, T)
  BY <1>3, <1>5, <1>6, ExactlyFollows
<1>9. Follows(l, m, u, y)
  BY <1>7 DEF Exactly, Follows, Explicit, Chosen, S, W, T
<1>10. m.current \in K
  <2>. DEFINE c == m.current
  <2>1. c \in -1 .. n - 1 /\ c >= 0
    BY DEF Sound, Within
  <2>. HIDE DEF c
  <2>2. c \in K
    BY <1>1, <2>1
  <2>. QED BY <2>2 DEF c
<1>11. CurrentStays(l, m, u, y)
  BY <1>2, <1>10, CurrentKept
<1>. QED BY <1>2, <1>9, <1>11

\* The list that resortAllItems() makes of l.
Resorted(l, first, last, to) ==
    [k \in 1 .. Len(l) |-> IF k - 1 \in first .. last
                           THEN l[1 + CHOOSE i \in first .. last : to[i] = k - 1] ELSE l[k]]

ResortedAs(l, n, first, last, to, u, K, g) ==
    /\ Arranged(l) /\ n = Len(l) /\ first \in 0 .. n - 1 /\ last \in 0 .. n - 1
    /\ to \in Bijection(first .. last, first .. last)
    /\ u = Resorted(l, first, last, to) /\ K = 0 .. n - 1
    /\ g = [i \in K |-> IF i \in DOMAIN to THEN to[i] ELSE i]

LEMMA ResortedMoves ==
    ASSUME NEW l, NEW n, NEW first, NEW last, NEW to, NEW u, NEW K, NEW g,
           ResortedAs(l, n, first, last, to, u, K, g)
    PROVE  n = Len(u) /\ Moves(l, u, K, g) /\ Arranges(to, n, g)
<1>. DEFINE M == first .. last
<1>. USE DEF ResortedAs
<1>1. /\ l \in Seq(Items) /\ n \in Nat /\ \A j, k \in 1 .. n : l[j] = l[k] => j = k
      /\ \A k \in 1 .. n : l[k] \in Items
  BY DEF Arranged
<1>2. /\ to \in [M -> M] /\ \A a, b \in M : to[a] = to[b] => a = b
      /\ \A t \in M : \E a \in M : to[a] = t
  BY DEF Bijection, Injection, Surjection, IsInjective
<1>3. \A i \in M : i \in 0 .. n - 1
  BY <1>1
<1>. HIDE DEF M
<1>4. \A i \in K : g[i] = IF i \in M THEN to[i] ELSE i
  BY <1>2
<1>5. \A i \in K : g[i] \in 0 .. n - 1
  <2>. SUFFICES ASSUME NEW i \in K PROVE g[i] \in 0 .. n - 1
    OBVIOUS
  <2>1. i \in M => to[i] \in M
    BY <1>2
  <2>. QED BY <1>3, <1>4, <2>1
<1>6. \A k \in 1 .. n : u[k] = IF k - 1 \in M THEN l[1 + CHOOSE i \in M : to[i] = k - 1] ELSE l[k]
  BY DEF Resorted, M
<1>7. ASSUME NEW i \in K PROVE g[i] + 1 \in 1 .. n /\ u[g[i] + 1] = l[i + 1]
  <2>. DEFINE v == g[i]
              k == v + 1
  <2>1. v \in 0 .. n - 1
    BY <1>5
  <2>2. v = IF i \in M THEN to[i] ELSE i
    BY <1>4
  <2>. HIDE DEF v
  <2>3. k \in 1 .. n /\ k - 1 = v
    BY <1>1, <2>1
  <2>. HIDE DEF k
  <2>4. u[k] = IF v \in M THEN l[1 + CHOOSE j \in M : to[j] = v] ELSE l[k]
    BY <1>6, <2>3
  <2>5. CASE i \in M
    <3>1. v \in M /\ to[i] = v
      BY <1>2, <2>2, <2>5
    <3>2. (CHOOSE j \in M : to[j] = v) = i
      BY <1>2, <2>5, <3>1
    <3>3. 1 + i = i + 1
      BY <1>3, <2>5
    <3>. QED BY <2>3, <2>4, <3>1, <3>2, <3>3 DEF k, v
  <2>6. CASE i \notin M
    BY <2>2, <2>3, <2>4, <2>6 DEF k, v
  <2>. QED BY <2>5, <2>6
<1>8. \A k \in 1 .. n : \E i \in K : k = g[i] + 1
  <2>. SUFFICES ASSUME NEW k \in 1 .. n PROVE \E i \in K : k = g[i] + 1
    OBVIOUS
  <2>. DEFINE t == k - 1
  <2>1. t \in 0 .. n - 1 /\ k = t + 1
    BY <1>1
  <2>. HIDE DEF t
  <2>2. CASE t \in M
    <3>1. PICK i \in M : to[i] = t
      BY <1>2, <2>2
    <3>2. i \in K /\ g[i] = t
      BY <1>3, <1>4, <3>1
    <3>. QED BY <2>1, <3>2
  <2>3. CASE t \notin M
    <3>1. t \in K /\ g[t] = t
      BY <1>4, <2>1, <2>3
    <3>. QED BY <2>1, <3>1
  <2>. QED BY <2>2, <2>3
<1>9. u \in [1 .. n -> Items] /\ u \in Seq(Items) /\ Len(u) = n
  <2>1. \A k \in 1 .. n : u[k] \in Items
    <3>. SUFFICES ASSUME NEW k \in 1 .. n PROVE u[k] \in Items
      OBVIOUS
    <3>1. PICK i \in K : k = g[i] + 1
      BY <1>8
    <3>2. u[k] = l[i + 1]
      BY <1>7, <3>1
    <3>3. i + 1 \in 1 .. n
      BY <1>1
    <3>. QED BY <1>1, <3>2, <3>3
  <2>2. u \in [1 .. n -> Items]
    BY <2>1 DEF Resorted
  <2>3. u \in Seq(Items) /\ DOMAIN u = 1 .. n
    BY <1>1, <2>2, SeqDef
  <2>. QED BY <1>1, <2>2, <2>3, LenProperties
<1>10. Arranged(u)
  <2>. SUFFICES ASSUME NEW p \in 1 .. n, NEW q \in 1 .. n, u[p] = u[q] PROVE p = q
    BY <1>9 DEF Arranged
  <2>1. PICK i \in K : p = g[i] + 1
    BY <1>8
  <2>2. PICK j \in K : q = g[j] + 1
    BY <1>8
  <2>3. u[p] = l[i + 1] /\ u[q] = l[j + 1]
    BY <1>7, <2>1, <2>2
  <2>4. i + 1 \in 1 .. n /\ j + 1 \in 1 .. n /\ i \in Int /\ j \in Int
    BY <1>1
  <2>5. i + 1 = j + 1
    BY <1>1, <2>3, <2>4
  <2>6. i = j
    BY <2>4, <2>5
  <2>. QED BY <2>1, <2>2, <2>6
<1>11. Moves(l, u, K, g)
  <2>1. \A i \in K : g[i] \in 0 .. Len(u) - 1 /\ u[g[i] + 1] = l[i + 1]
    BY <1>5, <1>7, <1>9
  <2>. QED BY <1>10, <2>1 DEF Moves
<1>12. Arranges(to, n, g)
  <2>1. g \in [0 .. n - 1 -> 0 .. n - 1]
    BY <1>5
  <2>. QED BY <2>1 DEF Arranges
<1>. QED BY <1>9, <1>11, <1>12

LEMMA ResortAllItemsKeeps ==
    ASSUME Careful, SelectionInv, ResortAllItems
    PROVE  /\ SelectionInv' /\ Follows(items, manager, items', manager')
           /\ items # <<>> => CurrentStays(items, manager, items', manager')
<1>. DEFINE n == count
            l == items
            m == manager
<1>1. PICK first \in IndexSet, last \in IndexSet : \E to \in Bijection(first .. last, first .. last) :
          /\ first < last /\ Quiet
          /\ items' = [k \in 1 .. n |-> IF k - 1 \in first .. last
                                        THEN l[1 + CHOOSE i \in first .. last : to[i] = k - 1] ELSE l[k]]
          /\ manager' = ItemsMoved(m, n, to)
          /\ mouse' = mouse
  BY DEF ResortAllItems
<1>2. PICK to \in Bijection(first .. last, first .. last) :
          /\ first < last /\ Quiet
          /\ items' = [k \in 1 .. n |-> IF k - 1 \in first .. last
                                        THEN l[1 + CHOOSE i \in first .. last : to[i] = k - 1] ELSE l[k]]
          /\ manager' = ItemsMoved(m, n, to)
          /\ mouse' = mouse
  BY <1>1
<1>3. Arranged(l) /\ Sound(m, n) /\ n = Len(l) /\ n \in Nat
  BY Facts DEF SelectionInv
<1>4. first \in 0 .. n - 1 /\ last \in 0 .. n - 1 /\ n > 0
  <2>1. first \in 0 .. n - 1 /\ last \in 0 .. n - 1
    BY DEF IndexSet
  <2>. HIDE DEF n
  <2>. QED BY <1>3, <2>1
<1>. DEFINE K == 0 .. n - 1
            g == [i \in K |-> IF i \in DOMAIN to THEN to[i] ELSE i]
<1>5. K = 0 .. n - 1 /\ g = [i \in K |-> IF i \in DOMAIN to THEN to[i] ELSE i]
  OBVIOUS
<1>6. items' = Resorted(l, first, last, to)
  BY <1>2, <1>3 DEF Resorted
<1>. HIDE DEF K, g, n, l, m
<1>7. ASSUME NEW u, u = items' PROVE Arranged(u) /\ n = Len(u) /\ Moves(l, u, K, g) /\ Arranges(to, n, g)
  <2>1. u = Resorted(l, first, last, to)
    BY <1>6, <1>7
  <2>2. n = Len(u) /\ Moves(l, u, K, g) /\ Arranges(to, n, g)
    <3>1. ResortedAs(l, n, first, last, to, u, K, g)
      BY <1>3, <1>4, <1>5, <2>1 DEF ResortedAs
    <3>. QED BY <3>1, ResortedMoves
  <2>. QED BY <2>2 DEF Moves
<1>8. ASSUME NEW u, u = items', NEW y, y = manager'
      PROVE  Arranged(u) /\ Sound(y, Len(u)) /\ Follows(l, m, u, y) /\ CurrentStays(l, m, u, y)
  <2>1. Arranged(u) /\ n = Len(u) /\ Moves(l, u, K, g) /\ Arranges(to, n, g)
    BY <1>7, <1>8
  <2>2. y = ItemsMoved(m, n, to)
    BY <1>2, <1>8
  <2>3. Sound(y, n) /\ Follows(l, m, u, y) /\ CurrentStays(l, m, u, y)
    BY <1>3, <1>4, <1>5, <2>1, <2>2, MovedFollows
  <2>. QED BY <2>1, <2>3
<1>9. SelectionInv'
  <2>. DEFINE u == items'
              y == manager'
  <2>1. Arranged(u) /\ Sound(y, Len(u)) /\ items' = u /\ manager' = y
    BY <1>8
  <2>. HIDE DEF u, y
  <2>. QED BY <1>2, <2>1, ChangeKeeps
<1>10. Follows(l, m, items', manager') /\ CurrentStays(l, m, items', manager')
  BY <1>8
<1>. QED BY <1>9, <1>10 DEF l, m


----------------------------------------------------------------------------
\* Every step.

LEMMA StepKeeps ==
    ASSUME Careful, SelectionInv, Next
    PROVE  /\ SelectionInv'
           /\ items' # items => Follows(items, manager, items', manager')
           /\ items' # items /\ items # <<>> => CurrentStays(items, manager, items', manager')
<1>1. CASE InsertItems
  BY <1>1, InsertItemsKeeps
<1>2. CASE RemoveItems
  BY <1>2, RemoveItemsKeeps
<1>3. CASE ResortAllItems
  BY <1>3, ResortAllItemsKeeps
<1>4. CASE Keys
  BY <1>4, KeysKeep
<1>5. CASE Press
  BY <1>5, PressKeeps
<1>6. CASE Drag
  BY <1>6, DragKeeps
<1>7. CASE MoveBand
  BY <1>7, MoveBandKeeps
<1>8. CASE ReleaseToggle
  BY <1>8, ReleaseToggleKeeps
<1>9. CASE Release
  BY <1>9, ReleaseKeeps
<1>. QED BY <1>1, <1>2, <1>3, <1>4, <1>5, <1>6, <1>7, <1>8, <1>9 DEF Next

LEMMA StutterKeeps ==
    ASSUME SelectionInv, UNCHANGED vars
    PROVE  SelectionInv'
<1>1. items' = items /\ manager' = manager /\ mouse' = mouse /\ count' = count
  BY DEF vars, count
<1>2. Arranged(items') /\ Sound(manager', count') /\ Presses(mouse', manager', count')
  BY <1>1 DEF SelectionInv
<1>. QED BY <1>2 DEF SelectionInv

\* The items stay different ones, the manager in order and known to its listeners,
\* and the mouse in step with it, in every state.
THEOREM InvariantHolds ==
    ASSUME Careful
    PROVE  Spec => []SelectionInv
<1>1. SelectionInv /\ [Next]_vars => SelectionInv'
  BY StepKeeps, StutterKeeps
<1>. QED BY <1>1, InitHolds, PTL DEF Spec

LEMMA ArrangedCardinality ==
    ASSUME NEW l, Arranged(l)
    PROVE  ToSet(l) \subseteq Items /\ Cardinality(ToSet(l)) = Len(l)
<1>. DEFINE n == Len(l)
<1>1. l \in Seq(Items) /\ n \in Nat /\ DOMAIN l = 1 .. n /\ \A j, k \in 1 .. n : l[j] = l[k] => j = k
  BY DEF Arranged
<1>2. ToSet(l) = {l[k] : k \in 1 .. n} /\ ToSet(l) \subseteq Items
  BY <1>1 DEF ToSet
<1>3. IsFiniteSet(1 .. n) /\ Cardinality(1 .. n) = n
  BY <1>1, FS_Interval
<1>4. ExistsBijection(1 .. n, ToSet(l))
  <2>1. l \in [1 .. n -> ToSet(l)]
    BY <1>1, <1>2
  <2>2. l \in Bijection(1 .. n, ToSet(l))
    BY <1>1, <1>2, <2>1 DEF Bijection, Injection, Surjection, IsInjective
  <2>. QED BY <2>2 DEF ExistsBijection
<1>5. Cardinality(ToSet(l)) = n
  <2>. HIDE DEF n
  <2>. QED BY <1>3, <1>4, FS_Bijection
<1>. QED BY <1>2, <1>5

LEMMA TypeFollows == SelectionInv => TypeOK
<1>. SUFFICES ASSUME SelectionInv PROVE TypeOK
  OBVIOUS
<1>. DEFINE n == count
<1>1. Arranged(items) /\ Within(manager, n) /\ manager \in Manager /\ mouse.old \in ItemSets
  BY Facts DEF SelectionInv, Sound
<1>2. ToSet(items) \subseteq Items /\ Cardinality(ToSet(items)) = n
  BY <1>1, ArrangedCardinality DEF count
<1>3. /\ manager.current \in -1 .. n - 1 /\ manager.anchor \in -1 .. n - 1
      /\ n > 0 => manager.current >= 0
      /\ manager.active => manager.anchor >= 0 /\ manager.current >= 0
      /\ AsSet(manager.selected) \subseteq 0 .. n - 1
  BY <1>1 DEF Within
<1>4. \A s \in {manager.selected, manager.told} : IsValid(s)
  BY <1>1 DEF Manager, ItemSets
<1>5. IsValid(mouse.old) /\ AsSet(mouse.old) \subseteq Nat
  <2>1. mouse.old \in Seq(Ranges) /\ IsValid(mouse.old)
    BY <1>1 DEF ItemSets
  <2>. QED BY <2>1, Members
<1>. HIDE DEF n
<1>6. IndexSet = 0 .. n - 1
  BY DEF IndexSet, n
<1>. QED BY <1>2, <1>3, <1>4, <1>5, <1>6 DEF TypeOK, n

\* The selection is a valid item set within the model, and so are the current item
\* and the ends of an active anchored selection, whatever was inserted, removed or
\* moved since it was begun.
THEOREM TypeCorrect ==
    ASSUME Careful
    PROVE  Spec => []TypeOK
BY InvariantHolds, TypeFollows, PTL

\* Everybody who follows selectionChanged() knows the selection that the next
\* operation works on.
THEOREM ListenersCorrect ==
    ASSUME Careful
    PROVE  Spec => []ListenersKnow
<1>1. SelectionInv => ListenersKnow
  BY DEF SelectionInv, Sound, Knows, ListenersKnow
<1>. QED BY <1>1, InvariantHolds, PTL

LEMMA IsTheRanges ==
    ASSUME NEW b \in Nat, NEW S \in SUBSET (0 .. b - 1), NEW s \in ItemSets, AsSet(s) = S
    PROVE  s = RangesOf(S)
<1>1. RangesOf(S) \in ItemSets /\ AsSet(RangesOf(S)) = S
  BY RangesOfCorrect
<1>. QED BY <1>1, Canonical

BehavesAsSet(s, n) ==
    /\ IsValid(s) /\ ToSet(Ascending(s)) = AsSet(s)
    /\ \A j, k \in DOMAIN Ascending(s) : j < k => Ascending(s)[j] < Ascending(s)[k]
    /\ \A i \in 0 .. n + 2 :
          /\ Insert(s, i) = RangesOf(AsSet(s) \cup {i})
          /\ RemoveItem(s, i) = RangesOf(AsSet(s) \ {i})

LEMMA SetsBehaveIf ==
    ASSUME NEW n \in Nat, NEW chosen \in SUBSET (0 .. n - 1), NEW more \in SUBSET {n + 1},
           NEW s, s = RangesOf(chosen \cup more)
    PROVE  BehavesAsSet(s, n)
<1>. DEFINE b == n + 3
            S == chosen \cup more
<1>1. b \in Nat /\ S \in SUBSET (0 .. b - 1)
  OBVIOUS
<1>2. s \in ItemSets /\ AsSet(s) = S
  <2>. HIDE DEF b
  <2>. QED BY <1>1, RangesOfCorrect
<1>3. IsValid(s)
  BY <1>2 DEF ItemSets
<1>4. Ascending(s) \in Seq(Nat) /\ Ascends(Ascending(s)) /\ ToSet(Ascending(s)) = AsSet(s)
  BY <1>2, AscendingCorrect
<1>5. \A j, k \in DOMAIN Ascending(s) : j < k => Ascending(s)[j] < Ascending(s)[k]
  <2>. DEFINE l == Ascending(s)
  <2>1. l \in Seq(Nat) /\ Ascends(l)
    BY <1>4
  <2>. HIDE DEF l
  <2>2. \A j, k \in DOMAIN l : j < k => l[j] < l[k]
    BY <2>1 DEF Ascends
  <2>. QED BY <2>2 DEF l
<1>6. ASSUME NEW i \in 0 .. n + 2
      PROVE  Insert(s, i) = RangesOf(AsSet(s) \cup {i}) /\ RemoveItem(s, i) = RangesOf(AsSet(s) \ {i})
  <2>0. i \in Nat /\ i \in Int /\ i \in 0 .. b - 1
    OBVIOUS
  <2>1. i \in Nat /\ i \in Int /\ AsSet(s) \cup {i} \in SUBSET (0 .. b - 1) /\ AsSet(s) \ {i} \in SUBSET (0 .. b - 1)
    <3>. HIDE DEF b, S
    <3>. QED BY <1>1, <1>2, <2>0
  <2>. DEFINE x == Insert(s, i)
              y == RemoveItem(s, i)
  <2>2. x \in ItemSets /\ AsSet(x) = AsSet(s) \cup {i}
    BY <1>2, <2>1, InsertCorrect
  <2>3. y \in ItemSets /\ AsSet(y) = AsSet(s) \ {i}
    BY <1>2, <2>1, RemoveCorrect
  <2>. HIDE DEF x, y, b, S
  <2>4. x = RangesOf(AsSet(s) \cup {i})
    BY <1>1, <2>1, <2>2, IsTheRanges
  <2>5. y = RangesOf(AsSet(s) \ {i})
    BY <1>1, <2>1, <2>3, IsTheRanges
  <2>. QED BY <2>4, <2>5 DEF x, y
<1>. QED BY <1>3, <1>4, <1>5, <1>6 DEF BehavesAsSet

LEMMA SumsBehave ==
    ASSUME NEW n \in Nat, NEW s \in ItemSets, AsSet(s) \subseteq 0 .. n - 1, NEW t \in SomeSets
    PROVE  /\ Plus(s, t) = RangesOf(AsSet(s) \cup AsSet(t))
           /\ Xor(s, t) = RangesOf(SymDiff(AsSet(s), AsSet(t)))
<1>1. PICK T \in SUBSET (0 .. 5) : t = RangesOf(T)
  BY DEF SomeSets
<1>2. 6 \in Nat /\ T \in SUBSET (0 .. 6 - 1)
  OBVIOUS
<1>3. t \in ItemSets /\ AsSet(t) = T
  BY <1>1, <1>2, RangesOfCorrect
<1>. DEFINE b == n + 6
            x == Plus(s, t)
            y == Xor(s, t)
            U == AsSet(s) \cup AsSet(t)
            D == SymDiff(AsSet(s), AsSet(t))
<1>4. b \in Nat /\ U \in SUBSET (0 .. b - 1) /\ D \in SUBSET (0 .. b - 1)
  <2>1. b \in Nat /\ (\A z \in 0 .. n - 1 : z \in 0 .. b - 1) /\ (\A z \in 0 .. 5 : z \in 0 .. b - 1)
    OBVIOUS
  <2>2. \A z \in AsSet(s) : z \in 0 .. b - 1
    BY <2>1
  <2>3. \A z \in AsSet(t) : z \in 0 .. b - 1
    BY <1>3, <2>1
  <2>. HIDE DEF b
  <2>. QED BY <2>1, <2>2, <2>3 DEF SymDiff
<1>5. x \in ItemSets /\ AsSet(x) = U
  BY <1>3, PlusCorrect
<1>6. y \in ItemSets /\ AsSet(y) = D
  BY <1>3, XorCorrect
<1>. HIDE DEF b, x, y, U, D
<1>7. x = RangesOf(U) /\ y = RangesOf(D)
  BY <1>4, <1>5, <1>6, IsTheRanges
<1>. QED BY <1>7 DEF x, y, U, D

\* The lists of ranges behave as sets: insert(), remove(), operator+() and
\* operator^() yield the one valid list of the union, the difference and so on, for
\* every selection that is reached.
THEOREM SetsCorrect ==
    ASSUME Careful
    PROVE  Spec => []SetsBehave
<1>1. ASSUME SelectionInv PROVE SetsBehave
  <2>. DEFINE v == SelectedItems(manager)
              chosen == AsSet(v)
              n == count
  <2>1. n \in Nat /\ v \in ItemSets /\ chosen \in SUBSET (0 .. n - 1)
    <3>1. n \in Nat /\ Within(manager, n)
      BY <1>1, Facts DEF Sound
    <3>. HIDE DEF n
    <3>. QED BY <3>1, SelectedIs
  <2>. HIDE DEF n, v
  <2>2. \A more \in SUBSET {n + 1} :
            LET s == RangesOf(chosen \cup more)
            IN /\ IsValid(s) /\ ToSet(Ascending(s)) = AsSet(s)
                  /\ \A j, k \in DOMAIN Ascending(s) : j < k => Ascending(s)[j] < Ascending(s)[k]
               /\ \A i \in 0 .. n + 2 :
                    /\ Insert(s, i) = RangesOf(AsSet(s) \cup {i})
                    /\ RemoveItem(s, i) = RangesOf(AsSet(s) \ {i})
    <3>. HIDE DEF chosen
    <3>. SUFFICES ASSUME NEW more \in SUBSET {n + 1}, NEW s, s = RangesOf(chosen \cup more)
                  PROVE  BehavesAsSet(s, n)
      BY DEF BehavesAsSet
    <3>. QED BY <2>1, SetsBehaveIf
  <2>3. \A t \in SomeSets : /\ Plus(v, t) = RangesOf(chosen \cup AsSet(t))
                            /\ Xor(v, t) = RangesOf(SymDiff(chosen, AsSet(t)))
    BY <2>1, SumsBehave
  <2>. QED BY <2>2, <2>3 DEF SetsBehave, n, v
<1>. QED BY <1>1, InvariantHolds, PTL

\* When the model changes, the selection stays with the items: what was selected on
\* its own and is still there is selected, and exactly the old items that were
\* selected are when both ends of an anchored selection are still there.
THEOREM SelectionFollowsCorrect ==
    ASSUME Careful
    PROVE  Spec => SelectionFollows
<1>1. SelectionInv /\ [Next]_vars /\ items' # items => Follows(items, manager, items', manager')
  BY StepKeeps DEF vars
<1>2. SelectionInv /\ [Next]_vars =>
         [items' # items =>
            LET kept == ToSet(items) \cap ToSet(items')
            IN /\ Explicit(items, manager) \cap kept \subseteq Chosen(items', manager')
               /\ (manager.active => ItemsAt(items, {manager.anchor, manager.current}) \subseteq kept)
                    => Chosen(items', manager') \cap kept = Chosen(items, manager) \cap kept]_vars
  BY <1>1 DEF Follows
<1>. QED BY <1>2, InvariantHolds, PTL DEF Spec, SelectionFollows

\* So does the current item, and a removed one is replaced by the next item that is
\* left, or the last one.
THEOREM CurrentFollowsCorrect ==
    ASSUME Careful
    PROVE  Spec => CurrentFollows
<1>1. SelectionInv /\ [Next]_vars /\ items' # items /\ items # <<>> =>
         CurrentStays(items, manager, items', manager')
  BY StepKeeps DEF vars
<1>2. SelectionInv /\ [Next]_vars =>
         [items' # items /\ items # <<>> /\ items' # <<>> =>
            LET next == {k \in manager.current + 1 .. count : items[k] \in ToSet(items')}
            IN items'[manager'.current + 1]
                 = IF next # {} THEN items[Min(next)] ELSE Last(items')]_vars
  BY <1>1 DEF CurrentStays, NextOf, count
<1>. QED BY <1>2, InvariantHolds, PTL DEF Spec, CurrentFollows

=================================================================================
