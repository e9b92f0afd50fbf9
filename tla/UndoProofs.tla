------------------------------ MODULE UndoProofs ------------------------------
(****************************************************************************)
(* The undo manager: every group is in one place and follows the one before *)
(* it; the modified flag is exact unless an address is used again; and each *)
(* of its steps is one of History, or changes nothing that History knows.   *)
(****************************************************************************)
EXTENDS UndoManager, TLAPS

------------------------------------------------------------------------------
(* Sequences                                                                *)

LEMMA FrontFacts ==
    ASSUME NEW S, NEW s \in Seq(S), s # <<>>
    PROVE  /\ Len(s) \in Nat \ {0}
           /\ Front(s) \in Seq(S)
           /\ Len(Front(s)) = Len(s) - 1
           /\ \A i \in 1 .. Len(s) - 1 : Front(s)[i] = s[i]
           /\ Last(s) = s[Len(s)]
           /\ Last(s) \in S
           /\ In(s) = In(Front(s)) \cup {Last(s)}
<1>1. Len(s) \in Nat \ {0}
  OBVIOUS
<1>2. /\ Front(s) \in Seq(S)
      /\ Len(Front(s)) = Len(s) - 1
      /\ \A i \in 1 .. Len(s) - 1 : Front(s)[i] = s[i]
  BY <1>1 DEF Front
<1>3. Last(s) = s[Len(s)] /\ Last(s) \in S
  BY <1>1 DEF Last
<1>4. 1 .. Len(s) = 1 .. Len(s) - 1 \cup {Len(s)}
  BY <1>1
<1>5. In(s) = In(Front(s)) \cup {Last(s)}
  BY <1>1, <1>2, <1>3, <1>4 DEF In
<1>. QED BY <1>1, <1>2, <1>3, <1>5

LEMMA AppendFacts ==
    ASSUME NEW S, NEW s \in Seq(S), NEW e \in S
    PROVE  /\ Append(s, e) \in Seq(S)
           /\ Append(s, e) # <<>>
           /\ Len(Append(s, e)) = Len(s) + 1
           /\ \A i \in 1 .. Len(s) : Append(s, e)[i] = s[i]
           /\ Append(s, e)[Len(s) + 1] = e
           /\ Last(Append(s, e)) = e
           /\ In(Append(s, e)) = In(s) \cup {e}
<1>1. /\ Append(s, e) \in Seq(S)
      /\ Len(Append(s, e)) = Len(s) + 1
      /\ \A i \in 1 .. Len(s) : Append(s, e)[i] = s[i]
      /\ Append(s, e)[Len(s) + 1] = e
  OBVIOUS
<1>2. Append(s, e) # <<>>
  BY <1>1
<1>3. Last(Append(s, e)) = e
  BY <1>1, <1>2 DEF Last
<1>4. Len(s) \in Nat /\ 1 .. Len(s) + 1 = 1 .. Len(s) \cup {Len(s) + 1}
  OBVIOUS
<1>5. In(Append(s, e)) = In(s) \cup {e}
  BY <1>1, <1>4 DEF In
<1>. QED BY <1>1, <1>2, <1>3, <1>5

LEMMA InFacts ==
    ASSUME NEW S, NEW s \in Seq(S)
    PROVE  /\ Len(s) \in Nat
           /\ In(s) \subseteq S
           /\ s \in Seq(In(s))
           /\ s = <<>> <=> In(s) = {}
           /\ s # <<>> => Last(s) \in In(s)
<1>1. Len(s) \in Nat /\ In(s) \subseteq S
  BY DEF In
<1>2. s \in Seq(In(s))
  BY DEF In
<1>3. s # <<>> => Last(s) \in In(s)
  BY FrontFacts
<1>4. s = <<>> => In(s) = {}
  BY DEF In
<1>. QED BY <1>1, <1>2, <1>3, <1>4

LEMMA InEmpty == In(<<>>) = {} /\ <<>> \in Seq({}) /\ Last(<<>>) = None
  BY DEF In, Last

LEMMA Wider ==
    ASSUME NEW S, NEW T, NEW s \in Seq(S), In(s) \subseteq T
    PROVE  s \in Seq(T)
  BY InFacts DEF In

------------------------------------------------------------------------------
(* Groups                                                                   *)

LEMMA WithoutFacts ==
    ASSUME NEW S, group \in [DOMAIN group -> S], NEW G
    PROVE  /\ Without(G) \in [DOMAIN group \ G -> S]
           /\ DOMAIN Without(G) = DOMAIN group \ G
           /\ \A g \in DOMAIN group \ G : Without(G)[g] = group[g]
  BY DEF Without

LEMMA SafeFacts ==
    ASSUME TypeOK, NEW g \in DOMAIN group \cup {None}
    PROVE  /\ Safe(g) \in [DOMAIN group -> GroupStates]
           /\ DOMAIN Safe(g) = DOMAIN group
           /\ \A h \in DOMAIN group :
                /\ Safe(g)[h].from = group[h].from /\ Safe(g)[h].to = group[h].to
                /\ Safe(g)[h].types = group[h].types
                /\ Safe(g)[h].safe = (group[h].safe \/ h = g)
<1>1. None \notin DOMAIN group /\ group \in [DOMAIN group -> GroupStates]
  BY UndoAssumption DEF TypeOK
<1>2. CASE g = None
  BY <1>1, <1>2 DEF Safe, GroupStates
<1>3. CASE g # None
  <2>1. /\ group[g] \in GroupStates /\ g \in DOMAIN group
        /\ Safe(g) = [group EXCEPT ![g] = [group[g] EXCEPT !.safe = TRUE]]
    BY <1>1, <1>3 DEF Safe
  <2>2. [group[g] EXCEPT !.safe = TRUE] \in GroupStates
    BY <2>1 DEF GroupStates
  <2>. QED BY <1>1, <2>1, <2>2 DEF GroupStates
<1>. QED BY <1>2, <1>3

LEMMA LastFacts ==
    ASSUME TypeOK
    PROVE  /\ Last(undoItems) \in DOMAIN group \cup {None}
           /\ undoItems # <<>> => Last(undoItems) \in DOMAIN group
           /\ Last(redoItems) \in DOMAIN group \cup {None}
           /\ redoItems # <<>> => Last(redoItems) \in DOMAIN group
           /\ current # None => current \in DOMAIN group
           /\ Latest \in DOMAIN group \cup {None}
           /\ None \notin DOMAIN group
<1>1. /\ undoItems # <<>> => Last(undoItems) \in DOMAIN group
      /\ redoItems # <<>> => Last(redoItems) \in DOMAIN group
  BY FrontFacts DEF TypeOK
<1>2. Last(undoItems) \in DOMAIN group \cup {None} /\ Last(redoItems) \in DOMAIN group \cup {None}
  BY <1>1 DEF Last
<1>. QED BY <1>1, <1>2, UndoAssumption DEF TypeOK, Latest

LEMMA TextFacts ==
    ASSUME TypeOK
    PROVE  /\ 0 \in Texts
           /\ texts < MaxText => texts + 1 \in Texts
           /\ \A t \in Texts : [from |-> t, to |-> t, types |-> {}, safe |-> FALSE] \in GroupStates
           /\ \A g \in DOMAIN group : group[g] \in GroupStates /\ group[g].from \in Texts
                                      /\ group[g].to \in Texts
  BY UndoAssumption DEF TypeOK, Texts, GroupStates

\* setModified(false) notes the last group of each list, if it has one.
LEMMA SetSavedType ==
    ASSUME TypeOK, NEW u \in Seq(DOMAIN group), NEW r \in Seq(DOMAIN group), SetSaved(u, r)
    PROVE  /\ {lastUndoGroupWhenSaved', lastRedoGroupWhenSaved'} \subseteq Groups \cup {None}
           /\ {docWasSavedWhenUndoWasEmpty', docWasSavedWhenRedoWasEmpty'} \subseteq BOOLEAN
  BY FrontFacts DEF TypeOK, SetSaved

LEMMA UpdateModifiedType ==
    ASSUME TypeOK, NEW u \in Seq(DOMAIN group), NEW r \in Seq(DOMAIN group),
           UpdateModified(u, r)
    PROVE  /\ modified' \in BOOLEAN
           /\ group' \in [DOMAIN group -> GroupStates] /\ DOMAIN group' = DOMAIN group
           /\ \A h \in DOMAIN group : /\ group'[h].from = group[h].from
                                      /\ group'[h].to = group[h].to
                                      /\ group'[h].types = group[h].types
           /\ {lastUndoGroupWhenSaved', lastRedoGroupWhenSaved'} \subseteq Groups \cup {None}
           /\ {docWasSavedWhenUndoWasEmpty', docWasSavedWhenRedoWasEmpty'} \subseteq BOOLEAN
<1>1. CASE Pattern(u, r) \in Patterns
  <2>1. modified' = FALSE /\ SetSaved(u, r) /\ group' = Safe(Last(u))
    BY <1>1 DEF UpdateModified
  <2>2. Last(u) \in DOMAIN group \cup {None}
    BY FrontFacts DEF Last
  <2>. QED BY <2>1, <2>2, SafeFacts, SetSavedType
<1>2. CASE Pattern(u, r) \notin Patterns
  BY <1>2 DEF UpdateModified, saved, TypeOK
<1>. QED BY <1>1, <1>2

------------------------------------------------------------------------------
(* Types and owners                                                         *)

LEMMA InitTyped == Init => TypeOK /\ GroupsOwned
<1>. SUFFICES ASSUME Init PROVE TypeOK /\ GroupsOwned
  OBVIOUS
<1>1. /\ undoItems = <<>> /\ redoItems = <<>> /\ current = None
      /\ group = [g \in {} |-> 0]
  BY DEF Init
<1>2. DOMAIN group = {} /\ group \in [DOMAIN group -> GroupStates]
  BY <1>1
<1>3. undoItems \in Seq(DOMAIN group) /\ redoItems \in Seq(DOMAIN group)
  BY <1>1
<1>4. 0 \in Texts
  BY UndoAssumption DEF Texts
<1>5. TypeOK
  BY <1>1, <1>2, <1>3, <1>4 DEF Init, TypeOK
<1>6. GroupsOwned
  BY <1>1, <1>2, InEmpty DEF GroupsOwned, Injective
<1>. QED BY <1>5, <1>6

LEMMA EditStartTyped ==
    ASSUME TypeOK, GroupsOwned, EditStart
    PROVE  TypeOK' /\ GroupsOwned'
<1>1. PICK g \in Groups \ DOMAIN group :
        /\ current' = g
        /\ group' = [h \in DOMAIN group \cup {g} |->
                       IF h = g THEN [from |-> text, to |-> text, types |-> {}, safe |-> FALSE]
                       ELSE group[h]]
  BY DEF EditStart
<1>2. /\ current = None /\ g # None
      /\ UNCHANGED <<text, disk, texts, modified, undoItems, redoItems, complex, saved>>
  BY UndoAssumption DEF EditStart
<1>3. DOMAIN group' = DOMAIN group \cup {g} /\ group' \in [DOMAIN group' -> GroupStates]
  BY <1>1, TextFacts DEF TypeOK
<1>4. undoItems \in Seq(DOMAIN group') /\ redoItems \in Seq(DOMAIN group')
  BY <1>3, Wider, InFacts DEF TypeOK
<1>5. TypeOK'
  BY <1>1, <1>2, <1>3, <1>4 DEF TypeOK, saved
<1>6. GroupsOwned'
  BY <1>1, <1>2, <1>3 DEF GroupsOwned
<1>. QED BY <1>5, <1>6

LEMMA AddTyped ==
    ASSUME TypeOK, GroupsOwned, NEW type \in Types, AddUndoItem(type)
    PROVE  TypeOK' /\ GroupsOwned'
<1>1. /\ current # None /\ texts < MaxText /\ texts' = texts + 1 /\ text' = texts + 1
      /\ UNCHANGED <<disk, modified, undoItems, current, complex, saved>>
      /\ group' = [Without(In(redoItems)) EXCEPT ![current] = Grown(type)]
      /\ redoItems' = <<>>
  BY DEF AddUndoItem, Change
<1>2. Grown(type) \in GroupStates
  <2>1. group[current] \in GroupStates /\ texts + 1 \in Texts
    BY <1>1, TextFacts, LastFacts
  <2>. QED BY <2>1 DEF Grown, GroupStates
<1>3. DOMAIN group' = DOMAIN group \ In(redoItems) /\ group' \in [DOMAIN group' -> GroupStates]
  BY <1>1, <1>2, WithoutFacts DEF TypeOK
<1>4. In(undoItems) \subseteq DOMAIN group' /\ current \in DOMAIN group'
  BY <1>1, <1>3 DEF GroupsOwned
<1>5. undoItems \in Seq(DOMAIN group') /\ redoItems' \in Seq(DOMAIN group')
  BY <1>1, <1>4, Wider DEF TypeOK
<1>6. TypeOK'
  BY <1>1, <1>3, <1>4, <1>5, TextFacts DEF TypeOK, saved
<1>7. GroupsOwned'
  BY <1>1, <1>3, InEmpty DEF GroupsOwned, Injective
<1>. QED BY <1>6, <1>7

LEMMA EditEndTyped ==
    ASSUME TypeOK, GroupsOwned, EditEnd
    PROVE  TypeOK' /\ GroupsOwned'
<1>1. /\ current # None /\ current' = None
      /\ modified' = (modified \/ group[current].types # {})
      /\ UNCHANGED <<text, disk, texts, redoItems, complex, saved>>
  BY DEF EditEnd
<1>2. modified' \in BOOLEAN /\ current \in DOMAIN group /\ current \notin In(undoItems) \cup In(redoItems)
  BY <1>1, LastFacts DEF GroupsOwned
<1>3. CASE group[current].types = {}
  <2>1. group' = Without({current}) /\ undoItems' = undoItems
    BY <1>1, <1>3 DEF EditEnd
  <2>2. DOMAIN group' = DOMAIN group \ {current} /\ group' \in [DOMAIN group' -> GroupStates]
    BY <2>1, WithoutFacts DEF TypeOK
  <2>3. In(undoItems) \subseteq DOMAIN group' /\ In(redoItems) \subseteq DOMAIN group'
    BY <1>2, <2>2 DEF GroupsOwned
  <2>4. undoItems \in Seq(DOMAIN group') /\ redoItems \in Seq(DOMAIN group')
    BY <2>3, Wider DEF TypeOK
  <2>5. TypeOK'
    BY <1>1, <1>2, <2>1, <2>2, <2>4 DEF TypeOK, saved
  <2>6. GroupsOwned'
    <3>1. DOMAIN group' = In(undoItems') \cup In(redoItems') \cup ({current'} \ {None})
      BY <1>1, <1>2, <2>1, <2>2 DEF GroupsOwned
    <3>2. current' \notin In(undoItems') \cup In(redoItems')
      BY <1>1, <2>1, LastFacts DEF GroupsOwned
    <3>. QED BY <1>1, <2>1, <3>1, <3>2 DEF GroupsOwned, Injective
  <2>. QED BY <2>5, <2>6
<1>4. CASE /\ group[current].types # {}
           /\ undoItems # <<>> /\ Merges(Last(undoItems), current)
  <2>1. /\ group' = [Without({current}) EXCEPT ![Last(undoItems)] = Merged(Last(undoItems), current)]
        /\ undoItems' = undoItems
    BY <1>1, <1>4 DEF EditEnd
  <2>2. Merged(Last(undoItems), current) \in GroupStates
    <3>1. group[Last(undoItems)] \in GroupStates /\ group[current] \in GroupStates
      BY <1>2, <1>4, LastFacts, TextFacts
    <3>. QED BY <3>1 DEF Merged, GroupStates
  <2>3. DOMAIN group' = DOMAIN group \ {current} /\ group' \in [DOMAIN group' -> GroupStates]
    BY <2>1, <2>2, WithoutFacts DEF TypeOK
  <2>4. In(undoItems) \subseteq DOMAIN group' /\ In(redoItems) \subseteq DOMAIN group'
    BY <1>2, <2>3 DEF GroupsOwned
  <2>5. undoItems \in Seq(DOMAIN group') /\ redoItems \in Seq(DOMAIN group')
    BY <2>4, Wider DEF TypeOK
  <2>6. TypeOK'
    BY <1>1, <1>2, <2>1, <2>3, <2>5 DEF TypeOK, saved
  <2>7. GroupsOwned'
    <3>1. DOMAIN group' = In(undoItems') \cup In(redoItems') \cup ({current'} \ {None})
      BY <1>1, <1>2, <2>1, <2>3 DEF GroupsOwned
    <3>2. current' \notin In(undoItems') \cup In(redoItems')
      BY <1>1, <2>1, LastFacts DEF GroupsOwned
    <3>. QED BY <1>1, <2>1, <3>1, <3>2 DEF GroupsOwned, Injective
  <2>. QED BY <2>6, <2>7
<1>5. CASE /\ group[current].types # {}
           /\ ~(undoItems # <<>> /\ Merges(Last(undoItems), current))
  <2>1. undoItems' = Append(undoItems, current) /\ group' = group
    BY <1>1, <1>5 DEF EditEnd
  <2>2. /\ undoItems' \in Seq(DOMAIN group) /\ In(undoItems') = In(undoItems) \cup {current}
        /\ Len(undoItems') = Len(undoItems) + 1
        /\ \A i \in 1 .. Len(undoItems) : undoItems'[i] = undoItems[i]
        /\ undoItems'[Len(undoItems) + 1] = current
    BY <1>2, <2>1, AppendFacts DEF TypeOK
  <2>3. TypeOK'
    BY <1>1, <1>2, <2>1, <2>2 DEF TypeOK, saved
  <2>4. \A i \in 1 .. Len(undoItems) : undoItems[i] # current
    BY <1>2 DEF In
  <2>5. Len(undoItems) \in Nat
    BY InFacts DEF TypeOK
  <2>6. Injective(undoItems')
    BY <2>2, <2>4, <2>5 DEF GroupsOwned, Injective
  <2>7. GroupsOwned'
    <3>1. DOMAIN group' = In(undoItems') \cup In(redoItems') \cup ({current'} \ {None})
      BY <1>1, <1>2, <2>1, <2>2 DEF GroupsOwned
    <3>2. In(undoItems') \cap In(redoItems') = {}
      BY <1>1, <1>2, <2>2 DEF GroupsOwned
    <3>3. current' \notin In(undoItems') \cup In(redoItems')
      BY <1>1, <3>1, <2>1, LastFacts
    <3>. QED BY <1>1, <2>6, <3>1, <3>2, <3>3 DEF GroupsOwned, Injective
  <2>. QED BY <2>3, <2>7
<1>. QED BY <1>3, <1>4, <1>5

\* The three operations that only close a group.
LEMMA SafeTyped ==
    ASSUME TypeOK, GroupsOwned, NEW g \in DOMAIN group \cup {None}, group' = Safe(g),
           UNCHANGED <<undoItems, redoItems, current>>
    PROVE  /\ DOMAIN group' = DOMAIN group /\ group' \in [DOMAIN group' -> GroupStates]
           /\ GroupsOwned'
  BY SafeFacts DEF GroupsOwned

LEMMA MoveTyped ==
    ASSUME TypeOK, GroupsOwned, NEW s \in Seq(DOMAIN group), NEW t \in Seq(DOMAIN group),
           s # <<>>, Injective(s), Injective(t), In(s) \cap In(t) = {}
    PROVE  /\ Front(s) \in Seq(DOMAIN group) /\ Append(t, Last(s)) \in Seq(DOMAIN group)
           /\ In(Front(s)) \cup {Last(s)} = In(s) /\ Last(s) \notin In(Front(s))
           /\ In(Append(t, Last(s))) = In(t) \cup {Last(s)}
           /\ Injective(Front(s)) /\ Injective(Append(t, Last(s)))
           /\ In(Front(s)) \cap In(Append(t, Last(s))) = {}
<1>1. /\ Len(s) \in Nat \ {0} /\ Front(s) \in Seq(DOMAIN group) /\ Len(Front(s)) = Len(s) - 1
      /\ \A i \in 1 .. Len(s) - 1 : Front(s)[i] = s[i]
      /\ Last(s) = s[Len(s)] /\ Last(s) \in DOMAIN group
      /\ In(s) = In(Front(s)) \cup {Last(s)}
  BY FrontFacts
<1>2. /\ Append(t, Last(s)) \in Seq(DOMAIN group)
      /\ Len(Append(t, Last(s))) = Len(t) + 1
      /\ \A i \in 1 .. Len(t) : Append(t, Last(s))[i] = t[i]
      /\ Append(t, Last(s))[Len(t) + 1] = Last(s)
      /\ In(Append(t, Last(s))) = In(t) \cup {Last(s)}
  BY <1>1, AppendFacts
<1>3. Injective(Front(s))
  BY <1>1 DEF Injective
<1>4. \A i \in 1 .. Len(s) - 1 : Front(s)[i] # Last(s)
  BY <1>1 DEF Injective
<1>5. Last(s) \notin In(Front(s))
  BY <1>1, <1>4 DEF In
<1>6. \A i \in 1 .. Len(t) : t[i] # Last(s)
  BY <1>1 DEF In
<1>7. Len(t) \in Nat
  OBVIOUS
<1>8. Injective(Append(t, Last(s)))
  BY <1>2, <1>6, <1>7 DEF Injective
<1>. QED BY <1>1, <1>2, <1>3, <1>5, <1>8

LEMMA UndoTyped ==
    ASSUME TypeOK, GroupsOwned, Undo
    PROVE  TypeOK' /\ GroupsOwned'
<1>1. /\ current = None /\ undoItems # <<>>
      /\ text' = group[Last(undoItems)].from
      /\ undoItems' = Front(undoItems)
      /\ redoItems' = Append(redoItems, Last(undoItems))
      /\ UpdateModified(undoItems', redoItems')
      /\ UNCHANGED <<disk, texts, current, complex>>
  BY DEF Undo
<1>2. /\ undoItems' \in Seq(DOMAIN group) /\ redoItems' \in Seq(DOMAIN group)
      /\ In(undoItems') \cup {Last(undoItems)} = In(undoItems)
      /\ Last(undoItems) \notin In(undoItems')
      /\ In(redoItems') = In(redoItems) \cup {Last(undoItems)}
      /\ Injective(undoItems') /\ Injective(redoItems') /\ In(undoItems') \cap In(redoItems') = {}
  BY <1>1, MoveTyped DEF TypeOK, GroupsOwned
<1>3. /\ modified' \in BOOLEAN /\ DOMAIN group' = DOMAIN group
      /\ group' \in [DOMAIN group -> GroupStates]
      /\ {lastUndoGroupWhenSaved', lastRedoGroupWhenSaved'} \subseteq Groups \cup {None}
      /\ {docWasSavedWhenUndoWasEmpty', docWasSavedWhenRedoWasEmpty'} \subseteq BOOLEAN
  BY <1>1, <1>2, UpdateModifiedType
<1>4. text' \in Texts
  BY <1>1, LastFacts, TextFacts
<1>5. TypeOK'
  BY <1>1, <1>2, <1>3, <1>4 DEF TypeOK
<1>6. GroupsOwned'
  BY <1>1, <1>2, <1>3 DEF GroupsOwned
<1>. QED BY <1>5, <1>6

LEMMA RedoTyped ==
    ASSUME TypeOK, GroupsOwned, Redo
    PROVE  TypeOK' /\ GroupsOwned'
<1>1. /\ current = None /\ redoItems # <<>>
      /\ text' = group[Last(redoItems)].to
      /\ redoItems' = Front(redoItems)
      /\ undoItems' = Append(undoItems, Last(redoItems))
      /\ UpdateModified(undoItems', redoItems')
      /\ UNCHANGED <<disk, texts, current, complex>>
  BY DEF Redo
<1>2. /\ undoItems' \in Seq(DOMAIN group) /\ redoItems' \in Seq(DOMAIN group)
      /\ In(redoItems') \cup {Last(redoItems)} = In(redoItems)
      /\ Last(redoItems) \notin In(redoItems')
      /\ In(undoItems') = In(undoItems) \cup {Last(redoItems)}
      /\ Injective(undoItems') /\ Injective(redoItems') /\ In(redoItems') \cap In(undoItems') = {}
  BY <1>1, MoveTyped DEF TypeOK, GroupsOwned
<1>3. /\ modified' \in BOOLEAN /\ DOMAIN group' = DOMAIN group
      /\ group' \in [DOMAIN group -> GroupStates]
      /\ {lastUndoGroupWhenSaved', lastRedoGroupWhenSaved'} \subseteq Groups \cup {None}
      /\ {docWasSavedWhenUndoWasEmpty', docWasSavedWhenRedoWasEmpty'} \subseteq BOOLEAN
  BY <1>1, <1>2, UpdateModifiedType
<1>4. text' \in Texts
  BY <1>1, LastFacts, TextFacts
<1>5. TypeOK'
  BY <1>1, <1>2, <1>3, <1>4 DEF TypeOK
<1>6. GroupsOwned'
  BY <1>1, <1>2, <1>3 DEF GroupsOwned
<1>. QED BY <1>5, <1>6

LEMMA SaveTyped ==
    ASSUME TypeOK, GroupsOwned, Save
    PROVE  TypeOK' /\ GroupsOwned'
<1>1. /\ disk' = text /\ modified' = FALSE /\ group' = Safe(Last(undoItems))
      /\ SetSaved(undoItems, redoItems)
      /\ UNCHANGED <<text, texts, undoItems, redoItems, current, complex>>
  BY DEF Save
<1>2. /\ DOMAIN group' = DOMAIN group /\ group' \in [DOMAIN group' -> GroupStates] /\ GroupsOwned'
  BY <1>1, LastFacts, SafeTyped
<1>3. /\ {lastUndoGroupWhenSaved', lastRedoGroupWhenSaved'} \subseteq Groups \cup {None}
      /\ {docWasSavedWhenUndoWasEmpty', docWasSavedWhenRedoWasEmpty'} \subseteq BOOLEAN
  BY <1>1, SetSavedType DEF TypeOK
<1>. QED BY <1>1, <1>2, <1>3 DEF TypeOK

LEMMA ReloadTyped ==
    ASSUME TypeOK, GroupsOwned, Reload
    PROVE  TypeOK' /\ GroupsOwned'
<1>1. /\ current = None /\ text' = disk /\ modified' = FALSE
      /\ undoItems' = <<>> /\ redoItems' = <<>>
      /\ group' = Without(In(undoItems) \cup In(redoItems))
      /\ lastUndoGroupWhenSaved' = None /\ lastRedoGroupWhenSaved' = None
      /\ docWasSavedWhenUndoWasEmpty' = TRUE /\ docWasSavedWhenRedoWasEmpty' = TRUE
      /\ UNCHANGED <<disk, texts, current, complex>>
  BY DEF Reload
<1>2. DOMAIN group' = {} /\ group' \in [DOMAIN group' -> GroupStates]
  BY <1>1, WithoutFacts DEF TypeOK, GroupsOwned
<1>3. undoItems' \in Seq(DOMAIN group') /\ redoItems' \in Seq(DOMAIN group')
  BY <1>1
<1>4. TypeOK'
  BY <1>1, <1>2, <1>3 DEF TypeOK
<1>5. GroupsOwned'
  BY <1>1, <1>2, InEmpty DEF GroupsOwned, Injective
<1>. QED BY <1>4, <1>5

LEMMA NextTyped == TypeOK /\ GroupsOwned /\ [Next]_vars => TypeOK' /\ GroupsOwned'
<1>. SUFFICES ASSUME TypeOK, GroupsOwned, [Next]_vars PROVE TypeOK' /\ GroupsOwned'
  OBVIOUS
<1>1. CASE EditStart
  BY <1>1, EditStartTyped
<1>2. CASE EditEnd
  BY <1>2, EditEndTyped
<1>3. CASE UndoSafePoint
  <2>1. DOMAIN group' = DOMAIN group /\ group' \in [DOMAIN group' -> GroupStates] /\ GroupsOwned'
    BY <1>3, LastFacts, SafeTyped DEF UndoSafePoint
  <2>. QED BY <1>3, <2>1 DEF UndoSafePoint, TypeOK, saved
<1>4. ASSUME NEW type \in Types, AddUndoItem(type) PROVE TypeOK' /\ GroupsOwned'
  BY <1>4, AddTyped
<1>5. ASSUME NEW merge \in BOOLEAN, SetUndoMergeAllEdits(merge) PROVE TypeOK' /\ GroupsOwned'
  <2>1. DOMAIN group' = DOMAIN group /\ group' \in [DOMAIN group' -> GroupStates] /\ GroupsOwned'
    BY <1>5, LastFacts, SafeTyped DEF SetUndoMergeAllEdits
  <2>. QED BY <1>5, <2>1 DEF SetUndoMergeAllEdits, TypeOK, saved
<1>6. CASE Undo
  BY <1>6, UndoTyped
<1>7. CASE Redo
  BY <1>7, RedoTyped
<1>8. CASE Save
  BY <1>8, SaveTyped
<1>9. CASE Reload
  BY <1>9, ReloadTyped
<1>10. CASE UNCHANGED vars
  BY <1>10 DEF vars, saved, TypeOK, GroupsOwned
<1>. QED BY <1>1, <1>2, <1>3, <1>4, <1>5, <1>6, <1>7, <1>8, <1>9, <1>10 DEF Next

LEMMA Typed == Spec => [](TypeOK /\ GroupsOwned)
  BY InitTyped, NextTyped, PTL DEF Spec

\* The range of every variable; the lists hold groups that exist.
THEOREM UndoTypeCorrect == Spec => []TypeOK
  BY Typed, PTL

\* No group leaks, is in two places or is used after it was deleted.
THEOREM GroupsNeverLost == Spec => []GroupsOwned
  BY Typed, PTL

------------------------------------------------------------------------------
(* The chain of groups                                                      *)

LEMMA Indexed ==
    ASSUME TypeOK, GroupsOwned
    PROVE  /\ Len(undoItems) \in Nat /\ Len(redoItems) \in Nat
           /\ \A i \in 1 .. Len(undoItems) : undoItems[i] \in In(undoItems)
           /\ \A i \in 1 .. Len(redoItems) : redoItems[i] \in In(redoItems)
           /\ In(undoItems) \subseteq DOMAIN group /\ In(redoItems) \subseteq DOMAIN group
           /\ undoItems # <<>> => /\ Len(undoItems) >= 1
                                  /\ Last(undoItems) = undoItems[Len(undoItems)]
                                  /\ Last(undoItems) \in In(undoItems)
           /\ redoItems # <<>> => /\ Len(redoItems) >= 1
                                  /\ Last(redoItems) = redoItems[Len(redoItems)]
                                  /\ Last(redoItems) \in In(redoItems)
<1>1. undoItems \in Seq(DOMAIN group) /\ redoItems \in Seq(DOMAIN group)
  BY DEF TypeOK
<1>2. /\ \A i \in 1 .. Len(undoItems) : undoItems[i] \in In(undoItems)
      /\ \A i \in 1 .. Len(redoItems) : redoItems[i] \in In(redoItems)
  BY DEF In
<1>3. undoItems # <<>> => /\ Len(undoItems) \in Nat \ {0}
                          /\ Last(undoItems) = undoItems[Len(undoItems)]
                          /\ Last(undoItems) \in In(undoItems)
  BY <1>1, InFacts, FrontFacts
<1>4. redoItems # <<>> => /\ Len(redoItems) \in Nat \ {0}
                          /\ Last(redoItems) = redoItems[Len(redoItems)]
                          /\ Last(redoItems) \in In(redoItems)
  BY <1>1, InFacts, FrontFacts
<1>. QED BY <1>1, <1>2, <1>3, <1>4, InFacts

\* A step that leaves the lists and the texts of their groups alone.
LEMMA ChainKept ==
    ASSUME TypeOK, GroupsOwned, Chained, UNCHANGED <<undoItems, redoItems, text>>,
           \A h \in In(undoItems) \cup In(redoItems) :
             group'[h].from = group[h].from /\ group'[h].to = group[h].to,
           current' # None => group'[current'].to = text,
           undoItems # <<>> =>
             (IF current' # None THEN group'[current'].from ELSE text)
               = (IF current # None THEN group[current].from ELSE text)
    PROVE  Chained'
<1>1. \A i \in 2 .. Len(undoItems) :
        undoItems[i] \in In(undoItems) /\ undoItems[i - 1] \in In(undoItems)
  BY Indexed
<1>2. \A i \in 2 .. Len(redoItems) :
        redoItems[i] \in In(redoItems) /\ redoItems[i - 1] \in In(redoItems)
  BY Indexed
<1>3. /\ undoItems # <<>> => Last(undoItems) \in In(undoItems)
      /\ redoItems # <<>> => Last(redoItems) \in In(redoItems)
  BY Indexed
<1>4. \A i \in 2 .. Len(undoItems) : group'[undoItems[i]].from = group'[undoItems[i - 1]].to
  BY <1>1 DEF Chained
<1>5. \A i \in 2 .. Len(redoItems) : group'[redoItems[i]].to = group'[redoItems[i - 1]].from
  BY <1>2 DEF Chained
<1>6. redoItems # <<>> => group'[Last(redoItems)].from = text
  BY <1>3 DEF Chained
<1>7. undoItems # <<>> => group'[Last(undoItems)].to =
                            (IF current' # None THEN group'[current'].from ELSE text)
  BY <1>3 DEF Chained
<1>. QED BY <1>4, <1>5, <1>6, <1>7 DEF Chained

LEMMA SafeChained ==
    ASSUME TypeOK, GroupsOwned, Chained, UNCHANGED <<undoItems, redoItems, text, current>>,
           NEW g \in DOMAIN group \cup {None}, group' = Safe(g)
    PROVE  Chained'
<1>1. \A h \in DOMAIN group : group'[h].from = group[h].from /\ group'[h].to = group[h].to
  BY SafeFacts
<1>. QED BY <1>1, ChainKept, Indexed, LastFacts DEF Chained

LEMMA EditStartChained ==
    ASSUME TypeOK, GroupsOwned, Chained, EditStart
    PROVE  Chained'
<1>1. PICK g \in Groups \ DOMAIN group :
        /\ current' = g
        /\ group' = [h \in DOMAIN group \cup {g} |->
                       IF h = g THEN [from |-> text, to |-> text, types |-> {}, safe |-> FALSE]
                       ELSE group[h]]
  BY DEF EditStart
<1>2. current = None /\ UNCHANGED <<text, undoItems, redoItems>>
  BY DEF EditStart
<1>3. group'[g].from = text /\ group'[g].to = text
  BY <1>1
<1>4. \A h \in In(undoItems) \cup In(redoItems) : group'[h] = group[h]
  BY <1>1, Indexed
<1>. QED BY <1>1, <1>2, <1>3, <1>4, ChainKept

LEMMA AddChained ==
    ASSUME TypeOK, GroupsOwned, Chained, NEW type \in Types, AddUndoItem(type)
    PROVE  Chained'
<1>1. /\ current # None /\ text' = texts + 1 /\ UNCHANGED <<undoItems, current>>
      /\ group' = [Without(In(redoItems)) EXCEPT ![current] = Grown(type)]
      /\ redoItems' = <<>>
  BY DEF AddUndoItem, Change, saved
<1>2. current \in DOMAIN group \ In(redoItems) /\ current \notin In(undoItems)
  BY <1>1, LastFacts DEF GroupsOwned
<1>3. group[current] \in GroupStates
  BY <1>2, TextFacts
<1>4. group'[current] = Grown(type)
  BY <1>1, <1>2, WithoutFacts DEF TypeOK
<1>5. Grown(type).from = group[current].from /\ Grown(type).to = texts + 1
  BY <1>3 DEF Grown, GroupStates
<1>6. \A h \in In(undoItems) : group'[h] = group[h]
  <2>1. In(undoItems) \subseteq DOMAIN group \ In(redoItems)
    BY Indexed DEF GroupsOwned
  <2>2. \A h \in In(undoItems) : Without(In(redoItems))[h] = group[h]
    BY <2>1, WithoutFacts DEF TypeOK
  <2>3. \A h \in In(undoItems) : h # current /\ h \in DOMAIN Without(In(redoItems))
    BY <1>2, <2>1, WithoutFacts DEF TypeOK
  <2>. QED BY <1>1, <2>2, <2>3
<1>7. \A i \in 2 .. Len(undoItems) : group'[undoItems[i]].from = group'[undoItems[i - 1]].to
  <2>1. \A i \in 2 .. Len(undoItems) :
          undoItems[i] \in In(undoItems) /\ undoItems[i - 1] \in In(undoItems)
    BY Indexed
  <2>. QED BY <1>6, <2>1 DEF Chained
<1>8. undoItems # <<>> => group'[Last(undoItems)].to = group'[current].from
  BY <1>1, <1>4, <1>5, <1>6, Indexed DEF Chained
<1>. QED BY <1>1, <1>4, <1>5, <1>7, <1>8 DEF Chained

LEMMA EditEndChained ==
    ASSUME TypeOK, GroupsOwned, Chained, EditEnd,
           group[current].types = {} => group[current].from = text
    PROVE  Chained'
<1>1. current # None /\ current' = None /\ UNCHANGED <<text, redoItems>>
  BY DEF EditEnd
<1>2. current \in DOMAIN group /\ current \notin In(undoItems) \cup In(redoItems)
  BY <1>1, LastFacts DEF GroupsOwned
<1>3. CASE group[current].types = {}
  <2>1. group' = Without({current}) /\ undoItems' = undoItems
    BY <1>1, <1>3 DEF EditEnd
  <2>2. \A h \in In(undoItems) \cup In(redoItems) : group'[h] = group[h]
    BY <1>2, <2>1, Indexed, WithoutFacts DEF TypeOK
  <2>. QED BY <1>1, <1>3, <2>1, <2>2, ChainKept
<1>4. CASE /\ group[current].types # {}
           /\ undoItems # <<>> /\ Merges(Last(undoItems), current)
  <2>1. /\ group' = [Without({current}) EXCEPT ![Last(undoItems)] = Merged(Last(undoItems), current)]
        /\ undoItems' = undoItems
    BY <1>1, <1>4 DEF EditEnd
  <2>2. /\ Last(undoItems) = undoItems[Len(undoItems)] /\ Last(undoItems) \in In(undoItems)
        /\ Last(undoItems) \in DOMAIN group \ {current} /\ Len(undoItems) \in Nat
    BY <1>2, <1>4, Indexed
  <2>3. /\ group'[Last(undoItems)] = Merged(Last(undoItems), current)
        /\ \A h \in In(undoItems) \cup In(redoItems) : h # Last(undoItems) => group'[h] = group[h]
    <3>1. \A h \in In(undoItems) \cup In(redoItems) :
            h \in DOMAIN Without({current}) /\ Without({current})[h] = group[h]
      BY <1>2, Indexed, WithoutFacts DEF TypeOK
    <3>. QED BY <2>1, <2>2, <3>1
  <2>4. /\ group'[Last(undoItems)].from = group[Last(undoItems)].from
        /\ group'[Last(undoItems)].to = group[current].to
    <3>1. group[Last(undoItems)] \in GroupStates
      BY <2>2, TextFacts
    <3>. QED BY <2>3, <3>1 DEF Merged, GroupStates
  <2>5. \A i \in 1 .. Len(undoItems) - 1 : undoItems[i] # Last(undoItems)
    BY <2>2 DEF GroupsOwned, Injective
  <2>6. \A i \in 2 .. Len(undoItems) : group'[undoItems[i]].from = group'[undoItems[i - 1]].to
    <3>. TAKE i \in 2 .. Len(undoItems)
    <3>1. undoItems[i] \in In(undoItems) /\ undoItems[i - 1] \in In(undoItems)
      BY Indexed
    <3>2. group'[undoItems[i - 1]] = group[undoItems[i - 1]]
      BY <2>2, <2>3, <2>5, <3>1
    <3>3. group'[undoItems[i]].from = group[undoItems[i]].from
      BY <2>3, <2>4, <3>1
    <3>. QED BY <3>2, <3>3 DEF Chained
  <2>7. \A h \in In(redoItems) : group'[h] = group[h]
    BY <2>2, <2>3 DEF GroupsOwned
  <2>8. \A i \in 2 .. Len(redoItems) : group'[redoItems[i]].to = group'[redoItems[i - 1]].from
    <3>1. \A i \in 2 .. Len(redoItems) :
            redoItems[i] \in In(redoItems) /\ redoItems[i - 1] \in In(redoItems)
      BY Indexed
    <3>. QED BY <2>7, <3>1 DEF Chained
  <2>9. redoItems # <<>> => group'[Last(redoItems)].from = text
    BY <2>7, Indexed DEF Chained
  <2>10. group'[Last(undoItems)].to = text
    BY <1>1, <2>4 DEF Chained
  <2>. QED BY <1>1, <2>1, <2>6, <2>8, <2>9, <2>10 DEF Chained
<1>5. CASE /\ group[current].types # {}
           /\ ~(undoItems # <<>> /\ Merges(Last(undoItems), current))
  <2>1. undoItems' = Append(undoItems, current) /\ group' = group
    BY <1>1, <1>5 DEF EditEnd
  <2>2. /\ Len(undoItems') = Len(undoItems) + 1 /\ Last(undoItems') = current
        /\ \A i \in 1 .. Len(undoItems) : undoItems'[i] = undoItems[i]
        /\ undoItems'[Len(undoItems) + 1] = current
    BY <1>2, <2>1, AppendFacts DEF TypeOK
  <2>3. \A i \in 2 .. Len(undoItems') : group[undoItems'[i]].from = group[undoItems'[i - 1]].to
    <3>. TAKE i \in 2 .. Len(undoItems')
    <3>1. Len(undoItems) \in Nat
      BY Indexed
    <3>2. CASE i = Len(undoItems) + 1
      <4>1. undoItems # <<>> /\ i - 1 = Len(undoItems) /\ i - 1 \in 1 .. Len(undoItems)
        BY <3>1, <3>2
      <4>. QED BY <1>1, <2>2, <3>2, <4>1, Indexed DEF Chained
    <3>3. CASE i # Len(undoItems) + 1
      <4>1. i \in 2 .. Len(undoItems) /\ i - 1 \in 1 .. Len(undoItems)
        BY <2>2, <3>1, <3>3
      <4>. QED BY <2>2, <4>1 DEF Chained
    <3>. QED BY <3>2, <3>3
  <2>. QED BY <1>1, <2>1, <2>2, <2>3 DEF Chained
<1>. QED BY <1>3, <1>4, <1>5

LEMMA UndoChained ==
    ASSUME TypeOK, GroupsOwned, Chained, Undo
    PROVE  Chained'
<1>. DEFINE g == Last(undoItems)
            n == Len(undoItems)
            m == Len(redoItems)
<1>1. /\ current = None /\ current' = None /\ undoItems # <<>>
      /\ text' = group[g].from
      /\ undoItems' = Front(undoItems) /\ redoItems' = Append(redoItems, g)
      /\ UpdateModified(undoItems', redoItems')
  BY DEF Undo
<1>2. /\ n \in Nat \ {0} /\ Len(undoItems') = n - 1 /\ g = undoItems[n] /\ g \in DOMAIN group
      /\ \A i \in 1 .. n - 1 : undoItems'[i] = undoItems[i]
      /\ undoItems' \in Seq(DOMAIN group)
  BY <1>1, FrontFacts DEF TypeOK
<1>3. /\ m \in Nat /\ Len(redoItems') = m + 1 /\ redoItems'[m + 1] = g /\ Last(redoItems') = g
      /\ \A i \in 1 .. m : redoItems'[i] = redoItems[i]
      /\ redoItems' \in Seq(DOMAIN group)
  BY <1>1, <1>2, AppendFacts, Indexed DEF TypeOK
<1>4. \A h \in DOMAIN group : group'[h].from = group[h].from /\ group'[h].to = group[h].to
  BY <1>1, <1>2, <1>3, UpdateModifiedType
<1>5. \A i \in 2 .. n - 1 : group'[undoItems'[i]].from = group'[undoItems'[i - 1]].to
  <2>. TAKE i \in 2 .. n - 1
  <2>1. i \in 2 .. n /\ i \in 1 .. n - 1 /\ i - 1 \in 1 .. n - 1 /\ i \in 1 .. n
    BY <1>2
  <2>2. undoItems[i] \in DOMAIN group /\ undoItems[i - 1] \in DOMAIN group
    BY <1>2, <2>1 DEF TypeOK
  <2>3. group[undoItems[i]].from = group[undoItems[i - 1]].to
    BY <2>1 DEF Chained
  <2>. QED BY <1>2, <1>4, <2>1, <2>2, <2>3
<1>6. redoItems # <<>> => group[redoItems[m]].from = text /\ redoItems[m] \in DOMAIN group /\ m \in 1 .. m
  BY <1>1, Indexed DEF Chained
<1>7. group[g].to = text
  BY <1>1 DEF Chained
<1>8. \A i \in 2 .. m + 1 : group'[redoItems'[i]].to = group'[redoItems'[i - 1]].from
  <2>. TAKE i \in 2 .. m + 1
  <2>1. CASE i = m + 1
    <3>1. i - 1 = m /\ m \in 1 .. m /\ redoItems # <<>>
      BY <1>3, <2>1
    <3>. QED BY <1>2, <1>3, <1>4, <1>6, <1>7, <2>1, <3>1
  <2>2. CASE i # m + 1
    <3>1. i \in 2 .. m /\ i - 1 \in 1 .. m /\ i \in 1 .. m
      BY <1>3, <2>2
    <3>2. redoItems[i] \in DOMAIN group /\ redoItems[i - 1] \in DOMAIN group
      BY <3>1 DEF TypeOK
    <3>3. group[redoItems[i]].to = group[redoItems[i - 1]].from
      BY <3>1 DEF Chained
    <3>. QED BY <1>3, <1>4, <3>1, <3>2, <3>3
  <2>. QED BY <2>1, <2>2
<1>9. group'[Last(redoItems')].from = text'
  BY <1>1, <1>2, <1>3, <1>4
<1>10. undoItems' # <<>> => group'[Last(undoItems')].to = text'
  <2>. SUFFICES ASSUME undoItems' # <<>> PROVE group'[Last(undoItems')].to = text'
    OBVIOUS
  <2>1. n - 1 \in 1 .. n - 1 /\ n \in 2 .. n /\ n - 1 \in 1 .. n
    BY <1>2
  <2>2. Last(undoItems') = undoItems[n - 1] /\ undoItems[n - 1] \in DOMAIN group
    BY <1>2, <2>1 DEF Last, TypeOK
  <2>3. group[undoItems[n]].from = group[undoItems[n - 1]].to
    BY <2>1 DEF Chained
  <2>. QED BY <1>1, <1>2, <1>4, <2>2, <2>3
<1>. QED BY <1>1, <1>2, <1>3, <1>5, <1>8, <1>9, <1>10 DEF Chained

LEMMA RedoChained ==
    ASSUME TypeOK, GroupsOwned, Chained, Redo
    PROVE  Chained'
<1>. DEFINE g == Last(redoItems)
            n == Len(redoItems)
            m == Len(undoItems)
<1>1. /\ current = None /\ current' = None /\ redoItems # <<>>
      /\ text' = group[g].to
      /\ redoItems' = Front(redoItems) /\ undoItems' = Append(undoItems, g)
      /\ UpdateModified(undoItems', redoItems')
  BY DEF Redo
<1>2. /\ n \in Nat \ {0} /\ Len(redoItems') = n - 1 /\ g = redoItems[n] /\ g \in DOMAIN group
      /\ \A i \in 1 .. n - 1 : redoItems'[i] = redoItems[i]
      /\ redoItems' \in Seq(DOMAIN group)
  BY <1>1, FrontFacts DEF TypeOK
<1>3. /\ m \in Nat /\ Len(undoItems') = m + 1 /\ undoItems'[m + 1] = g /\ Last(undoItems') = g
      /\ \A i \in 1 .. m : undoItems'[i] = undoItems[i]
      /\ undoItems' \in Seq(DOMAIN group)
  BY <1>1, <1>2, AppendFacts, Indexed DEF TypeOK
<1>4. \A h \in DOMAIN group : group'[h].from = group[h].from /\ group'[h].to = group[h].to
  BY <1>1, <1>2, <1>3, UpdateModifiedType
<1>5. \A i \in 2 .. n - 1 : group'[redoItems'[i]].to = group'[redoItems'[i - 1]].from
  <2>. TAKE i \in 2 .. n - 1
  <2>1. i \in 2 .. n /\ i \in 1 .. n - 1 /\ i - 1 \in 1 .. n - 1 /\ i \in 1 .. n
    BY <1>2
  <2>2. redoItems[i] \in DOMAIN group /\ redoItems[i - 1] \in DOMAIN group
    BY <1>2, <2>1 DEF TypeOK
  <2>3. group[redoItems[i]].to = group[redoItems[i - 1]].from
    BY <2>1 DEF Chained
  <2>. QED BY <1>2, <1>4, <2>1, <2>2, <2>3
<1>6. undoItems # <<>> => group[undoItems[m]].to = text /\ undoItems[m] \in DOMAIN group /\ m \in 1 .. m
  BY <1>1, Indexed DEF Chained
<1>7. group[g].from = text
  BY <1>1 DEF Chained
<1>8. \A i \in 2 .. m + 1 : group'[undoItems'[i]].from = group'[undoItems'[i - 1]].to
  <2>. TAKE i \in 2 .. m + 1
  <2>1. CASE i = m + 1
    <3>1. i - 1 = m /\ m \in 1 .. m /\ undoItems # <<>>
      BY <1>3, <2>1
    <3>. QED BY <1>2, <1>3, <1>4, <1>6, <1>7, <2>1, <3>1
  <2>2. CASE i # m + 1
    <3>1. i \in 2 .. m /\ i - 1 \in 1 .. m /\ i \in 1 .. m
      BY <1>3, <2>2
    <3>2. undoItems[i] \in DOMAIN group /\ undoItems[i - 1] \in DOMAIN group
      BY <3>1 DEF TypeOK
    <3>3. group[undoItems[i]].from = group[undoItems[i - 1]].to
      BY <3>1 DEF Chained
    <3>. QED BY <1>3, <1>4, <3>1, <3>2, <3>3
  <2>. QED BY <2>1, <2>2
<1>9. group'[Last(undoItems')].to = text'
  BY <1>1, <1>2, <1>3, <1>4
<1>10. redoItems' # <<>> => group'[Last(redoItems')].from = text'
  <2>. SUFFICES ASSUME redoItems' # <<>> PROVE group'[Last(redoItems')].from = text'
    OBVIOUS
  <2>1. n - 1 \in 1 .. n - 1 /\ n \in 2 .. n /\ n - 1 \in 1 .. n
    BY <1>2
  <2>2. Last(redoItems') = redoItems[n - 1] /\ redoItems[n - 1] \in DOMAIN group
    BY <1>2, <2>1 DEF Last, TypeOK
  <2>3. group[redoItems[n]].to = group[redoItems[n - 1]].from
    BY <2>1 DEF Chained
  <2>. QED BY <1>1, <1>2, <1>4, <2>2, <2>3
<1>. QED BY <1>1, <1>2, <1>3, <1>5, <1>8, <1>9, <1>10 DEF Chained

\* A group that holds nothing has not left the text it started at.
Untouched == current # None /\ group[current].types = {} => group[current].from = text

LEMMA NextUntouched ==
    ASSUME TypeOK, GroupsOwned, Untouched, [Next]_vars
    PROVE  Untouched'
<1>. SUFFICES ASSUME current' # None PROVE group'[current'].types = {} => group'[current'].from = text'
  BY DEF Untouched
<1>1. CASE EditStart
  BY <1>1 DEF EditStart
<1>2. CASE EditEnd
  BY <1>2 DEF EditEnd
<1>3. ASSUME NEW type \in Types, AddUndoItem(type) PROVE group'[current'].types # {}
  <2>1. /\ current # None /\ current' = current
        /\ group' = [Without(In(redoItems)) EXCEPT ![current] = Grown(type)]
    BY <1>3 DEF AddUndoItem, Change
  <2>2. group[current] \in GroupStates
    BY <2>1, LastFacts, TextFacts
  <2>3. type \in Grown(type).types
    BY <2>2 DEF Grown, GroupStates
  <2>4. current \in DOMAIN group \ In(redoItems)
    BY <2>1, LastFacts DEF GroupsOwned
  <2>5. group'[current] = Grown(type)
    BY <2>1, <2>4, WithoutFacts DEF TypeOK
  <2>. QED BY <2>1, <2>3, <2>5
<1>4. CASE UndoSafePoint \/ \E merge \in BOOLEAN : SetUndoMergeAllEdits(merge)
  BY <1>4, SafeFacts, LastFacts DEF UndoSafePoint, SetUndoMergeAllEdits, Untouched
<1>5. CASE Undo \/ Redo \/ Save \/ Reload
  BY <1>5 DEF Undo, Redo, Save, Reload
<1>6. CASE UNCHANGED vars
  BY <1>6 DEF vars, Untouched
<1>. QED BY <1>1, <1>2, <1>3, <1>4, <1>5, <1>6 DEF Next

LEMMA NextChained ==
    ASSUME TypeOK, GroupsOwned, Chained, Untouched, [Next]_vars
    PROVE  Chained'
<1>1. CASE EditStart
  BY <1>1, EditStartChained
<1>2. CASE EditEnd
  BY <1>2, EditEndChained DEF EditEnd, Untouched
<1>3. CASE UndoSafePoint
  BY <1>3, SafeChained, LastFacts DEF UndoSafePoint
<1>4. ASSUME NEW type \in Types, AddUndoItem(type) PROVE Chained'
  BY <1>4, AddChained
<1>5. ASSUME NEW merge \in BOOLEAN, SetUndoMergeAllEdits(merge) PROVE Chained'
  BY <1>5, SafeChained, LastFacts DEF SetUndoMergeAllEdits
<1>6. CASE Undo
  BY <1>6, UndoChained
<1>7. CASE Redo
  BY <1>7, RedoChained
<1>8. CASE Save
  BY <1>8, SafeChained, LastFacts DEF Save
<1>9. CASE Reload
  BY <1>9 DEF Reload, Chained
<1>10. CASE UNCHANGED vars
  BY <1>10 DEF vars, saved, Chained
<1>. QED BY <1>1, <1>2, <1>3, <1>4, <1>5, <1>6, <1>7, <1>8, <1>9, <1>10 DEF Next

\* Undo and redo apply each group to the text it was made for.
THEOREM HistoryChained == Spec => []Chained
<1>1. Init => Chained /\ Untouched
  BY DEF Init, Chained, Untouched
<1>2. TypeOK /\ GroupsOwned /\ Chained /\ Untouched /\ [Next]_vars => Chained' /\ Untouched'
  BY NextChained, NextUntouched
<1>. QED BY <1>1, <1>2, Typed, PTL DEF Spec

------------------------------------------------------------------------------
(* The modified flag is exact when the address of a group known at save time *)
(* is not used again.                                                        *)

\* The text that the history is at: an edit counts when it ends.
Now == IF current # None THEN group[current].from ELSE text
Listed == In(undoItems) \cup In(redoItems)
Editing == current # None /\ group[current].types # {}

\* Texts are made in order, so they grow along the history.
Ordered ==
    /\ text <= texts /\ disk <= texts
    /\ \A g \in DOMAIN group : group[g].to <= texts
    /\ \A g \in Listed : group[g].from < group[g].to
    /\ \A i, j \in 1 .. Len(undoItems) : i < j => group[undoItems[i]].to <= group[undoItems[j]].from
    /\ \A i, j \in 1 .. Len(redoItems) : i < j => group[redoItems[j]].to <= group[redoItems[i]].from
    /\ \A g \in In(undoItems) : group[g].to <= Now
    /\ \A g \in In(redoItems) : Now <= group[g].from
    /\ current # None => Now <= text
    /\ Editing => Now < text /\ disk < text /\ redoItems = <<>>

\* Both ends of the history.
Base == IF undoItems # <<>> THEN group[undoItems[1]].from ELSE Now
First == IF undoItems # <<>> THEN undoItems[1] ELSE Last(redoItems)
Final == IF redoItems # <<>> THEN redoItems[1] ELSE Last(undoItems)

\* What is known of the groups that were last when the document was saved, by
\* whether the lists were empty then.
U == lastUndoGroupWhenSaved
R == lastRedoGroupWhenSaved
EmptyU == docWasSavedWhenUndoWasEmpty
EmptyR == docWasSavedWhenRedoWasEmpty
Pointers ==
    /\ current # None => current \notin {U, R}
    /\ Listed = {} /\ ~Editing => U = None /\ R = None
    /\ EmptyU /\ EmptyR => U = None /\ R = None
    /\ EmptyU /\ ~EmptyR => R # None /\ (U = First /\ First # None => R = First)
    /\ ~EmptyU => U # None
    /\ ~EmptyU /\ ~EmptyR => R \notin {U, None} /\ (U = Final => Editing)
    /\ ~EmptyU /\ EmptyR /\ {U, R} \subseteq Listed => group[R].to <= disk

\* Where on the history the saved text is.
SavedPlace ==
    /\ EmptyU => Base = disk
    /\ ~EmptyU => /\ Base # disk
                  /\ \A g \in Listed : group[g].to = disk <=> g = U
                  /\ U \in Listed => group[U].safe

Flag == ~Editing => (modified <=> text # disk)

Inv == TypeOK /\ GroupsOwned /\ Chained /\ Untouched

------------------------------------------------------------------------------
(* Texts grow along the history                                             *)

LEMMA Numbers ==
    ASSUME TypeOK
    PROVE  /\ text \in Nat /\ disk \in Nat /\ texts \in Nat
           /\ \A g \in DOMAIN group : group[g].from \in Nat /\ group[g].to \in Nat
  BY TextFacts DEF TypeOK, Texts

LEMMA NowNat ==
    ASSUME TypeOK
    PROVE  Now \in Nat
  BY Numbers, LastFacts DEF Now

\* A step that leaves the texts of all groups alone, and their places.
LEMMA OrderedKept ==
    ASSUME Inv, Ordered, UNCHANGED <<undoItems, redoItems, text, texts, current>>,
           disk' = disk \/ (disk' = text /\ current = None),
           NEW g \in DOMAIN group \cup {None}, group' = Safe(g)
    PROVE  Ordered' /\ Now' = Now /\ Editing' = Editing /\ Listed' = Listed
<1>1. /\ DOMAIN group' = DOMAIN group
      /\ \A h \in DOMAIN group : /\ group'[h].from = group[h].from /\ group'[h].to = group[h].to
                                 /\ group'[h].types = group[h].types
  BY SafeFacts DEF Inv
<1>2. Now' = Now /\ Editing' = Editing /\ Listed' = Listed
  BY <1>1, LastFacts DEF Now, Editing, Listed, Inv
<1>3. Listed \subseteq DOMAIN group
  BY Indexed DEF Listed, Inv
<1>4. /\ \A i, j \in 1 .. Len(undoItems) :
           i < j => group'[undoItems[i]].to <= group'[undoItems[j]].from
      /\ \A i, j \in 1 .. Len(redoItems) :
           i < j => group'[redoItems[j]].to <= group'[redoItems[i]].from
  BY <1>1, <1>3, Indexed DEF Ordered, Inv, Listed
<1>5. /\ \A h \in DOMAIN group' : group'[h].to <= texts
      /\ \A h \in Listed' : group'[h].from < group'[h].to
      /\ \A h \in In(undoItems) : group'[h].to <= Now
      /\ \A h \in In(redoItems) : Now <= group'[h].from
  BY <1>1, <1>2, <1>3 DEF Ordered, Listed
<1>6. text <= texts /\ disk' <= texts /\ (current # None => Now <= text)
  BY DEF Ordered
<1>7. Editing => Now < text /\ disk' < text /\ redoItems = <<>>
  BY DEF Ordered, Inv, Editing
<1>. QED BY <1>2, <1>4, <1>5, <1>6, <1>7 DEF Ordered

\* A step that leaves the lists alone, and the groups in them.
LEMMA OrderedLists ==
    ASSUME Inv, Ordered, UNCHANGED <<undoItems, redoItems>>,
           \A h \in Listed : group'[h].from = group[h].from /\ group'[h].to = group[h].to
    PROVE  /\ Listed' = Listed
           /\ \A h \in Listed' : group'[h].from < group'[h].to
           /\ \A i, j \in 1 .. Len(undoItems) :
                i < j => group'[undoItems[i]].to <= group'[undoItems[j]].from
           /\ \A i, j \in 1 .. Len(redoItems) :
                i < j => group'[redoItems[j]].to <= group'[redoItems[i]].from
           /\ Now' = Now => /\ \A g \in In(undoItems) : group'[g].to <= Now'
                            /\ \A g \in In(redoItems) : Now' <= group'[g].from
<1>1. Listed' = Listed
  BY DEF Listed
<1>2. \A i \in 1 .. Len(undoItems) : undoItems[i] \in Listed
  BY Indexed DEF Listed, Inv
<1>3. \A i \in 1 .. Len(redoItems) : redoItems[i] \in Listed
  BY Indexed DEF Listed, Inv
<1>4. \A i, j \in 1 .. Len(undoItems) :
        i < j => group'[undoItems[i]].to <= group'[undoItems[j]].from
  BY <1>2 DEF Ordered
<1>5. \A i, j \in 1 .. Len(redoItems) :
        i < j => group'[redoItems[j]].to <= group'[redoItems[i]].from
  BY <1>3 DEF Ordered
<1>. QED BY <1>1, <1>4, <1>5 DEF Ordered, Listed

LEMMA StartOrdered ==
    ASSUME Inv, Ordered, EditStart
    PROVE  /\ Ordered' /\ Now' = Now /\ ~Editing /\ ~Editing' /\ Listed' = Listed
           /\ \A h \in Listed : group'[h] = group[h]
<1>1. PICK g \in Groups \ DOMAIN group :
        /\ current' = g
        /\ group' = [h \in DOMAIN group \cup {g} |->
                       IF h = g THEN [from |-> text, to |-> text, types |-> {}, safe |-> FALSE]
                       ELSE group[h]]
  BY DEF EditStart
<1>2. /\ current = None /\ g # None
      /\ UNCHANGED <<text, disk, texts, undoItems, redoItems>>
  BY UndoAssumption DEF EditStart
<1>3. Now' = Now /\ ~Editing /\ ~Editing'
  BY <1>1, <1>2 DEF Now, Editing
<1>4. Listed \subseteq DOMAIN group
  BY Indexed DEF Listed, Inv
<1>5. \A h \in Listed : group'[h] = group[h]
  BY <1>1, <1>4
<1>6. \A h \in DOMAIN group' : group'[h].to <= texts
  BY <1>1 DEF Ordered
<1>7. text \in Nat /\ Now' = text
  BY <1>2, <1>3, Numbers DEF Inv, Now
<1>8. text <= texts /\ disk <= texts
  BY DEF Ordered
<1>. QED BY <1>2, <1>3, <1>5, <1>6, <1>7, <1>8, OrderedLists DEF Ordered

LEMMA AddOrdered ==
    ASSUME Inv, Ordered, NEW type \in Types, AddUndoItem(type)
    PROVE  /\ Ordered' /\ Now' = Now /\ Editing' /\ Listed' = In(undoItems)
           /\ \A h \in In(undoItems) : group'[h] = group[h]
<1>1. /\ current # None /\ texts' = texts + 1 /\ text' = texts + 1
      /\ UNCHANGED <<disk, undoItems, current>>
      /\ group' = [Without(In(redoItems)) EXCEPT ![current] = Grown(type)]
      /\ redoItems' = <<>>
  BY DEF AddUndoItem, Change
<1>2. /\ current \in DOMAIN group \ In(redoItems) /\ current \notin In(undoItems)
      /\ In(undoItems) \subseteq DOMAIN group \ In(redoItems)
  BY <1>1, LastFacts DEF Inv, GroupsOwned
<1>3. /\ DOMAIN group' = DOMAIN group \ In(redoItems) /\ group'[current] = Grown(type)
      /\ \A h \in DOMAIN group' : h # current => group'[h] = group[h]
  BY <1>1, <1>2, WithoutFacts DEF Inv, TypeOK
<1>4. /\ Grown(type).from = group[current].from /\ Grown(type).to = texts + 1
      /\ Grown(type).types # {}
  <2>1. group[current] \in GroupStates
    BY <1>2, TextFacts DEF Inv
  <2>. QED BY <2>1 DEF Grown, GroupStates
<1>5. Now' = Now /\ Editing'
  BY <1>1, <1>3, <1>4 DEF Now, Editing
<1>6. \A h \in In(undoItems) : group'[h] = group[h]
  BY <1>2, <1>3
<1>7. In(redoItems') = {} /\ Listed' = In(undoItems)
  BY <1>1, InEmpty DEF Listed
<1>8. \A i, j \in 1 .. Len(undoItems) :
        i < j => group'[undoItems[i]].to <= group'[undoItems[j]].from
  BY <1>6, Indexed DEF Inv, Ordered
<1>9. \A i, j \in 1 .. Len(redoItems') :
        i < j => group'[redoItems'[j]].to <= group'[redoItems'[i]].from
  BY <1>1
<1>10. texts \in Nat /\ disk \in Nat /\ Now \in Nat /\ text \in Nat
  BY Numbers, NowNat DEF Inv
<1>11. \A h \in DOMAIN group' : group'[h].to <= texts'
  <2>1. \A h \in DOMAIN group : group[h].to \in Nat /\ group[h].to <= texts
    BY Numbers DEF Inv, Ordered
  <2>. QED BY <1>1, <1>3, <1>4, <1>10, <2>1
<1>12. Now <= text' /\ Now < text' /\ disk < text' /\ disk <= texts'
  <2>1. Now <= text /\ text <= texts /\ disk <= texts
    BY <1>1 DEF Ordered
  <2>. QED BY <1>1, <1>10, <2>1
<1>13. /\ \A h \in Listed' : group'[h].from < group'[h].to
       /\ \A h \in In(undoItems) : group'[h].to <= Now'
  BY <1>5, <1>6, <1>7 DEF Ordered, Listed
<1>. QED BY <1>1, <1>5, <1>6, <1>7, <1>8, <1>9, <1>10, <1>11, <1>12, <1>13 DEF Ordered

\* The three ends of an edit: nothing was changed, the last group takes the
\* change, the change is a group of its own.
EndEmpty == EditEnd /\ ~Editing
EndMerge == EditEnd /\ Editing /\ undoItems # <<>> /\ Merges(Last(undoItems), current)
EndAppend == EditEnd /\ Editing /\ ~(undoItems # <<>> /\ Merges(Last(undoItems), current))

LEMMA EndCases == EditEnd => EndEmpty \/ EndMerge \/ EndAppend
  BY DEF EndEmpty, EndMerge, EndAppend

LEMMA EndEmptyOrdered ==
    ASSUME Inv, Ordered, EndEmpty
    PROVE  /\ Ordered' /\ Now' = Now /\ ~Editing' /\ Listed' = Listed
           /\ \A h \in Listed : group'[h] = group[h]
<1>1. /\ current # None /\ current' = None
      /\ group' = Without({current})
      /\ UNCHANGED <<text, disk, texts, undoItems, redoItems>>
  BY DEF EndEmpty, EditEnd, Editing
<1>2. Now' = Now /\ Now = text /\ ~Editing'
  BY <1>1 DEF Now, Editing, Inv, Untouched, EndEmpty
<1>3. Listed \subseteq DOMAIN group \ {current}
  BY <1>1, Indexed DEF Listed, Inv, GroupsOwned
<1>4. /\ DOMAIN group' = DOMAIN group \ {current}
      /\ \A h \in DOMAIN group' : group'[h] = group[h]
  BY <1>1, WithoutFacts DEF Inv, TypeOK
<1>5. \A h \in Listed : group'[h] = group[h]
  BY <1>3, <1>4
<1>6. \A h \in DOMAIN group' : group'[h].to <= texts
  BY <1>4 DEF Ordered
<1>7. text <= texts /\ disk <= texts
  BY DEF Ordered
<1>. QED BY <1>1, <1>2, <1>5, <1>6, <1>7, OrderedLists DEF Ordered

LEMMA EndMergeOrdered ==
    ASSUME Inv, Ordered, EndMerge
    PROVE  /\ Ordered' /\ Now' = text /\ ~Editing' /\ Listed' = Listed
           /\ redoItems = <<>> /\ ~group[Last(undoItems)].safe
           /\ group'[Last(undoItems)].from = group[Last(undoItems)].from
           /\ group'[Last(undoItems)].to = text
           /\ \A h \in Listed : h # Last(undoItems) => group'[h] = group[h]
<1>1. /\ current # None /\ current' = None /\ undoItems # <<>>
      /\ group' = [Without({current}) EXCEPT ![Last(undoItems)] = Merged(Last(undoItems), current)]
      /\ UNCHANGED <<text, disk, texts, undoItems, redoItems>>
      /\ ~group[Last(undoItems)].safe
  BY DEF EndMerge, EditEnd, Editing, Merges
<1>2. /\ redoItems = <<>> /\ Now < text /\ disk < text /\ group[current].to = text
      /\ text <= texts /\ disk <= texts
  BY <1>1 DEF EndMerge, Ordered, Inv, Chained
<1>3. /\ Len(undoItems) \in Nat \ {0} /\ Last(undoItems) = undoItems[Len(undoItems)]
      /\ Last(undoItems) \in In(undoItems)
      /\ \A i \in 1 .. Len(undoItems) : undoItems[i] \in In(undoItems)
      /\ Listed = In(undoItems) /\ In(undoItems) \subseteq DOMAIN group \ {current}
  BY <1>1, <1>2, Indexed, InEmpty DEF Listed, Inv, GroupsOwned
<1>4. /\ group[Last(undoItems)] \in GroupStates
      /\ Merged(Last(undoItems), current).from = group[Last(undoItems)].from
      /\ Merged(Last(undoItems), current).to = text
  <2>1. group[Last(undoItems)] \in GroupStates
    BY <1>3, TextFacts DEF Inv
  <2>. QED BY <1>2, <2>1 DEF Merged, GroupStates
<1>5. /\ DOMAIN group' = DOMAIN group \ {current}
      /\ group'[Last(undoItems)] = Merged(Last(undoItems), current)
      /\ \A h \in DOMAIN group' : h # Last(undoItems) => group'[h] = group[h]
  <2>1. /\ DOMAIN Without({current}) = DOMAIN group \ {current}
        /\ \A h \in DOMAIN group \ {current} : Without({current})[h] = group[h]
    BY WithoutFacts DEF Inv, TypeOK
  <2>. QED BY <1>1, <1>3, <2>1
<1>6. Now' = text /\ ~Editing' /\ Listed' = Listed
  BY <1>1 DEF Now, Editing, Listed
<1>7. \A i \in 1 .. Len(undoItems) - 1 : undoItems[i] # Last(undoItems)
  BY <1>3 DEF Inv, GroupsOwned, Injective
<1>8. \A i, j \in 1 .. Len(undoItems) :
        i < j => group'[undoItems[i]].to <= group'[undoItems[j]].from
  <2>. SUFFICES ASSUME NEW i \in 1 .. Len(undoItems), NEW j \in 1 .. Len(undoItems), i < j
                PROVE  group'[undoItems[i]].to <= group'[undoItems[j]].from
    OBVIOUS
  <2>1. undoItems[i] # Last(undoItems) /\ undoItems[i] \in In(undoItems)
        /\ undoItems[j] \in In(undoItems)
    BY <1>3, <1>7
  <2>2. group'[undoItems[i]] = group[undoItems[i]] /\ group'[undoItems[j]].from = group[undoItems[j]].from
    BY <1>3, <1>4, <1>5, <2>1
  <2>. QED BY <2>2 DEF Ordered
<1>9. \A i, j \in 1 .. Len(redoItems) :
        i < j => group'[redoItems[j]].to <= group'[redoItems[i]].from
  BY <1>2
<1>10. /\ text \in Nat /\ Now \in Nat /\ texts \in Nat
       /\ \A h \in DOMAIN group : group[h].from \in Nat /\ group[h].to \in Nat
  BY Numbers, NowNat DEF Inv
<1>11. \A h \in In(undoItems) : group'[h].from < group'[h].to /\ group'[h].to <= text
  <2>. TAKE h \in In(undoItems)
  <2>1. group[h].from < group[h].to /\ group[h].to <= Now /\ h \in DOMAIN group
    BY <1>3 DEF Ordered, Listed
  <2>. QED BY <1>2, <1>3, <1>4, <1>5, <1>10, <2>1
<1>12. \A h \in DOMAIN group' : group'[h].to <= texts
  BY <1>2, <1>3, <1>4, <1>5, <1>10 DEF Ordered
<1>. QED BY <1>1, <1>2, <1>3, <1>4, <1>5, <1>6, <1>8, <1>9, <1>11, <1>12, InEmpty DEF Ordered

LEMMA EndAppendOrdered ==
    ASSUME Inv, Ordered, EndAppend
    PROVE  /\ Ordered' /\ Now' = text /\ ~Editing' /\ Listed' = Listed \cup {current}
           /\ redoItems = <<>> /\ group' = group
           /\ undoItems' = Append(undoItems, current) /\ Last(undoItems') = current
           /\ Len(undoItems) \in Nat /\ Len(undoItems') = Len(undoItems) + 1
           /\ \A i \in 1 .. Len(undoItems) : undoItems'[i] = undoItems[i]
           /\ group[current].to = text /\ current \in DOMAIN group \ Listed
<1>1. /\ current # None /\ current' = None /\ group' = group
      /\ undoItems' = Append(undoItems, current)
      /\ UNCHANGED <<text, disk, texts, redoItems>>
  BY DEF EndAppend, EditEnd, Editing
<1>2. /\ redoItems = <<>> /\ Now < text /\ disk < text /\ group[current].to = text
      /\ group[current].from = Now /\ text <= texts /\ disk <= texts
  BY <1>1 DEF EndAppend, Ordered, Inv, Chained, Now
<1>3. current \in DOMAIN group \ Listed
  BY <1>1, LastFacts DEF Listed, Inv, GroupsOwned
<1>4. /\ Len(undoItems) \in Nat /\ Len(undoItems') = Len(undoItems) + 1
      /\ \A i \in 1 .. Len(undoItems) : undoItems'[i] = undoItems[i] /\ undoItems[i] \in In(undoItems)
      /\ undoItems'[Len(undoItems) + 1] = current
      /\ Last(undoItems') = current /\ In(undoItems') = In(undoItems) \cup {current}
  BY <1>1, <1>3, AppendFacts, Indexed DEF Inv, TypeOK
<1>5. Now' = text /\ ~Editing' /\ Listed' = Listed \cup {current}
  BY <1>1, <1>4 DEF Now, Editing, Listed
<1>6. /\ text \in Nat /\ Now \in Nat /\ texts \in Nat
      /\ \A h \in DOMAIN group : group[h].from \in Nat /\ group[h].to \in Nat
  BY Numbers, NowNat DEF Inv
<1>7. \A i, j \in 1 .. Len(undoItems') :
        i < j => group'[undoItems'[i]].to <= group'[undoItems'[j]].from
  <2>. SUFFICES ASSUME NEW i \in 1 .. Len(undoItems'), NEW j \in 1 .. Len(undoItems'), i < j
                PROVE  group[undoItems'[i]].to <= group[undoItems'[j]].from
    BY <1>1
  <2>1. i \in 1 .. Len(undoItems) /\ undoItems'[i] = undoItems[i] /\ undoItems[i] \in In(undoItems)
    BY <1>4
  <2>2. CASE j = Len(undoItems) + 1
    BY <1>2, <1>4, <2>1, <2>2 DEF Ordered
  <2>3. CASE j # Len(undoItems) + 1
    <3>1. j \in 1 .. Len(undoItems)
      BY <1>4, <2>3
    <3>. QED BY <1>4, <2>1, <3>1 DEF Ordered
  <2>. QED BY <2>2, <2>3
<1>8. \A h \in In(undoItems') : group[h].from < group[h].to /\ group[h].to <= text
  <2>1. \A h \in In(undoItems) : group[h].from < group[h].to /\ group[h].to <= Now /\ h \in DOMAIN group
    BY Indexed DEF Ordered, Listed, Inv
  <2>. QED BY <1>2, <1>3, <1>4, <1>6, <2>1
<1>9. In(redoItems') = {} /\ \A i, j \in 1 .. Len(redoItems') :
        i < j => group'[redoItems'[j]].to <= group'[redoItems'[i]].from
  BY <1>1, <1>2, InEmpty
<1>10. \A h \in DOMAIN group : group[h].to <= texts
  BY DEF Ordered
<1>. QED BY <1>1, <1>2, <1>3, <1>4, <1>5, <1>7, <1>8, <1>9, <1>10 DEF Ordered, Listed

\* Undo and redo move a group from one list to the other; the history, its ends
\* and the texts stay.
Moved ==
    /\ Ordered' /\ ~Editing /\ ~Editing' /\ Now' = text' /\ Listed' = Listed
    /\ First' = First /\ Final' = Final /\ Base' = Base
    /\ First # None /\ Final # None
    /\ undoItems' \in Seq(DOMAIN group) /\ redoItems' \in Seq(DOMAIN group)
    /\ UpdateModified(undoItems', redoItems')
    /\ DOMAIN group' = DOMAIN group
    /\ \A h \in DOMAIN group : group'[h].from = group[h].from /\ group'[h].to = group[h].to

LEMMA UndoMoved ==
    ASSUME Inv, Ordered, Undo
    PROVE  Moved
<1>. DEFINE g == Last(undoItems)
            n == Len(undoItems)
            m == Len(redoItems)
<1>1. /\ current = None /\ current' = None /\ undoItems # <<>>
      /\ text' = group[g].from /\ UNCHANGED <<disk, texts>>
      /\ undoItems' = Front(undoItems) /\ redoItems' = Append(redoItems, g)
      /\ UpdateModified(undoItems', redoItems')
  BY DEF Undo
<1>2. /\ n \in Nat \ {0} /\ Len(undoItems') = n - 1 /\ g = undoItems[n] /\ g \in DOMAIN group
      /\ \A i \in 1 .. n - 1 : undoItems'[i] = undoItems[i]
      /\ undoItems' \in Seq(DOMAIN group) /\ In(undoItems) = In(undoItems') \cup {g}
  BY <1>1, FrontFacts DEF Inv, TypeOK
<1>3. /\ m \in Nat /\ Len(redoItems') = m + 1 /\ redoItems'[m + 1] = g /\ Last(redoItems') = g
      /\ \A i \in 1 .. m : redoItems'[i] = redoItems[i]
      /\ redoItems' \in Seq(DOMAIN group) /\ redoItems' # <<>>
      /\ In(redoItems') = In(redoItems) \cup {g}
  BY <1>1, <1>2, AppendFacts, Indexed DEF Inv, TypeOK
<1>4. /\ DOMAIN group' = DOMAIN group
      /\ \A h \in DOMAIN group : group'[h].from = group[h].from /\ group'[h].to = group[h].to
  BY <1>1, <1>2, <1>3, UpdateModifiedType DEF Inv
<1>5. /\ \A i \in 1 .. n : undoItems[i] \in In(undoItems) /\ undoItems[i] \in DOMAIN group
      /\ \A i \in 1 .. m : redoItems[i] \in In(redoItems) /\ redoItems[i] \in DOMAIN group
      /\ In(undoItems) \subseteq DOMAIN group /\ In(redoItems) \subseteq DOMAIN group
      /\ g \in In(undoItems)
  BY <1>1, Indexed DEF Inv
<1>6. ~Editing /\ ~Editing' /\ Now = text /\ Now' = text' /\ Listed' = Listed
  BY <1>1, <1>2, <1>3 DEF Editing, Now, Listed
<1>7. /\ text \in Nat /\ \A h \in DOMAIN group : group[h].from \in Nat /\ group[h].to \in Nat
      /\ texts \in Nat /\ group[g].from < group[g].to /\ group[g].to <= text /\ text <= texts
  BY <1>1, <1>5, <1>6, Numbers DEF Ordered, Listed, Inv
<1>8. \A i, j \in 1 .. n - 1 : i < j => group'[undoItems'[i]].to <= group'[undoItems'[j]].from
  <2>. SUFFICES ASSUME NEW i \in 1 .. n - 1, NEW j \in 1 .. n - 1, i < j
                PROVE  group'[undoItems'[i]].to <= group'[undoItems'[j]].from
    OBVIOUS
  <2>1. i \in 1 .. n /\ j \in 1 .. n
    BY <1>2
  <2>. QED BY <1>2, <1>4, <1>5, <2>1 DEF Ordered
<1>9. \A i, j \in 1 .. m + 1 : i < j => group'[redoItems'[j]].to <= group'[redoItems'[i]].from
  <2>. SUFFICES ASSUME NEW i \in 1 .. m + 1, NEW j \in 1 .. m + 1, i < j
                PROVE  group'[redoItems'[j]].to <= group'[redoItems'[i]].from
    OBVIOUS
  <2>1. i \in 1 .. m /\ redoItems[i] \in In(redoItems) /\ redoItems'[i] = redoItems[i]
    BY <1>3, <1>5
  <2>2. text <= group[redoItems[i]].from
    BY <1>6, <2>1 DEF Ordered
  <2>3. CASE j = m + 1
    BY <1>2, <1>3, <1>4, <1>5, <1>7, <2>1, <2>2, <2>3
  <2>4. CASE j # m + 1
    <3>1. j \in 1 .. m
      BY <1>3, <2>4
    <3>. QED BY <1>3, <1>4, <1>5, <2>1, <3>1 DEF Ordered
  <2>. QED BY <2>3, <2>4
<1>10. \A h \in In(undoItems') : group'[h].to <= text'
  <2>. TAKE h \in In(undoItems')
  <2>1. PICK i \in 1 .. n - 1 : h = undoItems[i]
    BY <1>2 DEF In
  <2>2. i \in 1 .. n /\ i < n /\ n \in 1 .. n
    BY <1>2
  <2>3. group[undoItems[i]].to <= group[undoItems[n]].from
    BY <2>2 DEF Ordered
  <2>. QED BY <1>1, <1>2, <1>4, <1>5, <2>1, <2>2, <2>3
<1>11. \A h \in In(redoItems') : text' <= group'[h].from
  BY <1>1, <1>3, <1>4, <1>5, <1>6, <1>7 DEF Ordered
<1>12. Ordered'
  <2>1. \A h \in DOMAIN group' : group'[h].to <= texts
    BY <1>4 DEF Ordered
  <2>2. \A h \in Listed' : group'[h].from < group'[h].to
    BY <1>4, <1>5, <1>6 DEF Ordered, Listed
  <2>3. text' <= texts /\ disk <= texts
    BY <1>1, <1>2, <1>7 DEF Ordered
  <2>. QED BY <1>1, <1>2, <1>3, <1>6, <1>8, <1>9, <1>10, <1>11, <2>1, <2>2, <2>3 DEF Ordered
<1>13. First' = First /\ First # None
  <2>1. First = undoItems[1] /\ undoItems[1] \in DOMAIN group
    BY <1>1, <1>2, <1>5 DEF First
  <2>2. CASE n = 1
    BY <1>2, <1>3, <2>1, <2>2, LastFacts DEF First, Inv
  <2>3. CASE n # 1
    BY <1>2, <2>1, <2>3, LastFacts DEF First, Inv
  <2>. QED BY <2>2, <2>3
<1>14. Final' = Final /\ Final # None
  <2>1. Final \in DOMAIN group
    BY <1>2, <1>3, <1>5 DEF Final
  <2>2. Final' = redoItems'[1]
    BY <1>3 DEF Final
  <2>3. CASE m = 0
    BY <1>3, <2>1, <2>2, <2>3, LastFacts DEF Final, Inv
  <2>4. CASE m # 0
    BY <1>3, <2>1, <2>2, <2>4, LastFacts DEF Final, Inv
  <2>. QED BY <2>3, <2>4
<1>15. Base' = Base
  <2>1. Base = group[undoItems[1]].from /\ undoItems[1] \in DOMAIN group
    BY <1>1, <1>2, <1>5 DEF Base
  <2>2. CASE n = 1
    BY <1>1, <1>2, <1>6, <2>1, <2>2 DEF Base
  <2>3. CASE n # 1
    BY <1>2, <1>4, <2>1, <2>3 DEF Base
  <2>. QED BY <2>2, <2>3
<1>. QED BY <1>1, <1>2, <1>3, <1>4, <1>6, <1>12, <1>13, <1>14, <1>15 DEF Moved

LEMMA RedoMoved ==
    ASSUME Inv, Ordered, Redo
    PROVE  Moved
<1>. DEFINE g == Last(redoItems)
            n == Len(undoItems)
            m == Len(redoItems)
<1>1. /\ current = None /\ current' = None /\ redoItems # <<>>
      /\ text' = group[g].to /\ UNCHANGED <<disk, texts>>
      /\ redoItems' = Front(redoItems) /\ undoItems' = Append(undoItems, g)
      /\ UpdateModified(undoItems', redoItems')
  BY DEF Redo
<1>2. /\ m \in Nat \ {0} /\ Len(redoItems') = m - 1 /\ g = redoItems[m] /\ g \in DOMAIN group
      /\ \A i \in 1 .. m - 1 : redoItems'[i] = redoItems[i]
      /\ redoItems' \in Seq(DOMAIN group) /\ In(redoItems) = In(redoItems') \cup {g}
  BY <1>1, FrontFacts DEF Inv, TypeOK
<1>3. /\ n \in Nat /\ Len(undoItems') = n + 1 /\ undoItems'[n + 1] = g /\ Last(undoItems') = g
      /\ \A i \in 1 .. n : undoItems'[i] = undoItems[i]
      /\ undoItems' \in Seq(DOMAIN group) /\ undoItems' # <<>>
      /\ In(undoItems') = In(undoItems) \cup {g}
  BY <1>1, <1>2, AppendFacts, Indexed DEF Inv, TypeOK
<1>4. /\ DOMAIN group' = DOMAIN group
      /\ \A h \in DOMAIN group : group'[h].from = group[h].from /\ group'[h].to = group[h].to
  BY <1>1, <1>2, <1>3, UpdateModifiedType DEF Inv
<1>5. /\ \A i \in 1 .. n : undoItems[i] \in In(undoItems) /\ undoItems[i] \in DOMAIN group
      /\ \A i \in 1 .. m : redoItems[i] \in In(redoItems) /\ redoItems[i] \in DOMAIN group
      /\ In(undoItems) \subseteq DOMAIN group /\ In(redoItems) \subseteq DOMAIN group
      /\ g \in In(redoItems)
  BY <1>1, Indexed DEF Inv
<1>6. ~Editing /\ ~Editing' /\ Now = text /\ Now' = text' /\ Listed' = Listed
  BY <1>1, <1>2, <1>3 DEF Editing, Now, Listed
<1>7. /\ text \in Nat /\ \A h \in DOMAIN group : group[h].from \in Nat /\ group[h].to \in Nat
      /\ texts \in Nat /\ group[g].from < group[g].to /\ text = group[g].from
      /\ group[g].to <= texts
  BY <1>1, <1>5, <1>6, Numbers DEF Ordered, Listed, Inv, Chained
<1>8. \A i, j \in 1 .. m - 1 : i < j => group'[redoItems'[j]].to <= group'[redoItems'[i]].from
  <2>. SUFFICES ASSUME NEW i \in 1 .. m - 1, NEW j \in 1 .. m - 1, i < j
                PROVE  group'[redoItems'[j]].to <= group'[redoItems'[i]].from
    OBVIOUS
  <2>1. i \in 1 .. m /\ j \in 1 .. m
    BY <1>2
  <2>. QED BY <1>2, <1>4, <1>5, <2>1 DEF Ordered
<1>9. \A i, j \in 1 .. n + 1 : i < j => group'[undoItems'[i]].to <= group'[undoItems'[j]].from
  <2>. SUFFICES ASSUME NEW i \in 1 .. n + 1, NEW j \in 1 .. n + 1, i < j
                PROVE  group'[undoItems'[i]].to <= group'[undoItems'[j]].from
    OBVIOUS
  <2>1. i \in 1 .. n /\ undoItems[i] \in In(undoItems) /\ undoItems'[i] = undoItems[i]
    BY <1>3, <1>5
  <2>2. group[undoItems[i]].to <= text
    BY <1>6, <2>1 DEF Ordered
  <2>3. CASE j = n + 1
    BY <1>2, <1>3, <1>4, <1>5, <1>7, <2>1, <2>2, <2>3
  <2>4. CASE j # n + 1
    <3>1. j \in 1 .. n
      BY <1>3, <2>4
    <3>. QED BY <1>3, <1>4, <1>5, <2>1, <3>1 DEF Ordered
  <2>. QED BY <2>3, <2>4
<1>10. \A h \in In(redoItems') : text' <= group'[h].from
  <2>1. \A i \in 1 .. m - 1 : group[redoItems[m]].to <= group[redoItems[i]].from
    BY <1>2 DEF Ordered
  <2>. QED BY <1>1, <1>2, <1>4, <1>5, <2>1 DEF In
<1>11. \A h \in In(undoItems') : group'[h].to <= text'
  <2>. TAKE h \in In(undoItems')
  <2>1. CASE h = g
    BY <1>1, <1>2, <1>4, <1>7, <2>1
  <2>2. CASE h # g
    <3>1. h \in In(undoItems) /\ h \in DOMAIN group /\ group[h].to <= text
      BY <1>3, <1>5, <1>6, <2>2 DEF Ordered
    <3>. QED BY <1>1, <1>2, <1>4, <1>7, <3>1
  <2>. QED BY <2>1, <2>2
<1>12. Ordered'
  <2>1. \A h \in DOMAIN group' : group'[h].to <= texts
    BY <1>4 DEF Ordered
  <2>2. \A h \in Listed' : group'[h].from < group'[h].to
    BY <1>4, <1>5, <1>6 DEF Ordered, Listed
  <2>3. text' <= texts /\ disk <= texts
    BY <1>1, <1>2, <1>7 DEF Ordered
  <2>. QED BY <1>1, <1>2, <1>3, <1>6, <1>8, <1>9, <1>10, <1>11, <2>1, <2>2, <2>3 DEF Ordered
<1>13. First' = First /\ First # None
  <2>1. First \in DOMAIN group
    BY <1>2, <1>3, <1>5 DEF First
  <2>2. First' = undoItems'[1]
    BY <1>3 DEF First
  <2>3. CASE n = 0
    BY <1>3, <2>1, <2>2, <2>3, LastFacts DEF First, Inv
  <2>4. CASE n # 0
    BY <1>3, <2>1, <2>2, <2>4, LastFacts DEF First, Inv
  <2>. QED BY <2>3, <2>4
<1>14. Final' = Final /\ Final # None
  <2>1. Final = redoItems[1] /\ redoItems[1] \in DOMAIN group
    BY <1>1, <1>2, <1>5 DEF Final
  <2>2. CASE m = 1
    BY <1>2, <1>3, <2>1, <2>2, LastFacts DEF Final, Inv
  <2>3. CASE m # 1
    BY <1>2, <2>1, <2>3, LastFacts DEF Final, Inv
  <2>. QED BY <2>2, <2>3
<1>15. Base' = Base
  <2>1. Base' = group'[undoItems'[1]].from
    BY <1>3 DEF Base
  <2>2. CASE n = 0
    BY <1>2, <1>3, <1>4, <1>6, <1>7, <2>1, <2>2 DEF Base
  <2>3. CASE n # 0
    BY <1>3, <1>4, <1>5, <2>1, <2>3 DEF Base
  <2>. QED BY <2>2, <2>3
<1>. QED BY <1>1, <1>2, <1>3, <1>4, <1>6, <1>12, <1>13, <1>14, <1>15 DEF Moved

LEMMA ReloadOrdered ==
    ASSUME Inv, Ordered, Reload
    PROVE  Ordered' /\ Listed' = {} /\ ~Editing'
<1>1. /\ current' = None /\ undoItems' = <<>> /\ redoItems' = <<>> /\ text' = disk
      /\ UNCHANGED <<disk, texts>>
      /\ group' = Without(In(undoItems) \cup In(redoItems))
  BY DEF Reload
<1>2. In(undoItems') = {} /\ In(redoItems') = {} /\ Listed' = {} /\ ~Editing'
  BY <1>1, InEmpty DEF Listed, Editing
<1>3. \A h \in DOMAIN group' : group'[h].to <= texts'
  <2>1. \A h \in DOMAIN group' : h \in DOMAIN group /\ group'[h] = group[h]
    BY <1>1, WithoutFacts DEF Inv, TypeOK
  <2>. QED BY <1>1, <2>1 DEF Ordered
<1>4. text' <= texts' /\ disk' <= texts'
  BY <1>1 DEF Ordered
<1>5. Len(undoItems') = 0 /\ Len(redoItems') = 0
  BY <1>1
<1>6. /\ \A i, j \in 1 .. Len(undoItems') :
           i < j => group'[undoItems'[i]].to <= group'[undoItems'[j]].from
      /\ \A i, j \in 1 .. Len(redoItems') :
           i < j => group'[redoItems'[j]].to <= group'[redoItems'[i]].from
  BY <1>5
<1>. QED BY <1>1, <1>2, <1>3, <1>4, <1>6 DEF Ordered

------------------------------------------------------------------------------
(* The saved place on the history                                           *)

\* Where the text is between the two lists.
LEMMA Position ==
    Inv /\ Ordered /\ current = None =>
      /\ undoItems = <<>> => Base = text
      /\ undoItems # <<>> => /\ Last(undoItems) \in In(undoItems)
                             /\ Last(undoItems) # Last(redoItems)
                             /\ group[Last(undoItems)].to = text /\ Base < text
      /\ \A g \in In(undoItems) : group[g].to = text <=> g = Last(undoItems)
      /\ \A g \in In(undoItems) : group[g].to <= text
      /\ \A g \in In(redoItems) : text < group[g].to
<1>. SUFFICES ASSUME Inv, Ordered, current = None
              PROVE  /\ undoItems = <<>> => Base = text
                     /\ undoItems # <<>> => /\ Last(undoItems) \in In(undoItems)
                                            /\ Last(undoItems) # Last(redoItems)
                                            /\ group[Last(undoItems)].to = text /\ Base < text
                     /\ \A g \in In(undoItems) : group[g].to = text <=> g = Last(undoItems)
                     /\ \A g \in In(undoItems) : group[g].to <= text
                     /\ \A g \in In(redoItems) : text < group[g].to
  OBVIOUS
<1>1. Now = text
  BY DEF Now
<1>2. \A g \in Listed : group[g].from \in Nat /\ group[g].to \in Nat /\ group[g].from < group[g].to
  BY Numbers, Indexed DEF Inv, Listed, Ordered
<1>3. text \in Nat
  BY Numbers DEF Inv
<1>4. /\ \A g \in In(undoItems) : group[g].to <= text
      /\ \A g \in In(redoItems) : text < group[g].to
  BY <1>1, <1>2, <1>3 DEF Ordered, Listed
<1>5. CASE undoItems = <<>>
  BY <1>1, <1>4, <1>5, InEmpty DEF Base
<1>6. CASE undoItems # <<>>
  <2>1. /\ Last(undoItems) \in In(undoItems) /\ Last(undoItems) = undoItems[Len(undoItems)]
        /\ Len(undoItems) \in Nat \ {0} /\ Last(undoItems) # None
        /\ \A i \in 1 .. Len(undoItems) : undoItems[i] \in Listed
    BY <1>6, Indexed, LastFacts DEF Inv, Listed
  <2>2. Last(undoItems) # Last(redoItems)
    BY <2>1, Indexed DEF Inv, GroupsOwned, Last
  <2>3. group[Last(undoItems)].to = text
    BY <1>6 DEF Inv, Chained
  <2>4. \A i \in 1 .. Len(undoItems) - 1 :
          group[undoItems[i]].to <= group[undoItems[Len(undoItems)]].from
    BY <2>1 DEF Ordered
  <2>5. \A i \in 1 .. Len(undoItems) - 1 : group[undoItems[i]].to < text
    <3>. TAKE i \in 1 .. Len(undoItems) - 1
    <3>1. i \in 1 .. Len(undoItems) /\ Len(undoItems) \in 1 .. Len(undoItems)
      BY <2>1
    <3>. QED BY <1>2, <1>3, <2>1, <2>3, <2>4, <3>1
  <2>6. Base < text
    <3>1. Base = group[undoItems[1]].from /\ undoItems[1] \in Listed
      BY <1>6, <2>1 DEF Base
    <3>2. CASE Len(undoItems) = 1
      BY <1>2, <1>3, <2>1, <2>3, <3>1, <3>2
    <3>3. CASE Len(undoItems) # 1
      <4>1. 1 \in 1 .. Len(undoItems) - 1
        BY <2>1, <3>3
      <4>. QED BY <1>2, <1>3, <2>5, <3>1, <4>1
    <3>. QED BY <3>2, <3>3
  <2>7. \A g \in In(undoItems) : group[g].to = text <=> g = Last(undoItems)
    <3>. TAKE g \in In(undoItems)
    <3>1. PICK i \in 1 .. Len(undoItems) : g = undoItems[i]
      BY DEF In
    <3>2. CASE i = Len(undoItems)
      BY <2>1, <2>3, <3>1, <3>2
    <3>3. CASE i # Len(undoItems)
      <4>1. i \in 1 .. Len(undoItems) - 1
        BY <2>1, <3>3
      <4>2. group[g].to \in Nat /\ group[g].to < text
        BY <1>2, <2>1, <2>5, <3>1, <4>1
      <4>. QED BY <1>3, <2>3, <4>2
    <3>. QED BY <3>2, <3>3
  <2>. QED BY <1>4, <1>6, <2>1, <2>2, <2>3, <2>6, <2>7
<1>. QED BY <1>5, <1>6

\* The manager after setModified(false), when the text is the one on disk.
JustSaved ==
    /\ current = None /\ text = disk
    /\ EmptyU = (undoItems = <<>>) /\ EmptyR = (redoItems = <<>>)
    /\ undoItems # <<>> => U = Last(undoItems) /\ group[U].safe
    /\ redoItems # <<>> => R = Last(redoItems)
    /\ Listed = {} => U = None /\ R = None

LEMMA SavedHere == Inv /\ Ordered /\ JustSaved => Pointers /\ SavedPlace
<1>. SUFFICES ASSUME Inv, Ordered, JustSaved PROVE Pointers /\ SavedPlace
  OBVIOUS
<1>. USE DEF U, R, EmptyU, EmptyR
<1>1. /\ current = None /\ text = disk /\ ~Editing
      /\ EmptyU = (undoItems = <<>>) /\ EmptyR = (redoItems = <<>>)
      /\ undoItems # <<>> => U = Last(undoItems) /\ group[U].safe
      /\ redoItems # <<>> => R = Last(redoItems)
      /\ Listed = {} => U = None /\ R = None
  BY DEF JustSaved, Editing
<1>2. /\ undoItems = <<>> => In(undoItems) = {}
      /\ redoItems = <<>> => In(redoItems) = {}
  BY InEmpty
<1>3. /\ undoItems # <<>> => Last(undoItems) # None
      /\ redoItems # <<>> => Last(redoItems) # None /\ redoItems[1] \in In(redoItems)
      /\ undoItems # <<>> => Last(undoItems) \in In(undoItems)
  BY LastFacts, Indexed DEF Inv
<1>4. /\ undoItems = <<>> => Base = text
      /\ undoItems # <<>> => Last(undoItems) # Last(redoItems) /\ Base < text
      /\ \A g \in In(undoItems) : group[g].to = text <=> g = Last(undoItems)
      /\ \A g \in In(undoItems) : group[g].to <= text
      /\ \A g \in In(redoItems) : text < group[g].to
  BY <1>1, Position
<1>5. text \in Nat /\ \A g \in Listed : group[g].to \in Nat /\ g \in DOMAIN group
  BY Numbers, Indexed DEF Inv, Listed
<1>6. undoItems = <<>> /\ redoItems = <<>> => U = None /\ R = None
  BY <1>1, <1>2 DEF Listed
<1>7. undoItems = <<>> /\ redoItems # <<>> => R # None /\ (U = First /\ First # None => R = First)
  BY <1>1, <1>3 DEF First
<1>8. undoItems # <<>> /\ redoItems # <<>> => R \notin {U, None} /\ U # Final
  BY <1>1, <1>3, <1>4 DEF Final, Inv, GroupsOwned
<1>9. undoItems # <<>> /\ redoItems = <<>> /\ {U, R} \subseteq Listed => group[R].to <= disk
  BY <1>1, <1>2, <1>4 DEF Listed
<1>10. Pointers
  BY <1>1, <1>3, <1>6, <1>7, <1>8, <1>9 DEF Pointers
<1>11. undoItems # <<>> => /\ Base # disk
                           /\ \A g \in Listed : group[g].to = disk <=> g = U
  <2>. HAVE undoItems # <<>>
  <2>1. Base # disk
    <3>1. Base \in Nat
      BY Numbers, NowNat, Indexed DEF Base, Inv
    <3>. QED BY <1>1, <1>4, <1>5, <3>1
  <2>2. \A g \in In(redoItems) : group[g].to # disk /\ g # U
    BY <1>1, <1>3, <1>4, <1>5 DEF Inv, GroupsOwned, Listed
  <2>. QED BY <1>1, <1>4, <2>1, <2>2 DEF Listed
<1>12. SavedPlace
  BY <1>1, <1>4, <1>11 DEF SavedPlace
<1>. QED BY <1>10, <1>12

\* A step that leaves the history alone, as far as the saved place is concerned.
LEMMA PlaceKept ==
    ASSUME Inv, Pointers, SavedPlace, UNCHANGED <<disk, saved>>,
           current' # None => current' \notin {U, R},
           Listed' = Listed, Base' = Base, First' = First, Final' = Final, Editing' <=> Editing,
           \A h \in Listed : group'[h].to = group[h].to /\ (group[h].safe => group'[h].safe)
    PROVE  Pointers' /\ SavedPlace'
<1>1. U' = U /\ R' = R /\ EmptyU' = EmptyU /\ EmptyR' = EmptyR
  BY DEF saved, U, R, EmptyU, EmptyR
<1>2. Pointers'
  BY <1>1 DEF Pointers
<1>3. SavedPlace'
  BY <1>1 DEF SavedPlace
<1>. QED BY <1>2, <1>3

LEMMA SafePlace ==
    ASSUME Inv, Ordered, Pointers, SavedPlace, NEW g \in DOMAIN group \cup {None},
           group' = Safe(g),
           UNCHANGED <<text, disk, texts, undoItems, redoItems, current, saved>>
    PROVE  Ordered' /\ Pointers' /\ SavedPlace' /\ Editing' = Editing
<1>1. Ordered' /\ Now' = Now /\ Editing' = Editing /\ Listed' = Listed
  BY OrderedKept
<1>2. \A h \in DOMAIN group : /\ group'[h].from = group[h].from /\ group'[h].to = group[h].to
                              /\ group[h].safe => group'[h].safe
  BY SafeFacts DEF Inv
<1>3. Listed \subseteq DOMAIN group /\ (undoItems # <<>> => undoItems[1] \in DOMAIN group)
  BY Indexed DEF Inv, Listed
<1>4. Base' = Base /\ First' = First /\ Final' = Final
  BY <1>1, <1>2, <1>3 DEF Base, First, Final
<1>5. current' # None => current' \notin {U, R}
  BY DEF Pointers
<1>. QED BY <1>1, <1>2, <1>3, <1>4, <1>5, PlaceKept

LEMMA StartPlace ==
    ASSUME ~Reuse, Inv, Ordered, Pointers, SavedPlace, EditStart
    PROVE  Ordered' /\ Pointers' /\ SavedPlace' /\ ~Editing /\ ~Editing'
<1>1. /\ Ordered' /\ Now' = Now /\ ~Editing /\ ~Editing' /\ Listed' = Listed
      /\ \A h \in Listed : group'[h] = group[h]
  BY StartOrdered
<1>2. UNCHANGED <<disk, undoItems, redoItems, saved>> /\ current' \notin {U, R}
  BY DEF EditStart, U, R
<1>3. undoItems # <<>> => undoItems[1] \in Listed
  BY Indexed DEF Inv, Listed
<1>4. Base' = Base /\ First' = First /\ Final' = Final
  BY <1>1, <1>2, <1>3 DEF Base, First, Final
<1>. QED BY <1>1, <1>2, <1>4, PlaceKept

LEMMA AddPlace ==
    ASSUME Inv, Ordered, Pointers, SavedPlace, NEW type \in Types, AddUndoItem(type)
    PROVE  Ordered' /\ Pointers' /\ SavedPlace' /\ Editing'
<1>1. /\ Ordered' /\ Now' = Now /\ Editing' /\ Listed' = In(undoItems)
      /\ \A h \in In(undoItems) : group'[h] = group[h]
  BY AddOrdered
<1>2. /\ UNCHANGED <<disk, undoItems, current, saved>> /\ redoItems' = <<>>
  BY DEF AddUndoItem, Change
<1>3. U' = U /\ R' = R /\ EmptyU' = EmptyU /\ EmptyR' = EmptyR
  BY <1>2 DEF saved, U, R, EmptyU, EmptyR
<1>4. undoItems # <<>> => undoItems[1] \in In(undoItems)
  BY Indexed DEF Inv
<1>5. Base' = Base /\ (First' # None => First' = First) /\ Listed' \subseteq Listed
  BY <1>1, <1>2, <1>4 DEF Base, First, Listed, Last
<1>6. Pointers'
  BY <1>1, <1>2, <1>3, <1>5 DEF Pointers
<1>7. SavedPlace'
  BY <1>1, <1>2, <1>3, <1>5 DEF SavedPlace
<1>. QED BY <1>1, <1>6, <1>7

LEMMA EmptyPlace ==
    ASSUME Inv, Ordered, Pointers, SavedPlace, EndEmpty
    PROVE  Ordered' /\ Pointers' /\ SavedPlace' /\ ~Editing'
<1>1. /\ Ordered' /\ Now' = Now /\ ~Editing' /\ Listed' = Listed
      /\ \A h \in Listed : group'[h] = group[h]
  BY EndEmptyOrdered
<1>2. UNCHANGED <<disk, undoItems, redoItems, saved>> /\ current' = None /\ ~Editing
  BY DEF EndEmpty, EditEnd, Editing
<1>3. undoItems # <<>> => undoItems[1] \in Listed
  BY Indexed DEF Inv, Listed
<1>4. Base' = Base /\ First' = First /\ Final' = Final
  BY <1>1, <1>2, <1>3 DEF Base, First, Final
<1>. QED BY <1>1, <1>2, <1>4, PlaceKept

LEMMA MergePlace ==
    ASSUME Inv, Ordered, Pointers, SavedPlace, EndMerge
    PROVE  Ordered' /\ Pointers' /\ SavedPlace' /\ ~Editing' /\ text # disk
<1>. DEFINE g == Last(undoItems)
<1>1. /\ Ordered' /\ Now' = text /\ ~Editing' /\ Listed' = Listed
      /\ redoItems = <<>> /\ ~group[g].safe
      /\ group'[g].from = group[g].from /\ group'[g].to = text
      /\ \A h \in Listed : h # g => group'[h] = group[h]
  BY EndMergeOrdered
<1>2. /\ UNCHANGED <<disk, undoItems, redoItems, saved>> /\ current' = None
      /\ undoItems # <<>>
  BY DEF EndMerge, EditEnd, Editing
<1>3. U' = U /\ R' = R /\ EmptyU' = EmptyU /\ EmptyR' = EmptyR
  BY <1>2 DEF saved, U, R, EmptyU, EmptyR
<1>4. /\ Len(undoItems) \in Nat \ {0} /\ g = undoItems[Len(undoItems)]
      /\ g \in Listed /\ undoItems[1] \in Listed /\ Listed = In(undoItems)
  BY <1>1, <1>2, Indexed, InEmpty DEF Inv, Listed
<1>5. Base' = Base /\ First' = First /\ Final' = Final /\ Final = g
  BY <1>1, <1>2, <1>4 DEF Base, First, Final
<1>6. text \in Nat /\ disk \in Nat /\ disk < text
  BY Numbers DEF Ordered, Inv, EndMerge
<1>7. ~EmptyU => U # g
  BY <1>1, <1>4 DEF SavedPlace
<1>8. ~EmptyU /\ EmptyR /\ {U, R} \subseteq Listed => R # g
  <2>. SUFFICES ASSUME ~EmptyU, EmptyR, {U, R} \subseteq Listed, R = g PROVE FALSE
    OBVIOUS
  <2>1. group[U].to = disk /\ group[g].to <= disk
    BY DEF SavedPlace, Pointers
  <2>2. PICK i \in 1 .. Len(undoItems) : U = undoItems[i]
    BY <1>4 DEF In
  <2>3. i < Len(undoItems) /\ Len(undoItems) \in 1 .. Len(undoItems)
    BY <1>4, <1>7, <2>2
  <2>4. group[U].to <= group[g].from /\ group[g].from < group[g].to
    BY <1>4, <2>2, <2>3 DEF Ordered
  <2>5. group[g].from \in Nat /\ group[g].to \in Nat
    BY <1>4, Numbers, Indexed DEF Inv
  <2>. QED BY <1>6, <2>1, <2>4, <2>5
<1>9. Pointers'
  BY <1>1, <1>2, <1>3, <1>4, <1>5, <1>7, <1>8 DEF Pointers
<1>10. \A h \in Listed : ~EmptyU => (group'[h].to = disk <=> h = U)
  BY <1>1, <1>6, <1>7 DEF SavedPlace
<1>11. SavedPlace'
  BY <1>1, <1>2, <1>3, <1>5, <1>7, <1>10 DEF SavedPlace
<1>. QED BY <1>1, <1>6, <1>9, <1>11

LEMMA AppendPlace ==
    ASSUME Inv, Ordered, Pointers, SavedPlace, EndAppend
    PROVE  Ordered' /\ Pointers' /\ SavedPlace' /\ ~Editing' /\ text # disk
<1>1. /\ Ordered' /\ ~Editing' /\ Listed' = Listed \cup {current}
      /\ redoItems = <<>> /\ group' = group
      /\ undoItems' = Append(undoItems, current) /\ Last(undoItems') = current
      /\ Len(undoItems) \in Nat /\ Len(undoItems') = Len(undoItems) + 1
      /\ \A i \in 1 .. Len(undoItems) : undoItems'[i] = undoItems[i]
      /\ group[current].to = text /\ current \in DOMAIN group \ Listed
  BY EndAppendOrdered
<1>2. UNCHANGED <<disk, redoItems, saved>> /\ current # None /\ current' = None
  BY DEF EndAppend, EditEnd, Editing
<1>3. U' = U /\ R' = R /\ EmptyU' = EmptyU /\ EmptyR' = EmptyR
  BY <1>2 DEF saved, U, R, EmptyU, EmptyR
<1>4. text \in Nat /\ disk \in Nat /\ disk < text
  BY Numbers DEF Ordered, Inv, EndAppend
<1>5. current \notin {U, R}
  BY <1>2 DEF Pointers
<1>6. undoItems' # <<>> /\ Final' = current
  BY <1>1, <1>2 DEF Final
<1>7. /\ undoItems = <<>> => First' = current
      /\ undoItems # <<>> => First' = First
  <2>1. undoItems \in Seq(DOMAIN group)
    BY DEF Inv, TypeOK
  <2>2. undoItems = <<>> => First' = current
    BY <1>1, <1>6 DEF First
  <2>3. undoItems # <<>> => First' = First
    BY <1>1, <1>6, <2>1 DEF First
  <2>. QED BY <2>2, <2>3
<1>8. Base' = Base
  <2>1. undoItems \in Seq(DOMAIN group)
    BY DEF Inv, TypeOK
  <2>2. Base' = group[undoItems'[1]].from
    BY <1>1, <1>6 DEF Base
  <2>3. CASE undoItems = <<>>
    BY <1>1, <1>2, <2>2, <2>3 DEF Base, Now
  <2>4. CASE undoItems # <<>>
    BY <1>1, <2>1, <2>2, <2>4 DEF Base
  <2>. QED BY <2>3, <2>4
<1>9. EmptyU /\ ~EmptyR => (U = First' /\ First' # None => R = First')
  BY <1>5, <1>7 DEF Pointers
<1>10. Pointers'
  BY <1>1, <1>2, <1>3, <1>5, <1>6, <1>9 DEF Pointers
<1>11. \A h \in Listed' : ~EmptyU => (group[h].to = disk <=> h = U)
  BY <1>1, <1>4, <1>5 DEF SavedPlace
<1>12. SavedPlace'
  BY <1>1, <1>2, <1>3, <1>5, <1>8, <1>11 DEF SavedPlace
<1>. QED BY <1>1, <1>4, <1>10, <1>12

------------------------------------------------------------------------------
(* Undo and redo: the patterns                                              *)

\* The lists are where the document was saved: at the bottom, or above the group
\* that was last.
AtSaved(u, r) ==
    \/ EmptyU /\ u = <<>>
    \/ ~EmptyU /\ u # <<>> /\ U = Last(u)

LEMMA PatternFacts ==
    ASSUME NEW u, NEW r, EmptyU \in BOOLEAN, EmptyR \in BOOLEAN,
           u # <<>> \/ r # <<>>,
           u # <<>> => Last(u) # None /\ Last(u) # Last(r),
           r # <<>> => Last(r) # None,
           EmptyU /\ EmptyR => U = None /\ R = None,
           EmptyU /\ ~EmptyR => R # None /\ (u = <<>> /\ U = Last(r) => R = Last(r)),
           ~EmptyU => U # None,
           ~EmptyU /\ ~EmptyR => R \notin {U, None} /\ (u # <<>> /\ U = Last(u) => r # <<>>),
           ~EmptyU /\ EmptyR /\ u # <<>> /\ r # <<>> /\ U = Last(u) => R # Last(r)
    PROVE  Pattern(u, r) \in Patterns <=> AtSaved(u, r)
<1>. USE DEF U, R, EmptyU, EmptyR
<1>. DEFINE lu == Last(u)
            lr == Last(r)
<1>1. /\ u = <<>> => lu = None
      /\ r = <<>> => lr = None
  BY InEmpty
<1>2. Pattern(u, r) =
        Bit(u = <<>>, 1) + Bit(r = <<>>, 2) + Bit(EmptyU, 4) + Bit(EmptyR, 8)
        + Bit(U = lu, 16) + Bit(U = lr, 32) + Bit(R = lu, 64) + Bit(R = lr, 128)
  BY DEF Pattern
<1>. HIDE DEF lu, lr
<1>3. CASE u = <<>> /\ r # <<>>
  <2>1. CASE EmptyU
    BY <1>1, <1>2, <1>3, <2>1 DEF Bit, Patterns, AtSaved, lu, lr
  <2>2. CASE ~EmptyU
    BY <1>1, <1>2, <1>3, <2>2 DEF Bit, Patterns, AtSaved
  <2>. QED BY <2>1, <2>2
<1>4. CASE u # <<>> /\ r = <<>>
  <2>1. CASE EmptyU
    BY <1>1, <1>2, <1>4, <2>1 DEF Bit, Patterns, AtSaved, lu
  <2>2. CASE ~EmptyU
    BY <1>1, <1>2, <1>4, <2>2 DEF Bit, Patterns, AtSaved, lu
  <2>. QED BY <2>1, <2>2
<1>5. CASE u # <<>> /\ r # <<>>
  <2>1. CASE EmptyU
    BY <1>1, <1>2, <1>5, <2>1 DEF Bit, Patterns, AtSaved, lu, lr
  <2>2. CASE ~EmptyU
    BY <1>1, <1>2, <1>5, <2>2 DEF Bit, Patterns, AtSaved, lu, lr
  <2>. QED BY <2>1, <2>2
<1>. QED BY <1>3, <1>4, <1>5

\* updateModified() is right: after undo or redo it clears the flag when the text
\* is the one on disk, and only then.
LEMMA MoveFlag ==
    ASSUME Inv, Ordered, Pointers, SavedPlace, Inv', Undo \/ Redo
    PROVE  /\ Ordered' /\ Pointers' /\ SavedPlace' /\ ~Editing'
           /\ modified' <=> text' # disk'
<1>. USE DEF U, R, EmptyU, EmptyR
<1>1. Moved /\ current = None /\ current' = None /\ disk' = disk
  BY UndoMoved, RedoMoved DEF Undo, Redo
<1>2. /\ Ordered' /\ ~Editing /\ ~Editing' /\ Now' = text' /\ Listed' = Listed
      /\ First' = First /\ Final' = Final /\ Base' = Base
      /\ First # None /\ Final # None
      /\ undoItems' \in Seq(DOMAIN group) /\ redoItems' \in Seq(DOMAIN group)
      /\ UpdateModified(undoItems', redoItems')
      /\ DOMAIN group' = DOMAIN group
      /\ \A h \in DOMAIN group : group'[h].from = group[h].from /\ group'[h].to = group[h].to
  BY <1>1 DEF Moved
<1>3. /\ undoItems' = <<>> => Base' = text'
      /\ undoItems' # <<>> => /\ Last(undoItems') \in In(undoItems')
                              /\ Last(undoItems') # Last(redoItems')
                              /\ group'[Last(undoItems')].to = text' /\ Base' < text'
      /\ \A g \in In(redoItems') : text' < group'[g].to
  <2>1. Inv' /\ Ordered' /\ (current = None)' =>
          /\ (undoItems = <<>> => Base = text)'
          /\ (undoItems # <<>> => /\ Last(undoItems) \in In(undoItems)
                                  /\ Last(undoItems) # Last(redoItems)
                                  /\ group[Last(undoItems)].to = text /\ Base < text)'
          /\ (\A g \in In(redoItems) : text < group[g].to)'
    BY Position, PTL
  <2>. QED BY <1>1, <1>2, <2>1
<1>4. /\ In(undoItems') \subseteq Listed /\ In(redoItems') \subseteq Listed
      /\ redoItems' # <<>> => Last(redoItems') \in In(redoItems') /\ Last(redoItems') # None
      /\ undoItems' # <<>> => Last(undoItems') # None
      /\ Listed \subseteq DOMAIN group
  BY <1>2, InFacts, UndoAssumption, Indexed DEF Listed, Inv, TypeOK
<1>5. undoItems' # <<>> \/ redoItems' # <<>>
  BY <1>2, InEmpty DEF First
<1>6. /\ disk \in Nat /\ text' \in Nat /\ Base' \in Nat
      /\ \A g \in DOMAIN group : group[g].to \in Nat
  <2>1. disk \in Nat /\ \A g \in DOMAIN group : group[g].to \in Nat /\ group[g].from \in Nat
    BY Numbers DEF Inv
  <2>2. text' \in Nat
    BY DEF Inv, TypeOK, Texts
  <2>3. Base \in Nat
    BY <2>1, NowNat, Indexed DEF Base, Inv
  <2>. QED BY <1>2, <2>1, <2>2, <2>3
<1>7. text' = disk <=> AtSaved(undoItems', redoItems')
  <2>1. CASE undoItems' = <<>>
    BY <1>2, <1>3, <2>1 DEF AtSaved, SavedPlace, Inv, TypeOK
  <2>2. CASE undoItems' # <<>>
    BY <1>2, <1>3, <1>4, <1>6, <2>2 DEF AtSaved, SavedPlace, Inv, TypeOK
  <2>. QED BY <2>1, <2>2
<1>8. Pattern(undoItems', redoItems') \in Patterns <=> AtSaved(undoItems', redoItems')
  <2>1. EmptyU \in BOOLEAN /\ EmptyR \in BOOLEAN
    BY DEF Inv, TypeOK
  <2>2. EmptyU /\ ~EmptyR => R # None /\ (undoItems' = <<>> /\ U = Last(redoItems') => R = Last(redoItems'))
    <3>1. undoItems' = <<>> => First = Last(redoItems')
      BY <1>2 DEF First
    <3>. QED BY <1>2, <3>1 DEF Pointers
  <2>3. ~EmptyU /\ ~EmptyR => /\ R \notin {U, None}
                              /\ undoItems' # <<>> /\ U = Last(undoItems') => redoItems' # <<>>
    <3>1. redoItems' = <<>> => Final = Last(undoItems')
      BY <1>2 DEF Final
    <3>. QED BY <1>2, <3>1 DEF Pointers
  <2>4. ~EmptyU /\ EmptyR /\ undoItems' # <<>> /\ redoItems' # <<>> /\ U = Last(undoItems')
          => R # Last(redoItems')
    <3>. SUFFICES ASSUME ~EmptyU, EmptyR, undoItems' # <<>>, redoItems' # <<>>,
                         U = Last(undoItems'), R = Last(redoItems')
                  PROVE  FALSE
      OBVIOUS
    <3>1. U \in Listed /\ R \in Listed /\ R \in In(redoItems')
      BY <1>3, <1>4
    <3>2. group[R].to <= disk /\ group[U].to = disk
      BY <3>1 DEF Pointers, SavedPlace
    <3>3. group[U].to = text' /\ text' < group[R].to
      BY <1>2, <1>3, <1>4, <3>1
    <3>. QED BY <1>4, <1>6, <3>1, <3>2, <3>3
  <2>5. (EmptyU /\ EmptyR => U = None /\ R = None) /\ (~EmptyU => U # None)
    BY DEF Pointers
  <2>. HIDE DEF U, R, EmptyU, EmptyR
  <2>. QED BY <1>3, <1>4, <1>5, <2>1, <2>2, <2>3, <2>4, <2>5, PatternFacts
<1>9. CASE ~AtSaved(undoItems', redoItems')
  <2>1. modified' = TRUE /\ UNCHANGED <<group, saved>>
    BY <1>2, <1>8, <1>9 DEF UpdateModified
  <2>2. Pointers' /\ SavedPlace'
    BY <1>1, <1>2, <2>1, PlaceKept
  <2>. QED BY <1>1, <1>2, <1>7, <1>9, <2>1, <2>2
<1>10. CASE AtSaved(undoItems', redoItems')
  <2>1. modified' = FALSE /\ SetSaved(undoItems', redoItems') /\ group' = Safe(Last(undoItems'))
    BY <1>2, <1>8, <1>10 DEF UpdateModified
  <2>2. undoItems' # <<>> => group'[Last(undoItems')].safe
    BY <1>3, <1>4, <2>1, SafeFacts DEF Inv
  <2>3. Listed' = {} => undoItems' = <<>> /\ redoItems' = <<>>
    BY <1>3, <1>4 DEF Listed
  <2>4. JustSaved'
    BY <1>1, <1>5, <1>7, <1>10, <2>1, <2>2, <2>3 DEF JustSaved, SetSaved
  <2>5. Inv' /\ Ordered' /\ JustSaved' => Pointers' /\ SavedPlace'
    BY SavedHere, PTL
  <2>. QED BY <1>1, <1>2, <1>7, <1>10, <2>1, <2>4, <2>5
<1>. QED BY <1>9, <1>10

------------------------------------------------------------------------------
(* The flag is exact                                                        *)

Exact == Ordered /\ Pointers /\ SavedPlace /\ Flag

LEMMA InitExact == Init => Inv /\ Exact
<1>. SUFFICES ASSUME Init PROVE Inv /\ Exact
  OBVIOUS
<1>1. Inv
  <2>1. Chained /\ Untouched
    BY InEmpty DEF Init, Chained, Untouched
  <2>. QED BY <2>1, InitTyped DEF Inv
<1>2. JustSaved
  BY InEmpty DEF Init, JustSaved, Listed, U, R, EmptyU, EmptyR
<1>3. Ordered /\ Flag
  <2>1. In(undoItems) = {} /\ In(redoItems) = {} /\ DOMAIN group = {}
    BY InEmpty DEF Init
  <2>2. Len(undoItems) = 0 /\ Len(redoItems) = 0
    BY DEF Init
  <2>. QED BY <2>1, <2>2 DEF Init, Ordered, Flag, Listed, Editing
<1>. QED BY <1>1, <1>2, <1>3, SavedHere DEF Exact

LEMMA SaveExact ==
    ASSUME Inv, Exact, Save, Inv'
    PROVE  Exact'
<1>1. /\ current = None /\ current' = None /\ disk' = text /\ text' = text /\ modified' = FALSE
      /\ UNCHANGED <<undoItems, redoItems, texts>>
      /\ group' = Safe(Last(undoItems)) /\ SetSaved(undoItems, redoItems)
  BY DEF Save
<1>2. Ordered' /\ Listed' = Listed /\ ~Editing /\ ~Editing'
  BY <1>1, OrderedKept, LastFacts DEF Exact, Inv, Editing
<1>3. undoItems # <<>> => group'[Last(undoItems)].safe
  BY <1>1, SafeFacts, LastFacts DEF Inv
<1>4. Listed = {} => U = None /\ R = None
  BY <1>2 DEF Exact, Pointers
<1>5. Listed = {} => undoItems = <<>> /\ redoItems = <<>>
  BY Indexed DEF Inv, Listed
<1>6. JustSaved'
  BY <1>1, <1>2, <1>3, <1>4, <1>5 DEF JustSaved, SetSaved, U, R, EmptyU, EmptyR
<1>7. Inv' /\ Ordered' /\ JustSaved' => Pointers' /\ SavedPlace'
  BY SavedHere, PTL
<1>. QED BY <1>1, <1>2, <1>6, <1>7 DEF Exact, Flag

LEMMA ReloadExact ==
    ASSUME Inv, Exact, Reload, Inv'
    PROVE  Exact'
<1>1. Ordered' /\ Listed' = {} /\ ~Editing'
  BY ReloadOrdered DEF Exact
<1>2. text' = disk' /\ modified' = FALSE
  BY DEF Reload
<1>3. JustSaved'
  BY <1>1 DEF Reload, JustSaved, U, R, EmptyU, EmptyR
<1>4. Inv' /\ Ordered' /\ JustSaved' => Pointers' /\ SavedPlace'
  BY SavedHere, PTL
<1>. QED BY <1>1, <1>2, <1>3, <1>4 DEF Exact, Flag

LEMMA NextExact ==
    ASSUME ~Reuse, Inv, Exact, Inv', [Next]_vars
    PROVE  Exact'
<1>. USE DEF Exact
<1>1. CASE EditStart
  <2>1. UNCHANGED <<text, disk, modified>>
    BY <1>1 DEF EditStart
  <2>. QED BY <1>1, <2>1, StartPlace DEF Flag
<1>2. CASE EditEnd
  <2>1. CASE EndEmpty
    <3>1. UNCHANGED <<text, disk>> /\ (modified' <=> modified) /\ ~Editing
      BY <2>1 DEF EndEmpty, EditEnd, Editing
    <3>. QED BY <2>1, <3>1, EmptyPlace DEF Flag
  <2>2. CASE EndMerge
    <3>1. UNCHANGED <<text, disk>> /\ modified'
      BY <2>2 DEF EndMerge, EditEnd, Editing
    <3>. QED BY <2>2, <3>1, MergePlace DEF Flag
  <2>3. CASE EndAppend
    <3>1. UNCHANGED <<text, disk>> /\ modified'
      BY <2>3 DEF EndAppend, EditEnd, Editing
    <3>. QED BY <2>3, <3>1, AppendPlace DEF Flag
  <2>. QED BY <1>2, <2>1, <2>2, <2>3, EndCases
<1>3. ASSUME UndoSafePoint \/ \E merge \in BOOLEAN : SetUndoMergeAllEdits(merge)
      PROVE  Exact'
  <2>1. /\ group' = Safe(Latest)
        /\ UNCHANGED <<text, disk, texts, modified, undoItems, redoItems, current, saved>>
    BY <1>3 DEF UndoSafePoint, SetUndoMergeAllEdits
  <2>2. Ordered' /\ Pointers' /\ SavedPlace' /\ Editing' = Editing
    BY <2>1, SafePlace, LastFacts DEF Inv
  <2>. QED BY <2>1, <2>2 DEF Flag
<1>4. ASSUME NEW type \in Types, AddUndoItem(type) PROVE Exact'
  BY <1>4, AddPlace DEF Flag
<1>5. CASE Undo \/ Redo
  BY <1>5, MoveFlag DEF Flag
<1>6. CASE Save
  BY <1>6, SaveExact
<1>7. CASE Reload
  BY <1>7, ReloadExact
<1>8. CASE UNCHANGED vars
  <2>1. UNCHANGED <<text, disk, texts, modified, undoItems, redoItems, group, current, saved>>
    BY <1>8 DEF vars
  <2>2. Listed' = Listed /\ Now' = Now /\ (Editing' <=> Editing)
    BY <2>1 DEF Listed, Now, Editing
  <2>3. Base' = Base /\ First' = First /\ Final' = Final
    BY <2>1, <2>2 DEF Base, First, Final
  <2>4. Ordered'
    BY <2>1, <2>2 DEF Ordered
  <2>5. current' # None => current' \notin {U, R}
    BY <2>1 DEF Pointers
  <2>6. Pointers' /\ SavedPlace'
    BY <2>1, <2>2, <2>3, <2>5, PlaceKept
  <2>. QED BY <2>1, <2>2, <2>4, <2>6 DEF Flag
<1>. QED BY <1>1, <1>2, <1>3, <1>4, <1>5, <1>6, <1>7, <1>8 DEF Next

LEMMA NextInv == Inv /\ [Next]_vars => Inv'
  BY NextTyped, NextChained, NextUntouched DEF Inv

\* A document that undo and redo bring back to what was saved says that it is not
\* modified, and one that says so holds what is on disk, when no group is made at
\* the address of one that was last when the document was saved.
THEOREM ModifiedFlagExact ==
    ASSUME ~Reuse
    PROVE  Spec => []ModifiedExact
<1>1. Init => Inv /\ Exact
  BY InitExact
<1>2. Inv /\ Exact /\ [Next]_vars => (Inv /\ Exact)'
  BY NextInv, NextExact
<1>3. Inv /\ Exact => ModifiedExact
  BY DEF Exact, Flag, ModifiedExact, Editing
<1>. QED BY <1>1, <1>2, <1>3, PTL DEF Spec

------------------------------------------------------------------------------
(* UndoManager implements History.                                           *)

\* The stops behind and ahead, as HistoryKept has them.
Past == [i \in 1 .. Len(undoItems) |-> group[undoItems[i]].from]
Future == [i \in 1 .. Len(redoItems) |-> group[redoItems[Len(redoItems) + 1 - i]].to]

\* A stop that is on disk is not to be merged with what follows.
SafeStop == \A g \in Listed : group[g].to = disk => group[g].safe

------------------------------------------------------------------------------
(* The stop that is on disk                                                 *)

LEMMA StopKept ==
    ASSUME SafeStop, disk' = disk, Listed' \subseteq Listed,
           \A g \in Listed' : group'[g].to = group[g].to /\ (group[g].safe => group'[g].safe)
    PROVE  SafeStop'
  BY DEF SafeStop

\* Undo and redo leave the texts of the groups alone, and what is safe is so still.
LEMMA MovedSafe ==
    ASSUME Inv, Undo \/ Redo, UpdateModified(undoItems', redoItems'),
           undoItems' \in Seq(DOMAIN group)
    PROVE  \A h \in DOMAIN group : group[h].safe => group'[h].safe
<1>1. Last(undoItems') \in DOMAIN group \cup {None}
  BY InFacts, InEmpty
<1>2. \A h \in DOMAIN group : Safe(Last(undoItems'))[h].safe = (group[h].safe \/ h = Last(undoItems'))
  BY <1>1, SafeFacts DEF Inv
<1>. QED BY <1>2 DEF UpdateModified

LEMMA NextOrdered ==
    ASSUME Inv, Ordered, SafeStop, [Next]_vars
    PROVE  Ordered' /\ SafeStop'
<1>0. Listed \subseteq DOMAIN group
  BY Indexed DEF Listed, Inv
<1>1. CASE EditStart
  <2>1. disk' = disk
    BY <1>1 DEF EditStart
  <2>. QED BY <1>1, <2>1, StartOrdered, StopKept
<1>2. CASE EditEnd
  <2>0. disk' = disk
    BY <1>2 DEF EditEnd
  <2>1. CASE EndEmpty
    BY <2>0, <2>1, EndEmptyOrdered, StopKept
  <2>2. CASE EndMerge
    <3>1. disk < text /\ disk \in Nat /\ text \in Nat
      BY <2>2, Numbers DEF Inv, Ordered, EndMerge
    <3>2. /\ Ordered' /\ Listed' = Listed /\ group'[Last(undoItems)].to = text
          /\ \A h \in Listed : h # Last(undoItems) => group'[h] = group[h]
      BY <2>2, EndMergeOrdered
    <3>. QED BY <2>0, <3>1, <3>2 DEF SafeStop
  <2>3. CASE EndAppend
    <3>1. disk < text /\ disk \in Nat /\ text \in Nat
      BY <2>3, Numbers DEF Inv, Ordered, EndAppend
    <3>2. Ordered' /\ Listed' = Listed \cup {current} /\ group' = group /\ group[current].to = text
      BY <2>3, EndAppendOrdered
    <3>. QED BY <2>0, <3>1, <3>2 DEF SafeStop
  <2>. QED BY <1>2, <2>1, <2>2, <2>3, EndCases
<1>3. ASSUME UndoSafePoint \/ \E merge \in BOOLEAN : SetUndoMergeAllEdits(merge)
      PROVE  Ordered' /\ SafeStop'
  <2>1. group' = Safe(Latest) /\ UNCHANGED <<text, disk, texts, undoItems, redoItems, current>>
    BY <1>3 DEF UndoSafePoint, SetUndoMergeAllEdits
  <2>2. Latest \in DOMAIN group \cup {None}
    BY LastFacts DEF Inv
  <2>3. \A h \in DOMAIN group : group'[h].to = group[h].to /\ (group[h].safe => group'[h].safe)
    BY <2>1, <2>2, SafeFacts DEF Inv
  <2>4. Ordered' /\ Listed' = Listed
    BY <2>1, <2>2, OrderedKept
  <2>. QED BY <1>0, <2>1, <2>3, <2>4, StopKept
<1>4. ASSUME NEW type \in Types, AddUndoItem(type) PROVE Ordered' /\ SafeStop'
  <2>1. disk' = disk
    BY <1>4 DEF AddUndoItem, Change
  <2>2. /\ Ordered' /\ Listed' = In(undoItems)
        /\ \A h \in In(undoItems) : group'[h] = group[h]
    BY <1>4, AddOrdered
  <2>3. Listed' \subseteq Listed
    BY <2>2 DEF Listed
  <2>. QED BY <2>1, <2>2, <2>3, StopKept
<1>5. CASE Undo \/ Redo
  <2>1. Moved /\ disk' = disk
    BY <1>5, UndoMoved, RedoMoved DEF Undo, Redo
  <2>2. /\ Ordered' /\ Listed' = Listed
        /\ \A h \in DOMAIN group : group'[h].to = group[h].to
        /\ UpdateModified(undoItems', redoItems') /\ undoItems' \in Seq(DOMAIN group)
    BY <2>1 DEF Moved
  <2>3. \A h \in DOMAIN group : group[h].safe => group'[h].safe
    BY <1>5, <2>2, MovedSafe
  <2>. QED BY <1>0, <2>1, <2>2, <2>3, StopKept
<1>6. CASE Save
  <2>1. /\ group' = Safe(Last(undoItems)) /\ disk' = text /\ current = None
        /\ UNCHANGED <<undoItems, redoItems, text, texts, current>>
    BY <1>6 DEF Save
  <2>2. Last(undoItems) \in DOMAIN group \cup {None}
    BY LastFacts DEF Inv
  <2>3. \A h \in DOMAIN group : /\ group'[h].to = group[h].to
                                /\ group'[h].safe = (group[h].safe \/ h = Last(undoItems))
    BY <2>1, <2>2, SafeFacts DEF Inv
  <2>4. Ordered' /\ Listed' = Listed
    BY <2>1, <2>2, OrderedKept
  <2>5. \A g \in Listed : group[g].to = text => g = Last(undoItems)
    <3>1. Now = text /\ Inv
      BY <2>1 DEF Now
    <3>2. \A g \in In(redoItems) : group[g].to # text
      <4>. SUFFICES ASSUME NEW g \in In(redoItems), group[g].to = text PROVE FALSE
        OBVIOUS
      <4>1. text <= group[g].from /\ group[g].from < group[g].to
        BY <3>1 DEF Ordered, Listed
      <4>2. text \in Nat /\ group[g].from \in Nat /\ group[g].to \in Nat
        BY <1>0, Numbers DEF Inv, Listed
      <4>. QED BY <4>1, <4>2
    <3>3. \A g \in In(undoItems) : group[g].to = text => g = Last(undoItems)
      BY <2>1, Position
    <3>. QED BY <3>2, <3>3 DEF Listed
  <2>. QED BY <1>0, <2>1, <2>3, <2>4, <2>5 DEF SafeStop
<1>7. CASE Reload
  BY <1>7, ReloadOrdered DEF SafeStop
<1>8. CASE UNCHANGED vars
  <2>1. UNCHANGED <<text, disk, texts, undoItems, redoItems, group, current>>
    BY <1>8 DEF vars
  <2>2. Listed' = Listed /\ Now' = Now /\ (Editing' <=> Editing)
    BY <2>1 DEF Listed, Now, Editing
  <2>. QED BY <2>1, <2>2 DEF Ordered, SafeStop
<1>. QED BY <1>1, <1>2, <1>3, <1>4, <1>5, <1>6, <1>7, <1>8 DEF Next

------------------------------------------------------------------------------
(* Every step is one of History                                             *)

\* What the stops are made of.
LEMMA Stops ==
    /\ DOMAIN Past = 1 .. Len(undoItems) /\ DOMAIN Future = 1 .. Len(redoItems)
    /\ \A i \in 1 .. Len(undoItems) : Past[i] = group[undoItems[i]].from
    /\ \A i \in 1 .. Len(redoItems) : Future[i] = group[redoItems[Len(redoItems) + 1 - i]].to
  BY DEF Past, Future

LEMMA StopsTyped ==
    Inv => /\ Past \in Seq(Texts) /\ Future \in Seq(Texts)
           /\ Len(Past) = Len(undoItems) /\ Len(Future) = Len(redoItems)
           /\ Len(undoItems) \in Nat /\ Len(redoItems) \in Nat
<1>. SUFFICES ASSUME Inv
              PROVE  /\ Past \in Seq(Texts) /\ Future \in Seq(Texts)
                     /\ Len(Past) = Len(undoItems) /\ Len(Future) = Len(redoItems)
                     /\ Len(undoItems) \in Nat /\ Len(redoItems) \in Nat
  OBVIOUS
<1>1. Len(undoItems) \in Nat /\ Len(redoItems) \in Nat
  BY Indexed DEF Inv
<1>2. \A i \in 1 .. Len(undoItems) : group[undoItems[i]].from \in Texts
  BY TextFacts, Indexed DEF Inv
<1>3. \A i \in 1 .. Len(redoItems) : group[redoItems[Len(redoItems) + 1 - i]].to \in Texts
  <2>. SUFFICES ASSUME NEW i \in 1 .. Len(redoItems)
                PROVE  group[redoItems[Len(redoItems) + 1 - i]].to \in Texts
    OBVIOUS
  <2>1. Len(redoItems) + 1 - i \in 1 .. Len(redoItems)
    BY <1>1
  <2>. QED BY <2>1, TextFacts, Indexed DEF Inv
<1>. QED BY <1>1, <1>2, <1>3 DEF Past, Future

LEMMA SameSeq ==
    ASSUME NEW S, NEW s \in Seq(S), NEW t \in Seq(S), Len(s) = Len(t),
           \A i \in 1 .. Len(s) : s[i] = t[i]
    PROVE  s = t
  OBVIOUS

LEMMA NowText ==
    ASSUME TypeOK
    PROVE  Now \in Texts
  BY LastFacts, TextFacts DEF Now, TypeOK

LEMMA SameStops ==
    ASSUME Inv, UNCHANGED <<undoItems, redoItems>>,
           \A h \in Listed : group'[h].from = group[h].from /\ group'[h].to = group[h].to
    PROVE  Past' = Past /\ Future' = Future
<1>1. \A i \in 1 .. Len(undoItems) : undoItems[i] \in Listed
  BY Indexed DEF Inv, Listed
<1>2. \A i \in 1 .. Len(redoItems) : redoItems[Len(redoItems) + 1 - i] \in Listed
  <2>. SUFFICES ASSUME NEW i \in 1 .. Len(redoItems)
                PROVE  redoItems[Len(redoItems) + 1 - i] \in Listed
    OBVIOUS
  <2>1. Len(redoItems) + 1 - i \in 1 .. Len(redoItems)
    BY Indexed DEF Inv
  <2>. QED BY <2>1, Indexed DEF Inv, Listed
<1>3. Past' = Past
  BY <1>1 DEF Past
<1>4. Future' = Future
  BY <1>2 DEF Future
<1>. QED BY <1>3, <1>4

\* The steps of History, on the stops.
Forget == Future' = <<>> /\ UNCHANGED <<Past, Now, disk>>
Edit ==
    /\ Future' = <<>>
    /\ Now' # Now
    /\ \/ Past' = Append(Past, Now)
       \/ Past # <<>> /\ Now # disk /\ Past' = Past
    /\ UNCHANGED disk
Back ==
    /\ Past # <<>>
    /\ Now' = Past[Len(Past)]
    /\ Past' = SubSeq(Past, 1, Len(Past) - 1)
    /\ Future' = <<Now>> \o Future
    /\ UNCHANGED disk
Forth ==
    /\ Future # <<>>
    /\ Now' = Head(Future)
    /\ Future' = Tail(Future)
    /\ Past' = Append(Past, Now)
    /\ UNCHANGED disk
Stay == UNCHANGED <<Past, Now, Future, disk>>
SaveStop == disk' = Now /\ UNCHANGED <<Past, Now, Future>>
Fresh == Now' = disk /\ Past' = <<>> /\ Future' = <<>> /\ UNCHANGED disk
Step == Stay \/ Forget \/ Edit \/ Back \/ Forth \/ SaveStop \/ Fresh

LEMMA StepIsHistory == Step => [H!Next]_<<Past, Now, Future, disk>>
  BY DEF Step, Stay, Forget, Edit, Back, Forth, SaveStop, Fresh, Past, Now, Future,
         H!Next, H!Forget, H!Edit, H!Undo, H!Redo, H!Save, H!Reload

LEMMA NoFuture == Len(redoItems) = 0 => Future = <<>>
  BY DEF Future

LEMMA EditStep ==
    ASSUME Inv, Ordered, SafeStop, EditEnd, Inv'
    PROVE  Step
<1>0. UNCHANGED <<disk, redoItems>>
  BY DEF EditEnd
<1>1. CASE EndEmpty
  <2>1. Now' = Now /\ undoItems' = undoItems /\ \A h \in Listed : group'[h] = group[h]
    BY <1>1, EndEmptyOrdered DEF EndEmpty, EditEnd, Editing
  <2>. QED BY <1>0, <2>1, SameStops DEF Step, Stay
<1>2. CASE EndMerge
  <2>1. /\ Now' = text /\ redoItems = <<>> /\ ~group[Last(undoItems)].safe
        /\ group'[Last(undoItems)].from = group[Last(undoItems)].from
        /\ \A h \in Listed : h # Last(undoItems) => group'[h] = group[h]
    BY <1>2, EndMergeOrdered
  <2>2. undoItems' = undoItems /\ undoItems # <<>> /\ current # None /\ Editing
    BY <1>2 DEF EndMerge, EditEnd, Editing
  <2>3. group[Last(undoItems)].to = Now /\ Last(undoItems) \in Listed
    BY <2>2, Indexed DEF Inv, Chained, Now, Listed
  <2>4. Now # disk
    BY <2>1, <2>3 DEF SafeStop
  <2>5. Now < text /\ Now \in Nat /\ text \in Nat
    BY <2>2, NowNat, Numbers DEF Ordered, Inv
  <2>6. Past' = Past
    <3>1. \A i \in 1 .. Len(undoItems) : undoItems[i] \in Listed
      BY Indexed DEF Inv, Listed
    <3>2. \A i \in 1 .. Len(undoItems) : group'[undoItems[i]].from = group[undoItems[i]].from
      BY <2>1, <3>1
    <3>. QED BY <2>2, <3>2 DEF Past
  <2>7. Past # <<>> /\ Future' = <<>>
    <3>1. Len(undoItems) >= 1 /\ Len(redoItems') = 0
      BY <1>0, <2>1, <2>2, Indexed DEF Inv
    <3>2. Past # <<>>
      BY <3>1, StopsTyped
    <3>3. (Len(redoItems) = 0 => Future = <<>>)'
      BY NoFuture, PTL
    <3>. QED BY <3>1, <3>2, <3>3
  <2>. QED BY <1>0, <2>1, <2>4, <2>5, <2>6, <2>7 DEF Step, Edit
<1>3. CASE EndAppend
  <2>1. /\ Now' = text /\ redoItems = <<>> /\ group' = group
        /\ undoItems' = Append(undoItems, current)
        /\ Len(undoItems) \in Nat /\ Len(undoItems') = Len(undoItems) + 1
        /\ \A i \in 1 .. Len(undoItems) : undoItems'[i] = undoItems[i]
    BY <1>3, EndAppendOrdered
  <2>2. current # None /\ Editing /\ undoItems'[Len(undoItems) + 1] = current
    <3>1. undoItems \in Seq(DOMAIN group) /\ current # None /\ current \in DOMAIN group
      BY <1>3, LastFacts DEF Inv, TypeOK, EndAppend, EditEnd
    <3>. QED BY <1>3, <2>1, <3>1 DEF EndAppend, Editing
  <2>3. Now < text /\ Now \in Nat /\ text \in Nat
    BY <2>2, NowNat, Numbers DEF Ordered, Inv
  <2>4. Past' = Append(Past, Now)
    <3>1. /\ Past' \in Seq(Texts) /\ Len(Past') = Len(undoItems')
          /\ \A i \in 1 .. Len(undoItems') : Past'[i] = group'[undoItems'[i]].from
      <4>1. (Inv => Past \in Seq(Texts) /\ Len(Past) = Len(undoItems))'
        BY StopsTyped, PTL
      <4>. QED BY <4>1 DEF Past
    <3>2. /\ Append(Past, Now) \in Seq(Texts) /\ Len(Append(Past, Now)) = Len(undoItems) + 1
          /\ \A i \in 1 .. Len(undoItems) : Append(Past, Now)[i] = group[undoItems[i]].from
          /\ Append(Past, Now)[Len(undoItems) + 1] = group[current].from
      <4>1. Now \in Texts /\ Past \in Seq(Texts) /\ Len(Past) = Len(undoItems)
        BY StopsTyped, NowText DEF Inv
      <4>2. Now = group[current].from
        BY <2>2 DEF Now
      <4>. QED BY <2>1, <4>1, <4>2, AppendFacts, Stops
    <3>3. \A i \in 1 .. Len(undoItems') : Past'[i] = Append(Past, Now)[i]
      BY <2>1, <2>2, <3>1, <3>2
    <3>. QED BY <2>1, <3>1, <3>2, <3>3, SameSeq
  <2>5. Future' = <<>>
    <3>1. (Len(redoItems) = 0 => Future = <<>>)'
      BY NoFuture, PTL
    <3>. QED BY <1>0, <2>1, <3>1
  <2>. QED BY <1>0, <2>1, <2>3, <2>4, <2>5 DEF Step, Edit
<1>. QED BY <1>1, <1>2, <1>3, EndCases

LEMMA ConsFacts ==
    ASSUME NEW S, NEW s \in Seq(S), NEW e \in S
    PROVE  /\ <<e>> \o s \in Seq(S)
           /\ Len(<<e>> \o s) = Len(s) + 1
           /\ (<<e>> \o s)[1] = e
           /\ \A i \in 1 .. Len(s) : (<<e>> \o s)[i + 1] = s[i]
  OBVIOUS

LEMMA CutFacts ==
    ASSUME NEW S, NEW s \in Seq(S), s # <<>>
    PROVE  /\ SubSeq(s, 1, Len(s) - 1) \in Seq(S)
           /\ Len(SubSeq(s, 1, Len(s) - 1)) = Len(s) - 1
           /\ \A i \in 1 .. Len(s) - 1 : SubSeq(s, 1, Len(s) - 1)[i] = s[i]
           /\ Tail(s) \in Seq(S) /\ Len(Tail(s)) = Len(s) - 1 /\ Head(s) = s[1]
           /\ \A i \in 1 .. Len(s) - 1 : Tail(s)[i] = s[i + 1]
<1>1. Len(s) \in Nat \ {0} /\ \A i \in 1 .. Len(s) : s[i] \in S
  OBVIOUS
<1>2. SubSeq(s, 1, Len(s) - 1) = [i \in 1 .. Len(s) - 1 |-> s[i]]
  BY <1>1
<1>3. [i \in 1 .. Len(s) - 1 |-> s[i]] \in Seq(S)
  BY <1>1
<1>4. Tail(s) \in Seq(S) /\ Len(Tail(s)) = Len(s) - 1 /\ Head(s) = s[1]
  OBVIOUS
<1>5. \A i \in 1 .. Len(s) - 1 : Tail(s)[i] = s[i + 1]
  OBVIOUS
<1>6. Len([i \in 1 .. Len(s) - 1 |-> s[i]]) = Len(s) - 1
  BY <1>1
<1>. QED BY <1>2, <1>3, <1>4, <1>5, <1>6

\* What undo and redo both need of the step.
MovedStops ==
    /\ Now = text /\ Now \in Texts
    /\ Past \in Seq(Texts) /\ Future \in Seq(Texts)
    /\ Len(Past) = Len(undoItems) /\ Len(Future) = Len(redoItems)
    /\ Past' \in Seq(Texts) /\ Future' \in Seq(Texts)
    /\ Len(Past') = Len(undoItems') /\ Len(Future') = Len(redoItems')
    /\ \A i \in 1 .. Len(undoItems') : Past'[i] = group[undoItems'[i]].from
    /\ \A i \in 1 .. Len(redoItems') :
         Future'[i] = group[redoItems'[Len(redoItems') + 1 - i]].to
    /\ Now' = text' /\ disk' = disk

LEMMA MovedStopsHold ==
    ASSUME Inv, Inv', Ordered, Undo \/ Redo
    PROVE  MovedStops
<1>1. Moved /\ current = None /\ disk' = disk
  BY UndoMoved, RedoMoved DEF Undo, Redo
<1>2. /\ Now' = text' /\ undoItems' \in Seq(DOMAIN group) /\ redoItems' \in Seq(DOMAIN group)
      /\ \A h \in DOMAIN group : group'[h].from = group[h].from /\ group'[h].to = group[h].to
  BY <1>1 DEF Moved
<1>3. /\ Past \in Seq(Texts) /\ Future \in Seq(Texts)
      /\ Len(Past) = Len(undoItems) /\ Len(Future) = Len(redoItems)
      /\ Now = text /\ Now \in Texts
  BY <1>1, StopsTyped, NowText DEF Inv, Now
<1>4. /\ Past' \in Seq(Texts) /\ Future' \in Seq(Texts)
      /\ Len(Past') = Len(undoItems') /\ Len(Future') = Len(redoItems')
  <2>1. (Inv => /\ Past \in Seq(Texts) /\ Future \in Seq(Texts)
                /\ Len(Past) = Len(undoItems) /\ Len(Future) = Len(redoItems))'
    BY StopsTyped, PTL
  <2>. QED BY <2>1
<1>5. \A i \in 1 .. Len(undoItems') : Past'[i] = group[undoItems'[i]].from
  BY <1>2 DEF Past
<1>6. \A i \in 1 .. Len(redoItems') :
        Future'[i] = group[redoItems'[Len(redoItems') + 1 - i]].to
  <2>. SUFFICES ASSUME NEW i \in 1 .. Len(redoItems')
                PROVE  Future'[i] = group[redoItems'[Len(redoItems') + 1 - i]].to
    OBVIOUS
  <2>1. Len(redoItems') + 1 - i \in 1 .. Len(redoItems')
    BY <1>2
  <2>. QED BY <1>2, <2>1 DEF Future
<1>. QED BY <1>1, <1>2, <1>3, <1>4, <1>5, <1>6 DEF MovedStops

LEMMA UndoStep ==
    ASSUME Inv, Inv', Ordered, Undo
    PROVE  Back
<1>. DEFINE g == Last(undoItems)
            n == Len(undoItems)
            m == Len(redoItems)
<1>1. /\ undoItems # <<>> /\ text' = group[g].from
      /\ undoItems' = Front(undoItems) /\ redoItems' = Append(redoItems, g)
      /\ current = None
  BY DEF Undo
<1>2. MovedStops
  BY MovedStopsHold
<1>3. /\ n \in Nat \ {0} /\ m \in Nat /\ Len(undoItems') = n - 1 /\ Len(redoItems') = m + 1
      /\ \A i \in 1 .. n - 1 : undoItems'[i] = undoItems[i]
      /\ \A i \in 1 .. m : redoItems'[i] = redoItems[i]
      /\ redoItems'[m + 1] = g /\ undoItems[n] = g
  <2>1. undoItems \in Seq(DOMAIN group) /\ redoItems \in Seq(DOMAIN group) /\ g \in DOMAIN group
    BY <1>1, LastFacts DEF Inv, TypeOK
  <2>. QED BY <1>1, <2>1, FrontFacts, AppendFacts, InFacts
<1>4. group[g].to = Now
  BY <1>1, <1>2 DEF Inv, Chained, MovedStops
<1>. HIDE DEF g, n, m
<1>5. Past # <<>> /\ Now' = Past[Len(Past)]
  <2>1. Len(Past) = n /\ n \in 1 .. n
    BY <1>2, <1>3 DEF MovedStops, n
  <2>2. Past[n] = group[g].from
    BY <1>3, <2>1, Stops DEF n
  <2>. QED BY <1>1, <1>2, <1>3, <2>1, <2>2 DEF MovedStops
<1>6. Past' = SubSeq(Past, 1, Len(Past) - 1)
  <2>1. /\ SubSeq(Past, 1, Len(Past) - 1) \in Seq(Texts)
        /\ Len(SubSeq(Past, 1, Len(Past) - 1)) = n - 1
        /\ \A i \in 1 .. n - 1 : SubSeq(Past, 1, Len(Past) - 1)[i] = Past[i]
    BY <1>2, <1>5, CutFacts DEF MovedStops, n
  <2>2. Past' \in Seq(Texts) /\ Len(Past') = n - 1
    BY <1>2, <1>3 DEF MovedStops
  <2>3. \A i \in 1 .. n - 1 : Past'[i] = group[undoItems[i]].from
    BY <1>2, <1>3 DEF MovedStops
  <2>4. \A i \in 1 .. n - 1 : Past[i] = group[undoItems[i]].from
    BY <1>3, Stops DEF n
  <2>5. \A i \in 1 .. n - 1 : Past'[i] = SubSeq(Past, 1, Len(Past) - 1)[i]
    BY <2>1, <2>3, <2>4
  <2>. QED BY <2>1, <2>2, <2>5, SameSeq
<1>7. Future' = <<Now>> \o Future
  <2>. DEFINE s == <<Now>> \o Future
  <2>1. /\ s \in Seq(Texts) /\ Len(s) = m + 1 /\ s[1] = Now
        /\ \A i \in 1 .. m : s[i + 1] = Future[i]
    BY <1>2, ConsFacts DEF MovedStops, m
  <2>2. Future' \in Seq(Texts) /\ Len(Future') = m + 1
    BY <1>2, <1>3 DEF MovedStops
  <2>3. Future'[1] = Now
    <3>1. 1 \in 1 .. m + 1 /\ m + 1 + 1 - 1 = m + 1
      BY <1>3
    <3>. QED BY <1>2, <1>3, <1>4, <3>1 DEF MovedStops
  <2>4. \A i \in 1 .. m : Future'[i + 1] = Future[i]
    <3>. SUFFICES ASSUME NEW i \in 1 .. m PROVE Future'[i + 1] = Future[i]
      OBVIOUS
    <3>1. i + 1 \in 1 .. m + 1 /\ m + 1 + 1 - (i + 1) = m + 1 - i /\ m + 1 - i \in 1 .. m
      BY <1>3
    <3>2. Future'[i + 1] = group[redoItems'[m + 1 - i]].to
      BY <1>2, <1>3, <3>1 DEF MovedStops
    <3>3. Future[i] = group[redoItems[m + 1 - i]].to
      BY Stops DEF m
    <3>. QED BY <1>3, <3>1, <3>2, <3>3
  <2>. HIDE DEF s
  <2>5. \A i \in 1 .. m + 1 : Future'[i] = s[i]
    <3>. SUFFICES ASSUME NEW i \in 1 .. m + 1 PROVE Future'[i] = s[i]
      OBVIOUS
    <3>1. CASE i = 1
      BY <2>1, <2>3, <3>1
    <3>2. CASE i # 1
      <4>1. i - 1 \in 1 .. m /\ (i - 1) + 1 = i
        BY <1>3, <3>2
      <4>. QED BY <2>1, <2>4, <4>1
    <3>. QED BY <3>1, <3>2
  <2>6. Future' = s
    BY <2>1, <2>2, <2>5, SameSeq
  <2>. QED BY <2>6 DEF s
<1>8. disk' = disk
  BY <1>2 DEF MovedStops
<1>. QED BY <1>5, <1>6, <1>7, <1>8 DEF Back

LEMMA RedoStep ==
    ASSUME Inv, Inv', Ordered, Redo
    PROVE  Forth
<1>. DEFINE g == Last(redoItems)
            n == Len(undoItems)
            m == Len(redoItems)
<1>1. /\ redoItems # <<>> /\ text' = group[g].to
      /\ redoItems' = Front(redoItems) /\ undoItems' = Append(undoItems, g)
      /\ current = None
  BY DEF Redo
<1>2. MovedStops
  BY MovedStopsHold
<1>3. /\ n \in Nat /\ m \in Nat \ {0} /\ Len(undoItems') = n + 1 /\ Len(redoItems') = m - 1
      /\ \A i \in 1 .. n : undoItems'[i] = undoItems[i]
      /\ \A i \in 1 .. m - 1 : redoItems'[i] = redoItems[i]
      /\ undoItems'[n + 1] = g /\ redoItems[m] = g
  <2>1. undoItems \in Seq(DOMAIN group) /\ redoItems \in Seq(DOMAIN group) /\ g \in DOMAIN group
    BY <1>1, LastFacts DEF Inv, TypeOK
  <2>. QED BY <1>1, <2>1, FrontFacts, AppendFacts, InFacts
<1>4. group[g].from = Now
  BY <1>1, <1>2 DEF Inv, Chained, MovedStops
<1>. HIDE DEF g, n, m
<1>5. Future # <<>>
  BY <1>2, <1>3 DEF MovedStops, m
<1>6. /\ Tail(Future) \in Seq(Texts) /\ Len(Tail(Future)) = m - 1
      /\ Head(Future) = Future[1]
      /\ \A i \in 1 .. m - 1 : Tail(Future)[i] = Future[i + 1]
  BY <1>2, <1>5, CutFacts DEF MovedStops, m
<1>7. Now' = Head(Future)
  <2>1. 1 \in 1 .. m /\ m + 1 - 1 = m
    BY <1>3
  <2>2. Future[1] = group[redoItems[m]].to
    BY <2>1, Stops DEF m
  <2>. QED BY <1>1, <1>2, <1>3, <1>6, <2>2 DEF MovedStops
<1>8. Future' = Tail(Future)
  <2>1. Future' \in Seq(Texts) /\ Len(Future') = m - 1
    BY <1>2, <1>3 DEF MovedStops
  <2>2. \A i \in 1 .. m - 1 : Future'[i] = Tail(Future)[i]
    <3>. SUFFICES ASSUME NEW i \in 1 .. m - 1 PROVE Future'[i] = Tail(Future)[i]
      OBVIOUS
    <3>1. /\ i + 1 \in 1 .. m /\ m + 1 - (i + 1) = m - i /\ (m - 1) + 1 - i = m - i
          /\ m - i \in 1 .. m - 1
      BY <1>3
    <3>2. Future'[i] = group[redoItems'[m - i]].to
      BY <1>2, <1>3, <3>1 DEF MovedStops
    <3>3. Future[i + 1] = group[redoItems[m - i]].to
      BY <3>1, Stops DEF m
    <3>. QED BY <1>3, <1>6, <3>1, <3>2, <3>3
  <2>. QED BY <1>6, <2>1, <2>2, SameSeq
<1>9. Past' = Append(Past, Now)
  <2>1. /\ Append(Past, Now) \in Seq(Texts) /\ Len(Append(Past, Now)) = n + 1
        /\ \A i \in 1 .. n : Append(Past, Now)[i] = Past[i]
        /\ Append(Past, Now)[n + 1] = Now
    BY <1>2, AppendFacts DEF MovedStops, n
  <2>2. Past' \in Seq(Texts) /\ Len(Past') = n + 1
    BY <1>2, <1>3 DEF MovedStops
  <2>3. \A i \in 1 .. n : Past'[i] = Past[i]
    <3>1. \A i \in 1 .. n : Past'[i] = group[undoItems[i]].from
      BY <1>2, <1>3 DEF MovedStops
    <3>. QED BY <3>1, Stops DEF n
  <2>4. Past'[n + 1] = Now
    <3>1. n + 1 \in 1 .. n + 1
      BY <1>3
    <3>. QED BY <1>2, <1>3, <1>4, <3>1 DEF MovedStops
  <2>5. \A i \in 1 .. n + 1 : Past'[i] = Append(Past, Now)[i]
    <3>. SUFFICES ASSUME NEW i \in 1 .. n + 1 PROVE Past'[i] = Append(Past, Now)[i]
      OBVIOUS
    <3>1. i \in 1 .. n \/ i = n + 1
      BY <1>3
    <3>. QED BY <2>1, <2>3, <2>4, <3>1
  <2>. QED BY <2>1, <2>2, <2>5, SameSeq
<1>10. disk' = disk
  BY <1>2 DEF MovedStops
<1>. QED BY <1>5, <1>7, <1>8, <1>9, <1>10 DEF Forth

LEMMA NextStep ==
    ASSUME Inv, Inv', Ordered, SafeStop, [Next]_vars
    PROVE  Step
<1>0. Listed \subseteq DOMAIN group
  BY Indexed DEF Listed, Inv
<1>1. CASE EditStart
  <2>1. /\ Now' = Now /\ \A h \in Listed : group'[h] = group[h]
        /\ UNCHANGED <<disk, undoItems, redoItems>>
    BY <1>1, StartOrdered DEF EditStart
  <2>. QED BY <2>1, SameStops DEF Step, Stay
<1>2. CASE EditEnd
  BY <1>2, EditStep
<1>3. ASSUME UndoSafePoint \/ \E merge \in BOOLEAN : SetUndoMergeAllEdits(merge) PROVE Step
  <2>1. group' = Safe(Latest) /\ UNCHANGED <<text, disk, texts, undoItems, redoItems, current>>
    BY <1>3 DEF UndoSafePoint, SetUndoMergeAllEdits
  <2>2. Latest \in DOMAIN group \cup {None}
    BY LastFacts DEF Inv
  <2>3. \A h \in DOMAIN group : group'[h].from = group[h].from /\ group'[h].to = group[h].to
    BY <2>1, <2>2, SafeFacts DEF Inv
  <2>4. Now' = Now
    BY <2>1, <2>2, OrderedKept
  <2>. QED BY <1>0, <2>1, <2>3, <2>4, SameStops DEF Step, Stay
<1>4. ASSUME NEW type \in Types, AddUndoItem(type) PROVE Step
  <2>1. /\ Now' = Now /\ \A h \in In(undoItems) : group'[h] = group[h]
    BY <1>4, AddOrdered
  <2>2. UNCHANGED <<disk, undoItems>> /\ redoItems' = <<>>
    BY <1>4 DEF AddUndoItem, Change
  <2>3. Past' = Past
    <3>1. \A i \in 1 .. Len(undoItems) : undoItems[i] \in In(undoItems)
      BY Indexed DEF Inv
    <3>. QED BY <2>1, <2>2, <3>1 DEF Past
  <2>4. Future' = <<>>
    <3>1. (Len(redoItems) = 0 => Future = <<>>)'
      BY NoFuture, PTL
    <3>. QED BY <2>2, <3>1
  <2>. QED BY <2>1, <2>2, <2>3, <2>4 DEF Step, Forget
<1>5. CASE Undo
  BY <1>5, UndoStep DEF Step
<1>6. CASE Redo
  BY <1>6, RedoStep DEF Step
<1>7. CASE Save
  <2>1. /\ group' = Safe(Last(undoItems)) /\ disk' = text /\ current = None
        /\ UNCHANGED <<undoItems, redoItems, text, texts, current>>
    BY <1>7 DEF Save
  <2>2. Last(undoItems) \in DOMAIN group \cup {None}
    BY LastFacts DEF Inv
  <2>3. \A h \in DOMAIN group : group'[h].from = group[h].from /\ group'[h].to = group[h].to
    BY <2>1, <2>2, SafeFacts DEF Inv
  <2>4. Now' = Now /\ Now = text
    BY <2>1 DEF Now
  <2>5. Past' = Past /\ Future' = Future
    BY <1>0, <2>1, <2>3, SameStops
  <2>. QED BY <2>1, <2>4, <2>5 DEF Step, SaveStop
<1>8. CASE Reload
  <2>1. /\ current' = None /\ text' = disk /\ disk' = disk
        /\ undoItems' = <<>> /\ redoItems' = <<>>
    BY <1>8 DEF Reload
  <2>2. Now' = disk
    BY <2>1 DEF Now
  <2>3. Past' = <<>> /\ Future' = <<>>
    BY <2>1 DEF Past, Future
  <2>. QED BY <2>1, <2>2, <2>3 DEF Step, Fresh
<1>9. CASE UNCHANGED vars
  <2>1. UNCHANGED <<text, disk, undoItems, redoItems, group, current>>
    BY <1>9 DEF vars
  <2>. QED BY <2>1 DEF Step, Stay, Past, Future, Now
<1>. QED BY <1>1, <1>2, <1>3, <1>4, <1>5, <1>6, <1>7, <1>8, <1>9 DEF Next

\* Whatever is edited, merged, undone, redone and saved, undo goes one stop back
\* and redo one stop forward on the line of History, and a stop that was saved is
\* not merged away; no bound on texts or groups, and addresses may be used again.
THEOREM UndoImplementsHistory == Spec => HistoryKept
<1>1. Init => Inv /\ Ordered /\ SafeStop
  <2>1. Init => SafeStop
    BY InEmpty DEF Init, SafeStop, Listed
  <2>. QED BY <2>1, InitExact DEF Exact
<1>2. Inv /\ Ordered /\ SafeStop /\ [Next]_vars => (Inv /\ Ordered /\ SafeStop)'
  BY NextInv, NextOrdered
<1>3. Init => H!Init
  BY DEF Init, H!Init
<1>4. Inv /\ Inv' /\ Ordered /\ SafeStop /\ [Next]_vars => [H!Next]_<<Past, Now, Future, disk>>
  BY NextStep, StepIsHistory
<1>5. [H!Next]_<<Past, Now, Future, disk>> =>
        [H!Next]_<<[i \in 1 .. Len(undoItems) |-> group[undoItems[i]].from],
                   IF current # None THEN group[current].from ELSE text,
                   [i \in 1 .. Len(redoItems) |-> group[redoItems[Len(redoItems) + 1 - i]].to],
                   disk>>
  BY DEF Past, Now, Future
<1>. QED BY <1>1, <1>2, <1>3, <1>4, <1>5, PTL DEF Spec, HistoryKept, H!Spec

==============================================================================
