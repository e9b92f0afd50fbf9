------------------------------- MODULE Selection -------------------------------
(****************************************************************************)
(* dolphin's KItemListSelectionManager, the events of KItemListController   *)
(* and of DolphinView that change the selection, and the model's items that *)
(* come, go and move meanwhile.  Indexes begin at 0.                        *)
(*                                                                          *)
(* Abstracted: where items are drawn.  The keys that move the current item, *)
(* and the keyboard search, lead to any index; the rubber band covers any   *)
(* items.  The selection behaviour is MultiSelection, DolphinView's.  Of    *)
(* the mouse only the left button; a release comes after its press, and a   *)
(* drag takes the release (QDrag::exec()).  selectionChanged() is modelled  *)
(* by `told', the selection it was last emitted with.                       *)
(****************************************************************************)
EXTENDS ItemSet

CONSTANTS
    Items,
    Batch,    \* bound: items that one itemsInserted() brings
    Careful   \* while a button is held, items and keys rest, and no rubber band
              \* begins with Shift while an anchored selection has a range

ASSUME SelectionAssumption == IsFiniteSet(Items) /\ Batch \in Nat /\ Careful \in BOOLEAN

VARIABLES
    items,    \* m_model: its items in their order
    manager,  \* m_currentItem, m_anchorItem, m_isAnchoredSelectionActive,
              \* m_selectedItems, and the argument of the last selectionChanged()
    mouse     \* the controller: m_pressedIndex, m_selectionTogglePressed,
              \* m_clearSelectionIfItemsAreNotDragged, rubberBand->isActive(),
              \* m_oldSelection, and whether the button is down

vars == <<items, manager, mouse>>

count == Len(items)
IndexSet == 0 .. count - 1
Up == [pressed |-> -1, toggle |-> FALSE, clear |-> FALSE, band |-> FALSE, old |-> <<>>,
       held |-> FALSE]

Init ==
    /\ items = <<>>
    /\ manager = [current |-> -1, anchor |-> -1, active |-> FALSE, selected |-> <<>>, told |-> <<>>]
    /\ mouse = Up

----------------------------------------------------------------------------
\* The manager's functions, on its state m in a model of n items.

HasRange(m) == m.active /\ m.anchor # m.current
AnchoredRange(m) == [k \in 1 .. Max({m.anchor, m.current}) - Min({m.anchor, m.current}) + 1 |->
                        Min({m.anchor, m.current}) + k - 1]

SelectedItems(m) == IF HasRange(m) THEN InsertAll(m.selected, AnchoredRange(m)) ELSE m.selected

\* "if (selection != previous) emit selectionChanged(selection, previous)"
Emit(m, previous) ==
    IF SelectedItems(m) # previous THEN [m EXCEPT !.told = SelectedItems(m)] ELSE m

SetCurrentItem(m, n, i) ==
    LET moved == [m EXCEPT !.current = IF i \in 0 .. n - 1 THEN i ELSE -1]
    IN IF m.active THEN Emit(moved, SelectedItems(m)) ELSE moved

SetSelectedItems(m, s) ==
    IF m.selected # s THEN [m EXCEPT !.selected = s, !.told = s] ELSE m

BeginAnchoredSelection(m, n, i) ==
    IF i \in 0 .. n - 1 THEN [m EXCEPT !.active = TRUE, !.anchor = i] ELSE m
\* Bug: the range is not added to the selection.
EndAnchoredSelectionDrop(m) == [m EXCEPT !.active = FALSE]
EndAnchoredSelection(m) ==
    [m EXCEPT !.selected = SelectedItems(m), !.active = FALSE]

ClearSelection(m) ==
    IF SelectedItems(m) = <<>> THEN m
    ELSE [m EXCEPT !.selected = <<>>, !.active = FALSE, !.told = <<>>]

SetSelected(m, n, i, c, mode) ==
    LET ended == EndAnchoredSelection(m)
        range == [k \in 1 .. Min({i + c, n}) - i |-> i + k - 1]
        Changed(s) == IF mode = "Select" THEN InsertAll(s, range) ELSE ToggleAll(s, range)
    IN IF i \notin 0 .. n - 1 THEN m
       ELSE Emit([ended EXCEPT !.selected = Changed(@)], ended.selected)
Select(m, n, i) == SetSelected(m, n, i, 1, "Select")
Toggle(m, n, i) == SetSelected(m, n, i, 1, "Toggle")
SelectOnly(m, n, i) == Select(ClearSelection(m), n, i)

\* The ranges that the loops of itemsInserted() and indexAfterRangesRemoving()
\* reach before they break: those up to index i.
UpTo(ranges, i) == {k \in DOMAIN ranges : \A j \in 1 .. k : ranges[j].index <= i}
CountUpTo(ranges, i) ==
    LET upto[k \in 0 .. Len(ranges)] == IF k = 0 THEN 0
                                        ELSE IF k \in UpTo(ranges, i) THEN upto[k - 1] + ranges[k].count
                                        ELSE upto[k - 1]
    IN upto[Len(ranges)]

\* Bug: what is inserted at the index itself does not move it.
AfterInsertingBefore(ranges, i) == i + CountUpTo(ranges, i - 1)
AfterInserting(ranges, i) == i + CountUpTo(ranges, i)

ItemsInserted(m, n, ranges) ==
    LET Moved(i) == IF i < 0 THEN 0 ELSE AfterInserting(ranges, i)
        current == IF m.current < 0 THEN SetCurrentItem(m, n, 0)
                   ELSE [m EXCEPT !.current = Moved(@)]
    IN Emit([current EXCEPT !.anchor = Moved(@),
                            !.selected = MoveAll(@, [i \in AsSet(@) |-> Moved(i)])],
            SelectedItems(m))

\* indexAfterRangesRemoving(); n is the number of items that are left.
AfterRemoving(ranges, n, i, adjust) ==
    LET within == {k \in UpTo(ranges, i) : i < Behind(ranges[k])}
        index == IF within = {} THEN i ELSE Behind(ranges[Min(within)])
    IN IF within # {} /\ ~adjust THEN -1
       ELSE Max({-1, Min({index - CountUpTo(ranges, i), n - 1})})

\* Bug: a removed current item is replaced by the first one.
ItemsRemovedFirst(m, n, ranges) ==
    LET Stays(i) == AfterRemoving(ranges, n, i, FALSE)
        anchor == IF m.anchor >= 0 THEN Stays(m.anchor) ELSE m.anchor
    IN Emit([m EXCEPT !.current = IF m.current >= 0 /\ Stays(@) < 0 THEN Min({0, n - 1}) ELSE Stays(@),
                      !.anchor = anchor, !.active = @ /\ (m.anchor >= 0 => anchor >= 0),
                      !.selected = MoveAll(@, [i \in AsSet(@) |-> Stays(i)])],
            SelectedItems(m))

\* Bug: an anchored selection goes on when its anchor is removed.
ItemsRemovedActive(m, n, ranges) ==
    LET Stays(i) == AfterRemoving(ranges, n, i, FALSE)
    IN Emit([m EXCEPT !.current = AfterRemoving(ranges, n, @, TRUE),
                      !.anchor = IF @ >= 0 THEN Stays(@) ELSE @,
                      !.selected = MoveAll(@, [i \in AsSet(@) |-> Stays(i)])],
            SelectedItems(m))

ItemsRemoved(m, n, ranges) ==
    LET Stays(i) == AfterRemoving(ranges, n, i, FALSE)
        current == IF Stays(m.current) # m.current /\ Stays(m.current) < 0
                   THEN AfterRemoving(ranges, n, m.current, TRUE)
                   ELSE Stays(m.current)
        anchor == IF m.anchor >= 0 THEN Stays(m.anchor) ELSE m.anchor
    IN Emit([m EXCEPT !.current = current, !.anchor = anchor,
                      !.active = @ /\ (m.anchor >= 0 => anchor >= 0),
                      !.selected = MoveAll(@, [i \in AsSet(@) |-> Stays(i)])],
            SelectedItems(m))

\* itemsMoved(): `to' gives the new index of each index of the range.
ItemsMoved(m, n, to) ==
    LET Moved(i) == IF i \in DOMAIN to THEN to[i] ELSE i
        ended == EndAnchoredSelection(m)
        begun == BeginAnchoredSelection([ended EXCEPT !.current = Moved(@)], n, Moved(m.current))
    IN Emit([begun EXCEPT !.selected = MoveAll(@, [i \in AsSet(@) |-> Moved(i)])],
            SelectedItems(m))

----------------------------------------------------------------------------
\* The model's signals, as KItemListView passes them on.

Quiet == Careful => ~mouse.held

\* KFileItemModel::insertItems(): the new items are merged into the old ones, whose
\* order stays; those before the old index p come as one range.
InsertItems ==
    \E list \in SetToAllKPermutations(Items) :
        LET Place(p) == IF p = count THEN Len(list) + 1
                        ELSE CHOOSE k \in DOMAIN list : list[k] = items[p + 1]
            new == [p \in 0 .. count |-> Place(p) - 1 - (IF p = 0 THEN 0 ELSE Place(p - 1))]
            ranges[p \in 0 .. count + 1] ==
                IF p = 0 THEN <<>>
                ELSE IF new[p - 1] = 0 THEN ranges[p - 1]
                ELSE Append(ranges[p - 1], KItemRange(p - 1, new[p - 1]))
        IN /\ ToSet(items) \subseteq ToSet(list) /\ Len(list) - count \in 1 .. Batch
           /\ \A p \in 1 .. count - 1 : Place(p - 1) < Place(p)
           /\ Quiet
           /\ items' = list
           /\ manager' = ItemsInserted(manager, Len(list), ranges[count + 1])
           /\ UNCHANGED mouse

\* KFileItemModel::removeItems(): the others move up.
RemoveItems ==
    \E gone \in SUBSET IndexSet :
        LET left[k \in 0 .. count] == IF k = 0 THEN <<>>
                                      ELSE IF k - 1 \in gone THEN left[k - 1]
                                      ELSE Append(left[k - 1], items[k])
        IN /\ gone # {} /\ Quiet
           /\ items' = left[count]
           /\ manager' = ItemsRemoved(manager, Len(items'), RangesOf(gone))
           /\ UNCHANGED mouse

\* KFileItemModel::resortAllItems(): first and last are the outermost that move.
ResortAllItems ==
    \E first, last \in IndexSet : \E to \in Bijection(first .. last, first .. last) :
        /\ first < last /\ to[first] # first /\ to[last] # last /\ Quiet
        /\ items' = [k \in 1 .. count |->
                        IF k - 1 \in first .. last
                        THEN items[1 + CHOOSE i \in first .. last : to[i] = k - 1] ELSE items[k]]
        /\ manager' = ItemsMoved(manager, count, to)
        /\ UNCHANGED mouse

----------------------------------------------------------------------------
\* KItemListController::keyPressEvent() and the actions of DolphinView.

Key(m) == Quiet /\ count > 0 /\ manager' = m /\ UNCHANGED <<items, mouse>>

\* Where the cursor keys, Home, End, Page Up and Page Down lead; how many rows
\* and columns there are depends on the size of the view.
KeyTargets == IndexSet \ {manager.current}

MoveCurrent(shift, control) ==
    \E i \in KeyTargets :
        LET ended == IF control THEN EndAnchoredSelection(manager) ELSE manager
            moved == SetCurrentItem(ended, count, i)
            only == IF shift \/ control THEN moved ELSE SelectOnly(moved, count, i)
        IN Key(IF shift THEN only ELSE BeginAnchoredSelection(only, count, i))

\* The same keys when there is one item.
SelectSingle == count = 1 /\ Key(Select(manager, count, manager.current))

\* Space with and without Control.
ToggleCurrent ==
    LET i == manager.current
    IN Key(BeginAnchoredSelection(Toggle(EndAnchoredSelection(manager), count, i), count, i))
SelectCurrent ==
    ~ContainsItem(SelectedItems(manager), manager.current) /\ Key(Select(manager, count, manager.current))

\* slotChangeCurrentItem(): the keyboard search finds an item.
ChangeCurrentItem ==
    \E i \in IndexSet :
        Key(BeginAnchoredSelection(SelectOnly(SetCurrentItem(manager, count, i), count, i), count, i))

Escape == Key(ClearSelection(manager))
SelectAll == Key(SetSelected(manager, count, 0, count, "Select"))
InvertSelection == Key(SetSelected(manager, count, 0, count, "Toggle"))

\* DolphinView::updateViewState(): the item to be current, those to be selected.
UpdateViewState ==
    \E i \in IndexSet, more \in SUBSET IndexSet :
        LET m == SetCurrentItem(manager, count, i)
        IN Key(SetSelectedItems(m, InsertAll(SelectedItems(m), Ascending(RangesOf(more)))))

Keys ==
    \/ \E shift, control \in BOOLEAN : MoveCurrent(shift, control)
    \/ SelectSingle \/ ToggleCurrent \/ SelectCurrent
    \/ ChangeCurrentItem
    \/ Escape \/ SelectAll \/ InvertSelection
    \/ UpdateViewState

----------------------------------------------------------------------------
\* mousePressEvent() on item i, on its selection toggle, or on none (-1).

PressToggle(i) ==
    /\ mouse' = [mouse EXCEPT !.pressed = i, !.toggle = TRUE, !.held = TRUE]
    /\ manager' = BeginAnchoredSelection(
                      SetCurrentItem(Toggle(manager, count, i), count, i), count, i)

\* clearSelection(), or the promise to do so on release, and endAnchoredSelection()
AtPress(i, shift, control) ==
    LET m == IF shift \/ control \/ ContainsItem(SelectedItems(manager), i)
             THEN manager ELSE ClearSelection(manager)
    IN IF shift THEN m ELSE EndAnchoredSelection(m)

PressItem(i, shift, control) ==
    LET m == SetCurrentItem(AtPress(i, shift, control), count, i)
        begin == ~shift \/ ~m.active
    IN /\ mouse' = [mouse EXCEPT !.pressed = i, !.toggle = FALSE, !.held = TRUE,
                        !.clear = @ \/ (~shift /\ ~control
                                        /\ ContainsItem(SelectedItems(manager), i))]
       /\ manager' = IF control /\ ~shift THEN BeginAnchoredSelection(Toggle(m, count, i), count, i)
                     ELSE IF begin THEN BeginAnchoredSelection(Select(m, count, i), count, i)
                     ELSE m

PressNowhere(shift, control) ==
    LET m == AtPress(-1, shift, control)
    IN /\ Careful => ~HasRange(m)
       /\ mouse' = [mouse EXCEPT !.pressed = -1, !.toggle = FALSE, !.held = TRUE,
                                 !.band = TRUE, !.old = SelectedItems(m)]
       /\ manager' = m

Press ==
    /\ ~mouse.held
    /\ \/ \E i \in IndexSet : PressToggle(i)
       \/ \E i \in IndexSet, shift, control \in BOOLEAN : PressItem(i, shift, control)
       \/ \E shift, control \in BOOLEAN : PressNowhere(shift, control)
    /\ UNCHANGED items

\* mouseMoveEvent() far enough from the press on an item: startDragging().
Drag ==
    LET chosen == ContainsItem(SelectedItems(manager), mouse.pressed)
    IN /\ mouse.held /\ mouse.pressed >= 0
       /\ manager' = IF chosen THEN manager ELSE Toggle(manager, count, mouse.pressed)
       /\ mouse' = [mouse EXCEPT !.clear = @ /\ ~chosen, !.held = FALSE]
       /\ UNCHANGED items

\* slotRubberBandChanged(), for the items that the band covers now.
BandChanged(m, covered, shift, control) ==
    LET old == IF shift \/ control THEN mouse.old ELSE <<>>
    IN /\ mouse' = [mouse EXCEPT !.old = old]
       /\ manager' = SetSelectedItems(m, IF control THEN Xor(old, covered) ELSE Plus(covered, old))

\* mouseMoveEvent() with the rubber band over item i or none, or a scroll (-1).
MoveBand ==
    \E i \in IndexSet \cup {-1}, covered \in SUBSET IndexSet, shift, control \in BOOLEAN :
        LET here == BeginAnchoredSelection(
                        SetCurrentItem(EndAnchoredSelection(manager), count, i), count, i)
        IN /\ mouse.held /\ mouse.band /\ mouse.pressed < 0 /\ count > 0
           /\ BandChanged(IF i >= 0 THEN here ELSE manager, RangesOf(covered), shift, control)
           /\ UNCHANGED items

\* mouseReleaseEvent(), above a selection toggle, which may have appeared since the
\* press (and m_clearSelectionIfItemsAreNotDragged stays), or no longer above the
\* one that was pressed.
ReleaseToggle ==
    /\ mouse.held /\ mouse.pressed >= 0
    /\ \/ UNCHANGED manager
       \/ mouse.toggle /\ manager' = Toggle(manager, count, mouse.pressed)
    /\ mouse' = [mouse EXCEPT !.toggle = FALSE, !.held = FALSE]
    /\ UNCHANGED items

\* ... and elsewhere, above item i or none.
Release ==
    \E i \in IndexSet \cup {-1} :
        /\ mouse.held /\ ~mouse.toggle
        /\ manager' = IF mouse.clear /\ i >= 0 /\ i = mouse.pressed
                      THEN BeginAnchoredSelection(SelectOnly(manager, count, i), count, i)
                      ELSE manager
        /\ mouse' = Up
        /\ UNCHANGED items

Next ==
    \/ InsertItems \/ RemoveItems \/ ResortAllItems
    \/ Keys
    \/ Press \/ Drag \/ MoveBand \/ ReleaseToggle \/ Release

Spec == Init /\ [][Next]_vars

----------------------------------------------------------------------------
\* Well-formedness: the selection is a valid KItemSet within the model, and so
\* are the current item and the anchor; a non-empty model has a current item; an
\* active anchored selection has both of its ends in the model, whatever was
\* inserted, removed or moved since it was begun (the assertions of
\* selectedItems(), isSelected() and endAnchoredSelection()).
TypeOK ==
    /\ ToSet(items) \subseteq Items /\ Cardinality(ToSet(items)) = count
    /\ manager.current \in -1 .. count - 1 /\ manager.anchor \in -1 .. count - 1
    /\ count > 0 => manager.current >= 0
    /\ manager.active => manager.anchor >= 0 /\ manager.current >= 0
    /\ \A s \in {manager.selected, manager.told} : IsValid(s)
    /\ AsSet(manager.selected) \subseteq IndexSet
    /\ IsValid(mouse.old) /\ AsSet(mouse.old) \subseteq Nat

\* Everybody who follows selectionChanged(), such as the widgets on the screen
\* and the status bar, shows the selection that the next operation works on.
ListenersKnow == manager.told = SelectedItems(manager)

\* KItemSet's lists of ranges behave as sets, for every selection that is reached
\* and any other set: insert(), remove(), operator+() and operator^() yield valid
\* lists of the union, difference, and so on.
SomeSets == {RangesOf(S) : S \in SUBSET (0 .. 5)}
SetsBehave ==
    LET chosen == AsSet(SelectedItems(manager))
    IN /\ \A more \in SUBSET {count + 1} :
            LET s == RangesOf(chosen \cup more)
            IN /\ IsValid(s) /\ ToSet(Ascending(s)) = AsSet(s)
                  /\ \A j, k \in DOMAIN Ascending(s) : j < k => Ascending(s)[j] < Ascending(s)[k]
               /\ \A i \in 0 .. count + 2 :
                    /\ Insert(s, i) = RangesOf(AsSet(s) \cup {i})
                    /\ RemoveItem(s, i) = RangesOf(AsSet(s) \ {i})
       /\ \A t \in SomeSets :
            /\ Plus(SelectedItems(manager), t) = RangesOf(chosen \cup AsSet(t))
            /\ Xor(SelectedItems(manager), t) = RangesOf(SymDiff(chosen, AsSet(t)))

ItemsAt(list, indexes) == {list[i + 1] : i \in indexes}
Explicit(list, m) == ItemsAt(list, AsSet(m.selected))
Chosen(list, m) == ItemsAt(list, AsSet(SelectedItems(m)))

\* When the model changes, the selection stays with the items and not with the
\* indexes: what was selected on its own and is still there is selected; and if
\* both ends of an anchored selection are still there, exactly the old items
\* that were selected are.
SelectionFollows ==
    [][items' # items =>
         LET kept == ToSet(items) \cap ToSet(items')
         IN /\ Explicit(items, manager) \cap kept \subseteq Chosen(items', manager')
            /\ (manager.active => ItemsAt(items, {manager.anchor, manager.current}) \subseteq kept)
                 => Chosen(items', manager') \cap kept = Chosen(items, manager) \cap kept]_vars

\* So does the current item; and when it is removed, the next item that is left
\* takes its place, or the last one when there is none.
CurrentFollows ==
    [][items' # items /\ items # <<>> /\ items' # <<>> =>
         LET next == {k \in manager.current + 1 .. count : items[k] \in ToSet(items')}
         IN items'[manager'.current + 1]
              = IF next # {} THEN items[Min(next)] ELSE Last(items')]_vars

==============================================================================
