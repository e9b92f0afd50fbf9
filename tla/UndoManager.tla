------------------------------ MODULE UndoManager ------------------------------
(****************************************************************************)
(* kate/part/undo: the history of a document.  KateUndoManager keeps the    *)
(* groups of changes that can be undone and redone, decides which edits are *)
(* merged into one group, and says after undo and redo whether the document *)
(* is back at what was saved.  KateDocument drives it: edits, save, close   *)
(* and open again, and the modified flag that decides whether closing asks. *)
(*                                                                          *)
(* Abstracted: a text is a number, and an edit makes a text never seen      *)
(* before; a group knows the texts before and after it and the types of its *)
(* items.  Groups are compared by address, and a new group may be given the *)
(* address of a deleted one.                                                *)
(****************************************************************************)
EXTENDS Naturals, Sequences

CONSTANTS
    None,
    Groups,   \* the addresses of KateUndoGroups
    Types,    \* KateUndo::UndoType
    Reuse,    \* whether a new group may be where a group known at save time was
    MaxText   \* bound: the number of texts made

ASSUME UndoAssumption ==
    None \notin Groups /\ Reuse \in BOOLEAN /\ MaxText \in Nat

Texts == 0 .. MaxText
GroupStates == [from : Texts, to : Texts, types : SUBSET Types, safe : BOOLEAN]

VARIABLES
    text,          \* what the buffer holds
    disk,          \* what was loaded or saved last
    texts,         \* texts made so far
    modified,      \* KateDocument::isModified()
    undoItems, redoItems,
    group,         \* the groups that exist: texts before and after, types of the
                   \* items, m_safePoint
    current,       \* m_editCurrentUndo
    complex,       \* m_undoComplexMerge, m_undoMergeAllEdits
    lastUndoGroupWhenSaved, lastRedoGroupWhenSaved,
    docWasSavedWhenUndoWasEmpty, docWasSavedWhenRedoWasEmpty

saved == <<lastUndoGroupWhenSaved, lastRedoGroupWhenSaved,
           docWasSavedWhenUndoWasEmpty, docWasSavedWhenRedoWasEmpty>>
vars == <<text, disk, texts, modified, undoItems, redoItems, group, current,
          complex, saved>>

Last(s) == IF s = <<>> THEN None ELSE s[Len(s)]
Front(s) == [i \in 1 .. Len(s) - 1 |-> s[i]]
In(s) == {s[i] : i \in 1 .. Len(s)}

Init ==
    /\ text = 0 /\ disk = 0 /\ texts = 0 /\ modified = FALSE
    /\ undoItems = <<>> /\ redoItems = <<>>
    /\ group = [g \in {} |-> 0]
    /\ current = None /\ complex = FALSE
    /\ lastUndoGroupWhenSaved = None /\ lastRedoGroupWhenSaved = None
    /\ docWasSavedWhenUndoWasEmpty = TRUE /\ docWasSavedWhenRedoWasEmpty = TRUE

\* The groups of G are deleted.
Without(G) == [g \in DOMAIN group \ G |-> group[g]]

------------------------------------------------------------------------------
(* Edits                                                                    *)

EditStart ==
    /\ current = None
    /\ \E g \in Groups \ DOMAIN group :
         /\ Reuse \/ g \notin {lastUndoGroupWhenSaved, lastRedoGroupWhenSaved}
         /\ current' = g
         /\ group' = [h \in DOMAIN group \cup {g} |->
                        IF h = g THEN [from |-> text, to |-> text, types |-> {}, safe |-> FALSE]
                        ELSE group[h]]
    /\ UNCHANGED <<text, disk, texts, modified, undoItems, redoItems, complex, saved>>

Change(type) ==
    /\ current # None /\ texts < MaxText
    /\ texts' = texts + 1
    /\ text' = texts + 1
    /\ UNCHANGED <<disk, modified, undoItems, current, complex, saved>>

Grown(type) == [group[current] EXCEPT !.to = texts + 1, !.types = @ \cup {type}]

\* Bug: the groups are deleted but stay in the list.
AddUndoItemDangling(type) ==
    /\ Change(type)
    /\ group' = [Without(In(redoItems)) EXCEPT ![current] = Grown(type)]
    /\ UNCHANGED redoItems

\* Bug: what was undone can still be redone.
AddUndoItemKeepRedo(type) ==
    /\ Change(type)
    /\ group' = [group EXCEPT ![current] = Grown(type)]
    /\ UNCHANGED redoItems

\* slotTextInserted() and its like: the change joins the group, and what could
\* be redone is gone.
AddUndoItem(type) ==
    /\ Change(type)
    /\ group' = [Without(In(redoItems)) EXCEPT ![current] = Grown(type)]
    /\ redoItems' = <<>>

\* KateUndoGroup::merge(): whether the last group takes the items of the new one.
Merges(g, new) ==
    /\ ~group[g].safe
    /\ complex \/ \E type \in Types : group[g].types = {type} /\ group[new].types = {type}

Merged(g, new) ==
    [group[g] EXCEPT !.to = group[new].to, !.types = @ \cup group[new].types,
                     !.safe = group[new].safe]

\* Bug: a merged group is not deleted.
EditEndLeak ==
    /\ current # None
    /\ current' = None
    /\ modified' = (modified \/ group[current].types # {})
    /\ IF group[current].types = {}
       THEN group' = Without({current}) /\ UNCHANGED undoItems
       ELSE IF undoItems # <<>> /\ Merges(Last(undoItems), current)
       THEN /\ group' = [group EXCEPT ![Last(undoItems)] = Merged(Last(undoItems), current)]
            /\ UNCHANGED undoItems
       ELSE undoItems' = Append(undoItems, current) /\ UNCHANGED group
    /\ UNCHANGED <<text, disk, texts, redoItems, complex, saved>>

EditEnd ==
    /\ current # None
    /\ current' = None
    /\ modified' = (modified \/ group[current].types # {})
    /\ IF group[current].types = {}
       THEN group' = Without({current}) /\ UNCHANGED undoItems
       ELSE IF undoItems # <<>> /\ Merges(Last(undoItems), current)
       THEN /\ group' = [Without({current}) EXCEPT
                            ![Last(undoItems)] = Merged(Last(undoItems), current)]
            /\ UNCHANGED undoItems
       ELSE undoItems' = Append(undoItems, current) /\ UNCHANGED group
    /\ UNCHANGED <<text, disk, texts, redoItems, complex, saved>>

\* undoSafePoint(): no later edit is merged into the group.
Safe(g) == IF g = None THEN group ELSE [group EXCEPT ![g].safe = TRUE]
Latest == IF current # None THEN current ELSE Last(undoItems)

\* The cursor moves, something is pasted, replaced or recovered.
UndoSafePoint ==
    /\ group' = Safe(Latest)
    /\ UNCHANGED <<text, disk, texts, modified, undoItems, redoItems, current,
                   complex, saved>>

SetUndoMergeAllEdits(merge) ==
    /\ ~(merge /\ complex)
    /\ group' = Safe(Latest)
    /\ complex' = merge
    /\ UNCHANGED <<text, disk, texts, modified, undoItems, redoItems, current, saved>>

------------------------------------------------------------------------------
(* The modified flag                                                        *)

\* Bug: that the list was empty is not noted.
SetSavedEmpty(undo, redo) ==
    /\ lastUndoGroupWhenSaved' = IF undo # <<>> THEN Last(undo) ELSE lastUndoGroupWhenSaved
    /\ lastRedoGroupWhenSaved' = IF redo # <<>> THEN Last(redo) ELSE lastRedoGroupWhenSaved
    /\ docWasSavedWhenUndoWasEmpty' = (undo = <<>>)
    /\ UNCHANGED docWasSavedWhenRedoWasEmpty

\* setModified(false)
SetSaved(undo, redo) ==
    /\ lastUndoGroupWhenSaved' = IF undo # <<>> THEN Last(undo) ELSE lastUndoGroupWhenSaved
    /\ lastRedoGroupWhenSaved' = IF redo # <<>> THEN Last(redo) ELSE lastRedoGroupWhenSaved
    /\ docWasSavedWhenUndoWasEmpty' = (undo = <<>>)
    /\ docWasSavedWhenRedoWasEmpty' = (redo = <<>>)

Bit(b, n) == IF b THEN n ELSE 0
Pattern(undo, redo) ==
    Bit(undo = <<>>, 1) + Bit(redo = <<>>, 2)
    + Bit(docWasSavedWhenUndoWasEmpty, 4) + Bit(docWasSavedWhenRedoWasEmpty, 8)
    + Bit(lastUndoGroupWhenSaved = Last(undo), 16)
    + Bit(lastUndoGroupWhenSaved = Last(redo), 32)
    + Bit(lastRedoGroupWhenSaved = Last(undo), 64)
    + Bit(lastRedoGroupWhenSaved = Last(redo), 128)
Patterns == {5, 16, 21, 24, 26, 88, 90, 93, 133, 144, 149, 154, 165}

\* The undone or redone edit has set the flag; a known pattern resets it.
UpdateModified(undo, redo) ==
    IF Pattern(undo, redo) \in Patterns
    THEN modified' = FALSE /\ SetSaved(undo, redo) /\ group' = Safe(Last(undo))
    ELSE modified' = TRUE /\ UNCHANGED <<group, saved>>

Undo ==
    /\ current = None /\ undoItems # <<>>
    /\ text' = group[Last(undoItems)].from
    /\ undoItems' = Front(undoItems)
    /\ redoItems' = Append(redoItems, Last(undoItems))
    /\ UpdateModified(Front(undoItems), Append(redoItems, Last(undoItems)))
    /\ UNCHANGED <<disk, texts, current, complex>>

Redo ==
    /\ current = None /\ redoItems # <<>>
    /\ text' = group[Last(redoItems)].to
    /\ redoItems' = Front(redoItems)
    /\ undoItems' = Append(undoItems, Last(redoItems))
    /\ UpdateModified(Append(undoItems, Last(redoItems)), Front(redoItems))
    /\ UNCHANGED <<disk, texts, current, complex>>

\* Bug: the last group may still grow.
SaveMergeable ==
    /\ current = None
    /\ disk' = text /\ modified' = FALSE
    /\ SetSaved(undoItems, redoItems)
    /\ UNCHANGED <<text, texts, undoItems, redoItems, group, current, complex>>

\* saveFile() succeeds, and the part calls setModified(false).
Save ==
    /\ current = None
    /\ disk' = text /\ modified' = FALSE
    /\ group' = Safe(Last(undoItems))
    /\ SetSaved(undoItems, redoItems)
    /\ UNCHANGED <<text, texts, undoItems, redoItems, current, complex>>

\* closeUrl(), with clearUndo(), clearRedo() and setModified(false), and
\* openFile() of the same file.
Reload ==
    /\ current = None
    /\ text' = disk /\ modified' = FALSE
    /\ undoItems' = <<>> /\ redoItems' = <<>>
    /\ group' = Without(In(undoItems) \cup In(redoItems))
    /\ lastUndoGroupWhenSaved' = None /\ lastRedoGroupWhenSaved' = None
    /\ docWasSavedWhenUndoWasEmpty' = TRUE /\ docWasSavedWhenRedoWasEmpty' = TRUE
    /\ UNCHANGED <<disk, texts, current, complex>>

Next ==
    \/ EditStart \/ EditEnd \/ UndoSafePoint
    \/ \E type \in Types : AddUndoItem(type)
    \/ \E merge \in BOOLEAN : SetUndoMergeAllEdits(merge)
    \/ Undo \/ Redo \/ Save \/ Reload

Spec == Init /\ [][Next]_vars

------------------------------------------------------------------------------
\* The range of every variable; the lists hold groups that exist.
TypeOK ==
    /\ text \in Texts /\ disk \in Texts /\ texts \in Texts
    /\ modified \in BOOLEAN /\ complex \in BOOLEAN
    /\ DOMAIN group \subseteq Groups
    /\ group \in [DOMAIN group -> GroupStates]
    /\ undoItems \in Seq(DOMAIN group) /\ redoItems \in Seq(DOMAIN group)
    /\ current \in DOMAIN group \cup {None}
    /\ {lastUndoGroupWhenSaved, lastRedoGroupWhenSaved} \subseteq Groups \cup {None}
    /\ {docWasSavedWhenUndoWasEmpty, docWasSavedWhenRedoWasEmpty} \subseteq BOOLEAN

\* The manager owns raw pointers: a group is in one place of one list or is being
\* made, and one that is nowhere has been deleted.
Injective(s) == \A i, j \in 1 .. Len(s) : s[i] = s[j] => i = j
GroupsOwned ==
    /\ DOMAIN group = In(undoItems) \cup In(redoItems) \cup ({current} \ {None})
    /\ Injective(undoItems) /\ Injective(redoItems)
    /\ In(undoItems) \cap In(redoItems) = {}
    /\ current \notin In(undoItems) \cup In(redoItems)

\* Every group in the lists starts where the one before it ends, and the text is
\* between the two lists: undo and redo apply each group to the text it was made
\* for, across merges, discarded branches and groups being made.
Chained ==
    /\ \A i \in 2 .. Len(undoItems) : group[undoItems[i]].from = group[undoItems[i - 1]].to
    /\ \A i \in 2 .. Len(redoItems) : group[redoItems[i]].to = group[redoItems[i - 1]].from
    /\ redoItems # <<>> => group[Last(redoItems)].from = text
    /\ current # None => group[current].to = text
    /\ undoItems # <<>> =>
         group[Last(undoItems)].to = IF current # None THEN group[current].from ELSE text

\* "resetting the document to non-modified if all changes have been undone"
\* (kateundomanager.h): a document that closes without a question holds what is
\* on disk, and one that is back at what is on disk, by whatever undo, redo and
\* save, says so: the patterns of updateModified() are all there are.
ModifiedExact == current = None => (modified <=> text # disk)

\* The history is that of History: a stop that was saved is not merged away, so
\* undo and redo always come by it ("otherwise ... undo will never stop at the
\* saved state", KateDocument::saveFile).
H == INSTANCE History WITH
        past   <- [i \in 1 .. Len(undoItems) |-> group[undoItems[i]].from],
        now    <- IF current # None THEN group[current].from ELSE text,
        future <- [i \in 1 .. Len(redoItems) |->
                     group[redoItems[Len(redoItems) + 1 - i]].to]
HistoryKept == H!Spec

==============================================================================
