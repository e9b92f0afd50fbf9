-------------------------------- MODULE History --------------------------------
(****************************************************************************)
(* What kate/part/undo promises of a document: a line of stops, on which    *)
(* undo goes one stop back and redo one stop forward.                       *)
(****************************************************************************)
EXTENDS Sequences, Naturals

VARIABLES
    past,   \* the texts undo goes back to, the nearest last
    now,    \* the text
    future, \* the texts redo goes forward to, the nearest first
    disk    \* the text loaded or saved last

Init == past = <<>> /\ future = <<>> /\ now = disk

\* The first change of an edit: there is nothing to redo any more.
Forget == future' = <<>> /\ UNCHANGED <<past, now, disk>>

\* An edit makes a stop of its own, or moves the last one; a stop that is on
\* disk is never moved.
Edit ==
    /\ future' = <<>>
    /\ now' # now
    /\ \/ past' = Append(past, now)
       \/ past # <<>> /\ now # disk /\ past' = past
    /\ UNCHANGED disk

Undo ==
    /\ past # <<>>
    /\ now' = past[Len(past)]
    /\ past' = SubSeq(past, 1, Len(past) - 1)
    /\ future' = <<now>> \o future
    /\ UNCHANGED disk

Redo ==
    /\ future # <<>>
    /\ now' = Head(future)
    /\ future' = Tail(future)
    /\ past' = Append(past, now)
    /\ UNCHANGED disk

Save == disk' = now /\ UNCHANGED <<past, now, future>>

Reload == now' = disk /\ past' = <<>> /\ future' = <<>> /\ UNCHANGED disk

Next == Forget \/ Edit \/ Undo \/ Redo \/ Save \/ Reload

Spec == Init /\ [][Next]_<<past, now, future, disk>>

==============================================================================
