--------------------------------- MODULE Folder ---------------------------------
(****************************************************************************)
(* A view of dolphin: KFileItemModel's items with the two helpers that give *)
(* them roles from other threads, DirectoryCounter and VersionObserver.     *)
(* They meet in the model's signals: a role that one sets is an             *)
(* itemsChanged() for the other, and for KFileItemModelRolesUpdater, which  *)
(* then asks for the size again.                                            *)
(****************************************************************************)
EXTENDS DirectoryCounter, VersionObserver

vars == <<modelVars, worldVars, counterVars, observerVars>>

Init == FolderInit /\ CounterInit /\ ObserverInit

\* setData() by KFileItemModelRolesUpdater: it disconnects itself, the observer
\* hears of roles that changed.
ItemsChanged ==
    IF size' # size THEN DelayedDirectoryVerification ELSE UNCHANGED observerVars

Insert(d) == InsertItem(d) /\ DelayedDirectoryVerification /\ UNCHANGED counterVars

Remove ==
    \E gone \in SUBSET shown, to \in Folders :
        /\ RemoveItems(gone, to)
        /\ SlotItemsRemoved(shown \ gone)
        /\ UNCHANGED observerVars
Open == \E to \in Folders : OpenFolder(to) /\ UNCHANGED <<counterVars, observerVars>>

DiskChanges(d) ==
    /\ Happens /\ ChangeDirectory(d)
    /\ UNCHANGED <<modelVars, status, observerVars>>
StatusChanges(d) ==
    /\ Happens /\ ChangeStatus(d)
    /\ UNCHANGED <<modelVars, disk, counterVars>>
SortRole(d) ==
    /\ Happens /\ ApplySortRole(d) /\ ItemsChanged
    /\ UNCHANGED <<root, shown, version, unresolved, disk, status>>

Count == CountDirectoryContents /\ UNCHANGED <<modelVars, worldVars, observerVars>>
Result ==
    /\ SlotResult /\ ItemsChanged
    /\ UNCHANGED <<root, shown, version, unresolved, worldVars>>
\* The icon, type and overlays of the item may be new to the model, or the same
\* as before.
Resolve(d) ==
    /\ AddDirectory(d)
    /\ DelayedDirectoryVerification \/ UNCHANGED observerVars
    /\ UNCHANGED <<root, shown, size, version, worldVars>>
Dirty(d) == SlotDirWatchDirty(d) /\ UNCHANGED <<modelVars, worldVars, observerVars>>

Verify == VerifyDirectory /\ UNCHANGED <<modelVars, worldVars, counterVars>>
Read(d) == ThreadReads(d) /\ UNCHANGED <<modelVars, worldVars, counterVars>>
Finished == SlotThreadFinished /\ UNCHANGED <<root, shown, size, worldVars, counterVars>>
Text == ShowText /\ UNCHANGED <<modelVars, worldVars, counterVars>>

\* What users and other programs do, and what the program does by itself.
Outside ==
    \/ Remove \/ Open \/ Text
    \/ \E d \in Dirs : Insert(d) \/ DiskChanges(d) \/ StatusChanges(d) \/ SortRole(d)
Inside ==
    \/ Count \/ Result \/ Verify \/ Finished
    \/ \E d \in Dirs : Resolve(d) \/ Dirty(d) \/ Read(d)
Next == Outside \/ Inside

Spec == Init /\ [][Next]_vars

\* Threads run, queued signals arrive, timers fire.
FairSpec == Spec /\ WF_vars(Inside)

----------------------------------------------------------------------------
TypeOK == FolderTypeOK /\ CounterTypeOK /\ ObserverTypeOK

\* A change of a role is not answered by changes for ever: when users and other
\* programs rest, so do the counter and the observer in the end, with all roles right.
Settled ==
    /\ ~busy /\ dirty = {} /\ unresolved = {}
    /\ ObserverIdle
    /\ \A d \in shown \ missed : size[d] = disk[d]
Settles == <>[]Settled

==============================================================================
