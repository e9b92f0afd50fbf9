------------------------------ MODULE FolderModel ------------------------------
(****************************************************************************)
(* What a view of dolphin shows, as far as DirectoryCounter and             *)
(* VersionObserver share it: the items of KFileItemModel with their roles   *)
(* "size" and "version", and what these are about, the directories on disk  *)
(* and their states under version control.                                  *)
(*                                                                          *)
(* Abstracted: all items are directories, named by their paths; their order *)
(* (setData() and index() go by the item); all roles but these two.         *)
(****************************************************************************)
EXTENDS Integers, FiniteSets, Sequences

CONSTANTS
    Folders,     \* directories that the view can show
    Versioned,   \* those with a .git or .svn that searchPlugin() finds
    Remote,      \* those that are not local, or whose root item is null
    Dirs,        \* the directories in them
    Parent,      \* the folder of each
    Counts,      \* how many items a directory can have
    Versions,    \* what itemVersion() can answer
    None,        \* a role that is not set
    MaxEvents    \* bound: what users and other programs do

ASSUME FolderAssumption ==
    /\ Versioned \subseteq Folders \ Remote /\ Remote \subseteq Folders
    /\ Parent \in [Dirs -> Folders]
    /\ Counts # {} /\ Versions # {} /\ None \notin Counts \cup Versions
    /\ MaxEvents \in Nat

VARIABLES
    root,         \* rootItem()
    shown,        \* the items
    size,         \* their "size" role
    version,      \* their "version" role
    unresolved,   \* items whose roles KFileItemModelRolesUpdater has yet to resolve
    disk,         \* what subItemsCount() finds in a directory
    status,       \* what the plugin answers for an item
    events        \* how much the users and other programs did

modelVars == <<root, shown, size, version, unresolved>>
worldVars == <<disk, status, events>>

NoRole == [d \in Dirs |-> None]

\* Counts and versions are only compared, so all may be the same at first.
FolderInit ==
    /\ root \in Folders
    /\ shown = {} /\ size = NoRole /\ version = NoRole /\ unresolved = {}
    /\ disk = [d \in Dirs |-> CHOOSE c \in Counts : TRUE]
    /\ status = [d \in Dirs |-> CHOOSE v \in Versions : TRUE]
    /\ events = 0

FolderTypeOK ==
    /\ root \in Folders
    /\ shown \subseteq Dirs /\ unresolved \subseteq shown
    /\ \A d \in shown : Parent[d] = root
    /\ \A d \in Dirs \ shown : size[d] = None /\ version[d] = None
    /\ size \in [Dirs -> Counts \cup {None}] /\ version \in [Dirs -> Versions \cup {None}]
    /\ disk \in [Dirs -> Counts] /\ status \in [Dirs -> Versions]
    /\ events \in 0 .. MaxEvents

\* Bug: the index -1 of an item that is gone is not noticed.
SetDataGone(role, d, value) == [role EXCEPT ![d] = value]
\* setData(model->index(item), values): no effect on an item that is not shown.
SetData(role, d, value) == IF d \in shown THEN [role EXCEPT ![d] = value] ELSE role

Happens == events < MaxEvents /\ events' = events + 1

InsertItem(d) ==
    /\ Happens
    /\ d \notin shown /\ Parent[d] = root
    /\ shown' = shown \cup {d}
    /\ unresolved' = unresolved \cup {d}
    /\ UNCHANGED <<root, size, version, disk, status>>

\* Some items go, or all because the view opens another folder.
RemoveItems(gone, to) ==
    /\ Happens
    /\ gone # {} /\ gone \subseteq shown
    /\ to # root => gone = shown
    /\ root' = to
    /\ shown' = shown \ gone
    /\ unresolved' = unresolved \ gone
    /\ size' = [d \in Dirs |-> IF d \in gone THEN None ELSE size[d]]
    /\ version' = [d \in Dirs |-> IF d \in gone THEN None ELSE version[d]]
    /\ UNCHANGED <<disk, status>>

\* An empty folder is left for another.
OpenFolder(to) ==
    /\ Happens
    /\ shown = {} /\ to # root
    /\ root' = to
    /\ UNCHANGED <<shown, size, version, unresolved, disk, status>>

==============================================================================
