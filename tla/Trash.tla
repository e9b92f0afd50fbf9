-------------------------------- MODULE Trash --------------------------------
(****************************************************************************)
(* The trash of kioslave/trash: several kio_trash slave processes work on   *)
(* one trash directory at once.  A trashed item is a pair of directory      *)
(* entries with the same name, info/<name>.trashinfo and files/<name>; the  *)
(* "metadata" file caches the size of files/, and the key Status/Empty of   *)
(* trashrc tells the desktop which icon to show.                            *)
(*                                                                          *)
(* One step of a slave is one access to that shared state: a system call, a *)
(* section under the size cache's KLockFile, one KIO sub-job.  Every item   *)
(* has size 1.  Sub-paths of a trashed directory are not modelled, and      *)
(* there is one trash directory, so a name stands for (trashId, fileId).    *)
(****************************************************************************)
EXTENDS Integers, FiniteSets

CONSTANTS
    Slaves,       \* the kio_trash processes
    Names,        \* fileIds: the candidates of createInfo's naming loop
    Items,        \* user files; an item also names the path it starts at
    Dirs,         \* the items that are directories
    Stubborn,     \* the items no delete job can remove (files of other users)
    Requests,     \* the requests the users issue, a subset of AllRequests
    LimitAction,  \* "off", "warn" or "delete": ktrashrc's size limit
    Limit,        \* the size at which usage() reaches the limit
    TimeLimit,    \* ktrashrc's UseTimeLimit
    OneDevice,    \* items and trash share a file system: no EXDEV, move() renames
    Wrap,         \* number of values of a qulonglong
    MaxCrashes,   \* bound: how often a slave is killed in a behaviour
    None, Blank, Unsaved, Part

AllRequests == {"trash", "copy", "restore", "extract", "overwrite", "copyout",
                "del", "empty"}

ASSUME TrashAssumption ==
    /\ Dirs \subseteq Items /\ Stubborn \subseteq Items
    /\ Requests \subseteq AllRequests
    /\ LimitAction \in {"off", "warn", "delete"}
    /\ Limit \in Nat /\ Wrap \in Nat \ {0} /\ MaxCrashes \in Nat
    /\ TimeLimit \in BOOLEAN /\ OneDevice \in BOOLEAN
    /\ IsFiniteSet(Names)
    /\ None \notin Items \cup {Blank, Unsaved, Part}
    /\ Blank \notin Items \cup {Unsaved, Part}
    /\ Unsaved \notin Items
    /\ Part \notin Items
    /\ None \notin Names /\ None \notin 0 .. Wrap - 1

VARIABLES
    home,    \* what lies at each path outside the trash
    info,    \* info/<name>.trashinfo: absent, still unwritten, or the Path= in it;
             \* Unsaved is an empty file too, one that could not be written out
    files,   \* files/<name>
    cache,   \* metadata: Cached/Size, None while the key is missing
    empty,   \* trashrc: Status/Empty
    pc,      \* what each slave does next
    act,     \* the request it serves
    path,    \* the path outside the trash that the request is about
    nm,      \* the fileId the request is about
    ps,      \* pathSize or additionalSize
    vic,     \* the entry del() or emptyTrash() is working on
    vs,      \* del(): fileSize
    ret,     \* where del() returns to
    todo,    \* names still to visit in a loop over a directory listing
    kept,    \* emptyTrash(): unremoveableFiles
    crashes,
    asked    \* history: the items somebody asked to destroy

disk  == <<home, info, files, cache, empty>>
local == <<act, path, nm, ps, vic, vs, ret, todo, kept>>
vars  == <<disk, pc, local, crashes, asked>>

Contents == Items \cup {Part}
Written  == Items \cup {Unsaved}
Labels == {"idle", "write", "age", "aged", "fit", "victims", "check", "size",
           "init", "move", "clean", "add", "flag", "undo", "isEmpty",
           "setEmpty", "rmdest", "outsize", "outinit", "out", "outsub",
           "delinit", "delfile", "delsub", "delinfo", "empty", "edel",
           "einfo", "eclear", "orphans"}

Goto(s, l)  == pc' = [pc EXCEPT ![s] = l]
Put(f, s, v) == [f EXCEPT ![s] = v]

\* DiscSpaceUtil::sizeOfPath of one path and of the files/ directory.
SizeAt(dir, x) == IF dir[x] = None THEN 0 ELSE 1
SizeOfFiles    == Cardinality({n \in Names : files[n] # None})

\* TrashSizeCache::currentSize: the cached value, computed when it is missing.
CurrentSize == IF cache = None THEN SizeOfFiles % Wrap ELSE cache

Init ==
    /\ home = [p \in Items |-> p]
    /\ info = [n \in Names |-> None]
    /\ files = [n \in Names |-> None]
    /\ cache = None
    /\ empty = TRUE
    /\ pc = [s \in Slaves |-> "idle"]
    /\ act = [s \in Slaves |-> "none"]
    /\ path = [s \in Slaves |-> None]
    /\ nm = [s \in Slaves |-> None]
    /\ vic = [s \in Slaves |-> None]
    /\ ps = [s \in Slaves |-> 0]
    /\ vs = [s \in Slaves |-> 0]
    /\ ret = [s \in Slaves |-> "idle"]
    /\ todo = [s \in Slaves |-> {}]
    /\ kept = [s \in Slaves |-> {}]
    /\ crashes = 0
    /\ asked = {}

------------------------------------------------------------------------------
(* Requests.  finished() and error() both return the slave to "idle".       *)

\* The locals of a handler die with it.
Forget(s) ==
    /\ act' = Put(act, s, "none")
    /\ path' = Put(path, s, None)
    /\ nm' = Put(nm, s, None)
    /\ ps' = Put(ps, s, 0)
    /\ vic' = Put(vic, s, None)
    /\ vs' = Put(vs, s, 0)
    /\ ret' = Put(ret, s, "idle")
    /\ todo' = Put(todo, s, {})
    /\ kept' = Put(kept, s, {})

Finish(s) == Goto(s, "idle") /\ Forget(s)

\* copyOrMove, local to trash: createInfo lstats the source, then loops over
\* names until open(O_CREAT|O_EXCL) makes a new .trashinfo.  The loop tries the
\* item's own name and then what suggestName() offers: any free name.
\* Bug: open() without O_EXCL.
FreeNameNoExcl(n) == n \in Names
FreeName(n) == info[n] = None

CreateInfo(s, p, a) ==
    /\ pc[s] = "idle" /\ a \in Requests \cap {"trash", "copy"}
    /\ home[p] # None
    /\ \E n \in Names :
         /\ FreeName(n)
         /\ info' = Put(info, n, Blank)
         /\ nm' = Put(nm, s, n)
    /\ act' = Put(act, s, a)
    /\ path' = Put(path, s, p)
    /\ Goto(s, "write")
    /\ UNCHANGED <<home, files, cache, empty, ps, vic, vs, ret, todo, kept,
                   crashes, asked>>

\* fwrite of the .trashinfo and fclose.  fwrite fills stdio's buffer and sees
\* an error only when the path is longer than that: it removes the file and
\* fails.  It is fclose that writes, and nobody looks at its result: when the
\* disk is full the .trashinfo stays empty and the request goes on.
WriteInfo(s) ==
    /\ pc[s] = "write"
    /\ \/ /\ info' \in {Put(info, nm[s], path[s]), Put(info, nm[s], Unsaved)}
          /\ Goto(s, "age")
          /\ UNCHANGED local
       \/ /\ info' = Put(info, nm[s], None)
          /\ Finish(s)
    /\ UNCHANGED <<home, files, cache, empty, crashes, asked>>

\* TrashProtocol::restore and copyOrMove, trash to local, up to the first
\* access of TrashImpl.  restore() takes the destination from the .trashinfo,
\* a drop out of the trash names it; an existing one is an error or, with
\* Overwrite, is removed in a step of its own.
MoveOut(s, n, p, r) ==
    /\ pc[s] = "idle" /\ r \in Requests \cap {"restore", "extract", "overwrite"}
    /\ info[n] \in Items
    /\ r = "restore" => p = info[n]
    /\ (home[p] # None) <=> (r = "overwrite")
    /\ Goto(s, IF r = "overwrite" THEN "rmdest" ELSE "outsize")
    /\ asked' = asked \cup (IF r = "overwrite" THEN {home[p]} ELSE {})
    /\ path' = Put(path, s, p)
    /\ nm' = Put(nm, s, n)
    /\ UNCHANGED <<disk, act, ps, vic, vs, ret, todo, kept, crashes>>

\* What QFile::remove cannot remove: directories and what no job can delete.
Resists(x) == x \in Dirs \cup Stubborn \cup {Part}

\* QFile::remove of the destination: its result is only asserted.
RemoveDest(s) ==
    /\ pc[s] = "rmdest"
    /\ home' = IF Resists(home[path[s]]) THEN home
               ELSE Put(home, path[s], None)
    /\ Goto(s, "outsize")
    /\ UNCHANGED <<info, files, cache, empty, local, crashes, asked>>

\* copyFromTrash: one copy job that leaves the trash alone.
CopyFromTrash(s, n, p) ==
    /\ pc[s] = "idle" /\ "copyout" \in Requests
    /\ info[n] \in Items
    /\ files[n] # None /\ home[p] = None
    /\ home' = Put(home, p, files[n])
    /\ UNCHANGED <<info, files, cache, empty, pc, local, crashes, asked>>

\* del(): the size, then the lstat of the .trashinfo that must exist.
StartDel(s, n, from) ==
    /\ vic' = Put(vic, s, n)
    /\ ret' = Put(ret, s, from)
    /\ IF info[n] = None
       THEN Goto(s, from) /\ UNCHANGED <<vs, asked>>
       ELSE /\ Goto(s, "delinit")
            /\ vs' = Put(vs, s, SizeAt(files, n))
            /\ asked' = asked \cup ({files[n]} \cap Items)

RequestDel(s, n) ==
    /\ pc[s] = "idle" /\ "del" \in Requests
    /\ info[n] # None
    /\ StartDel(s, n, "idle")
    /\ UNCHANGED <<disk, act, path, nm, ps, todo, kept, crashes>>

\* list(): the entries whose .trashinfo can be read.
Listed == {n \in Names : info[n] \in Items}

\* emptyTrash() works on the listing it takes first.  Who empties the trash asks
\* for all that has a .trashinfo, also what cannot be listed.
RequestEmpty(s) ==
    /\ pc[s] = "idle" /\ "empty" \in Requests
    /\ todo' = Put(todo, s, Listed)
    /\ asked' = asked \cup ({files[n] : n \in {m \in Names : info[m] # None}} \cap Items)
    /\ Goto(s, "empty")
    /\ UNCHANGED <<disk, act, path, nm, ps, vic, vs, ret, kept, crashes>>

------------------------------------------------------------------------------
(* adaptTrashSize                                                           *)

\* UseTimeLimit: delete what is older than the limit.  Ages are not modelled:
\* any part of the listing may be old, except the entry just made.
AgeLimit(s) ==
    /\ pc[s] = "age"
    /\ IF TimeLimit
       THEN \E old \in SUBSET (Listed \ {nm[s]}) :
              Goto(s, "aged") /\ todo' = Put(todo, s, old)
       ELSE Goto(s, "fit") /\ UNCHANGED todo
    /\ UNCHANGED <<disk, act, path, nm, ps, vic, vs, ret, kept, crashes, asked>>

NextVictim(s, from, after) ==
    /\ pc[s] = from
    /\ IF todo[s] = {}
       THEN Goto(s, after) /\ UNCHANGED <<vic, vs, ret, asked, todo>>
       ELSE \E v \in todo[s] :
              /\ todo' = Put(todo, s, todo[s] \ {v})
              /\ StartDel(s, v, IF from = "victims" THEN "check" ELSE from)
    /\ UNCHANGED <<disk, act, path, nm, ps, kept, crashes>>

\* usage(trashSize.size() + additionalSize) >= percent
Full(additional) == CurrentSize + additional >= Limit

\* The size limit: refuse the request, or choose victims among files/.
SizeLimit(s) ==
    /\ pc[s] = "fit"
    /\ LET additional == SizeAt(home, path[s]) IN
       IF LimitAction = "off"
       THEN Goto(s, "size") /\ UNCHANGED <<ps, todo, cache>>
       ELSE /\ cache' = CurrentSize
            /\ ps' = Put(ps, s, additional)
            /\ IF ~Full(additional)
               THEN Goto(s, "size") /\ UNCHANGED todo
               ELSE IF LimitAction = "warn" \/ additional >= Limit
               THEN Goto(s, "undo") /\ UNCHANGED todo
               ELSE /\ todo' = Put(todo, s, {n \in Names : files[n] # None})
                    /\ Goto(s, "victims")
    /\ UNCHANGED <<home, info, files, empty, act, path, nm, vic, vs, ret, kept,
                   crashes, asked>>

CheckRoom(s) ==
    /\ pc[s] = "check"
    /\ cache' = CurrentSize
    /\ Goto(s, IF Full(ps[s]) THEN "victims" ELSE "size")
    /\ UNCHANGED <<home, info, files, empty, local, crashes, asked>>

------------------------------------------------------------------------------
(* moveToTrash, copyToTrash, moveFromTrash                                  *)

\* sizeOfPath before the transfer: of the source, which may be gone by then.
MeasureIn(s) ==
    /\ pc[s] = "size"
    /\ ps' = Put(ps, s, SizeAt(home, path[s]))
    /\ Goto(s, "init")
    /\ UNCHANGED <<disk, act, path, nm, vic, vs, ret, todo, kept, crashes, asked>>

MeasureOut(s) ==
    /\ pc[s] = "outsize"
    /\ ps' = Put(ps, s, SizeAt(files, nm[s]))
    /\ Goto(s, "outinit")
    /\ UNCHANGED <<disk, act, path, nm, vic, vs, ret, todo, kept, crashes, asked>>

\* Bug: no initialize(); add() scans files/ after the move.
InitializeLate(s) ==
    /\ \/ pc[s] = "init" /\ Goto(s, "move")
       \/ pc[s] = "outinit" /\ Goto(s, "out")
       \/ pc[s] = "delinit" /\ Goto(s, "delfile")
    /\ UNCHANGED <<disk, local, crashes, asked>>

\* TrashSizeCache::initialize before anything is moved or deleted.
Initialize(s) ==
    /\ \/ pc[s] = "init" /\ Goto(s, "move")
       \/ pc[s] = "outinit" /\ Goto(s, "out")
       \/ pc[s] = "delinit" /\ Goto(s, "delfile")
    /\ cache' = CurrentSize
    /\ UNCHANGED <<home, info, files, empty, local, crashes, asked>>

\* rename(2) replaces what it finds at the destination, unless that is a
\* directory; a directory cannot replace a file either.
CanRename(x, dest) ==
    x # None /\ (dest = None \/ (x \notin Dirs \cup {Part} /\ dest \notin Dirs \cup {Part}))

\* move() or copy() into files/.  A failed move may have left a copy behind
\* (moveAs, source not removable), a failed copy of a directory a part of it.
\* A copy job refuses an existing destination.
Transfer(s) ==
    LET x == home[path[s]]
        n == nm[s] IN
    /\ pc[s] = "move"
    /\ \/ /\ act[s] = "trash" /\ CanRename(x, files[n])
          /\ files' = Put(files, n, x)
          /\ home' = Put(home, path[s], None)
          /\ Goto(s, "add")
       \/ /\ act[s] = "trash"
          /\ files' \in {files} \cup
                (IF ~OneDevice /\ x # None /\ files[n] = None
                 THEN {Put(files, n, x)} ELSE {})
          /\ Goto(s, "clean") /\ UNCHANGED home
       \/ /\ act[s] = "copy" /\ x # None /\ files[n] = None
          /\ files' = Put(files, n, x)
          /\ Goto(s, "add") /\ UNCHANGED home
       \/ /\ act[s] = "copy"
          /\ files' \in {files} \cup
                (IF x \in Dirs \cup {Part} /\ files[n] = None
                 THEN {Put(files, n, Part)} ELSE {})
          /\ Goto(s, "undo") /\ UNCHANGED home
    /\ UNCHANGED <<info, cache, empty, local, crashes, asked>>

\* moveToTrash deletes the destination of a failed move.
CleanDest(s) ==
    /\ pc[s] = "clean"
    /\ files' = Put(files, nm[s], None)
    /\ Goto(s, "undo")
    /\ UNCHANGED <<home, info, cache, empty, local, crashes, asked>>

\* TrashSizeCache::add
AddSize(s) ==
    /\ pc[s] = "add"
    /\ cache' = (CurrentSize + ps[s]) % Wrap
    /\ Goto(s, "flag")
    /\ UNCHANGED <<home, info, files, empty, local, crashes, asked>>

\* fileAdded(): the trash is not empty any more; the request is done.
FileAdded(s) ==
    /\ pc[s] = "flag"
    /\ empty' = FALSE
    /\ Finish(s)
    /\ UNCHANGED <<home, info, files, cache, crashes, asked>>

\* moveFromTrash: on failure nothing is undone.
TransferOut(s) ==
    LET p == path[s]
        x == files[nm[s]] IN
    /\ pc[s] = "out"
    /\ \/ /\ CanRename(x, home[p])
          /\ home' = Put(home, p, x)
          /\ files' = Put(files, nm[s], None)
          /\ Goto(s, "outsub") /\ UNCHANGED local
       \/ Finish(s) /\ UNCHANGED <<home, files>>
    /\ UNCHANGED <<info, cache, empty, crashes, asked>>

\* Bug: a signed subtraction.
RemoveSizeSigned(s) ==
    /\ \/ /\ pc[s] = "outsub"
          /\ cache' = CurrentSize - ps[s]
          /\ Goto(s, "undo")
       \/ /\ pc[s] = "delsub"
          /\ cache' = CurrentSize - vs[s]
          /\ Goto(s, "delinfo")
    /\ UNCHANGED <<home, info, files, empty, local, crashes, asked>>

\* TrashSizeCache::remove: an unsigned subtraction.
RemoveSize(s) ==
    /\ \/ /\ pc[s] = "outsub"
          /\ cache' = (CurrentSize - ps[s]) % Wrap
          /\ Goto(s, "undo")
       \/ /\ pc[s] = "delsub"
          /\ cache' = (CurrentSize - vs[s]) % Wrap
          /\ Goto(s, "delinfo")
    /\ UNCHANGED <<home, info, files, empty, local, crashes, asked>>

\* Bug: deleteInfo() without fileRemoved().
DeleteInfoOnly(s) ==
    /\ pc[s] = "undo"
    /\ info' = Put(info, nm[s], None)
    /\ Finish(s)
    /\ UNCHANGED <<home, files, cache, empty, crashes, asked>>

\* deleteInfo(): fileRemoved() only when the .trashinfo was there.
DeleteInfo(s) ==
    /\ pc[s] = "undo"
    /\ info' = Put(info, nm[s], None)
    /\ IF info[nm[s]] = None
       THEN Finish(s)
       ELSE Goto(s, "isEmpty") /\ ret' = Put(ret, s, "idle")
            /\ UNCHANGED <<act, path, nm, ps, vic, vs, todo, kept>>
    /\ UNCHANGED <<home, files, cache, empty, crashes, asked>>

------------------------------------------------------------------------------
(* del(), emptyTrash(), fileRemoved()                                       *)

\* Back to the caller of del(), or to the end of the request.
Return(s) ==
    IF ret[s] = "idle" THEN Finish(s) ELSE Goto(s, ret[s]) /\ UNCHANGED local

\* Bug: the result of synchronousDel is ignored.
DelFileIgnore(s) ==
    /\ pc[s] = "delfile"
    /\ files' = IF files[vic[s]] \in Stubborn THEN files ELSE Put(files, vic[s], None)
    /\ Goto(s, "delsub") /\ UNCHANGED local
    /\ UNCHANGED <<home, info, cache, empty, crashes, asked>>

\* synchronousDel of the file: del() gives up when it fails, also when the
\* file does not exist.
DelFile(s) ==
    /\ pc[s] = "delfile"
    /\ IF files[vic[s]] \in Stubborn \cup {None}
       THEN Return(s) /\ UNCHANGED files
       ELSE /\ files' = Put(files, vic[s], None)
            /\ Goto(s, "delsub") /\ UNCHANGED local
    /\ UNCHANGED <<home, info, cache, empty, crashes, asked>>

DelInfo(s) ==
    /\ pc[s] = "delinfo"
    /\ info' = Put(info, vic[s], None)
    /\ Goto(s, "isEmpty")
    /\ UNCHANGED <<home, files, cache, empty, local, crashes, asked>>

\* fileRemoved(): isEmpty() looks at info/ only, the flag is written after it.
IsEmpty(s) ==
    /\ pc[s] = "isEmpty"
    /\ IF \A n \in Names : info[n] = None
       THEN Goto(s, "setEmpty") /\ UNCHANGED local
       ELSE Return(s)
    /\ UNCHANGED <<disk, crashes, asked>>

SetEmpty(s) ==
    /\ pc[s] = "setEmpty"
    /\ empty' = TRUE
    /\ Return(s)
    /\ UNCHANGED <<home, info, files, cache, crashes, asked>>

\* Bug: the iterator is not advanced.
EmptyNextStuck(s) ==
    /\ pc[s] = "empty"
    /\ IF todo[s] = {}
       THEN /\ todo' = Put(todo, s, {n \in Names : files[n] # None})
            /\ Goto(s, "orphans") /\ UNCHANGED vic
       ELSE \E n \in todo[s] :
              /\ vic' = Put(vic, s, n)
              /\ Goto(s, "edel") /\ UNCHANGED todo
    /\ UNCHANGED <<disk, act, path, nm, ps, vs, ret, kept, crashes, asked>>

\* emptyTrash(), the loop over the listing: the entry goes when its file could
\* be deleted or was not there; otherwise the file is unremoveable.
EmptyNext(s) ==
    /\ pc[s] = "empty"
    /\ IF todo[s] = {}
       THEN /\ todo' = Put(todo, s, {n \in Names : files[n] # None})
            /\ Goto(s, "orphans") /\ UNCHANGED vic
       ELSE \E n \in todo[s] :
              /\ vic' = Put(vic, s, n)
              /\ todo' = Put(todo, s, todo[s] \ {n})
              /\ Goto(s, "edel")
    /\ UNCHANGED <<disk, act, path, nm, ps, vs, ret, kept, crashes, asked>>

\* Bug: a file that is not there counts as unremoveable, as in del().
EmptyFileAbsentFails(s) ==
    /\ pc[s] = "edel"
    /\ IF files[vic[s]] \in Stubborn \cup {None}
       THEN Goto(s, "eclear") /\ kept' = Put(kept, s, kept[s] \cup {vic[s]})
            /\ UNCHANGED files
       ELSE Goto(s, "einfo") /\ files' = Put(files, vic[s], None)
            /\ UNCHANGED kept
    /\ UNCHANGED <<home, info, cache, empty, act, path, nm, ps, vic, vs, ret,
                   todo, crashes, asked>>

EmptyFile(s) ==
    /\ pc[s] = "edel"
    /\ IF files[vic[s]] \in Stubborn
       THEN Goto(s, "eclear") /\ kept' = Put(kept, s, kept[s] \cup {vic[s]})
            /\ UNCHANGED files
       ELSE Goto(s, "einfo") /\ files' = Put(files, vic[s], None)
            /\ UNCHANGED kept
    /\ UNCHANGED <<home, info, cache, empty, act, path, nm, ps, vic, vs, ret,
                   todo, crashes, asked>>

EmptyInfo(s) ==
    /\ pc[s] = "einfo"
    /\ info' = Put(info, vic[s], None)
    /\ Goto(s, "eclear")
    /\ UNCHANGED <<home, files, cache, empty, local, crashes, asked>>

\* TrashSizeCache::clear, for every entry, deleted or not.
ClearSize(s) ==
    /\ pc[s] = "eclear"
    /\ cache' = 0
    /\ Goto(s, "empty")
    /\ UNCHANGED <<home, info, files, empty, local, crashes, asked>>

\* The orphan cleanup: QFile::remove of every name that the second listing, of
\* files/, shows and that is not unremoveable.  A file whose .trashinfo could not
\* be written out was not in the first listing and goes like an orphan; its
\* .trashinfo stays.
CleanOrphan(s) ==
    /\ pc[s] = "orphans" /\ todo[s] # {}
    /\ \E n \in todo[s] :
         /\ todo' = Put(todo, s, todo[s] \ {n})
         /\ files' = IF n \in kept[s] \/ Resists(files[n]) THEN files
                     ELSE Put(files, n, None)
    /\ UNCHANGED <<home, info, cache, empty, pc, act, path, nm, ps, vic, vs, ret,
                   kept, crashes, asked>>

EndEmpty(s) ==
    /\ pc[s] = "orphans" /\ todo[s] = {}
    /\ Goto(s, "isEmpty")
    /\ UNCHANGED <<disk, local, crashes, asked>>

\* A slave is killed between two steps; what it did to the disk stays.
Crash(s) ==
    /\ pc[s] # "idle" /\ crashes < MaxCrashes
    /\ crashes' = crashes + 1
    /\ Finish(s)
    /\ UNCHANGED <<disk, asked>>

------------------------------------------------------------------------------
Request(s) ==
    \/ \E p \in Items, a \in {"trash", "copy"} : CreateInfo(s, p, a)
    \/ \E n \in Names, p \in Items, r \in {"restore", "extract", "overwrite"} :
         MoveOut(s, n, p, r)
    \/ \E n \in Names, p \in Items : CopyFromTrash(s, n, p)
    \/ \E n \in Names : RequestDel(s, n)
    \/ RequestEmpty(s)

\* The steps that serve a request a slave has accepted.
Serve(s) ==
    \/ WriteInfo(s) \/ AgeLimit(s) \/ NextVictim(s, "aged", "fit")
    \/ SizeLimit(s) \/ NextVictim(s, "victims", "size") \/ CheckRoom(s)
    \/ MeasureIn(s) \/ Initialize(s) \/ Transfer(s) \/ CleanDest(s)
    \/ AddSize(s) \/ FileAdded(s) \/ RemoveDest(s) \/ MeasureOut(s)
    \/ TransferOut(s) \/ RemoveSize(s) \/ DeleteInfo(s)
    \/ DelFile(s) \/ DelInfo(s) \/ IsEmpty(s) \/ SetEmpty(s)
    \/ EmptyNext(s) \/ EmptyFile(s) \/ EmptyInfo(s) \/ ClearSize(s)
    \/ CleanOrphan(s) \/ EndEmpty(s)

Next == \E s \in Slaves : Request(s) \/ Serve(s) \/ Crash(s)

Spec == Init /\ [][Next]_vars

\* A slave that is running a request keeps running.
FairSpec == Spec /\ \A s \in Slaves : WF_vars(Serve(s))

------------------------------------------------------------------------------
\* The range of every variable.
DiskOK ==
    /\ home \in [Items -> Contents \cup {None}]
    /\ info \in [Names -> Written \cup {None, Blank}]
    /\ files \in [Names -> Contents \cup {None}]
    /\ cache \in (0 .. Wrap - 1) \cup {None}
    /\ empty \in BOOLEAN

\* Where a slave serves a request about one path and one fileId.
WithItem == {"write", "age", "aged", "fit", "victims", "check", "size", "init",
             "move", "clean", "add", "flag", "undo", "rmdest", "outsize",
             "outinit", "out", "outsub"}
\* Where it is at work on one entry for del() or emptyTrash().
WithVictim == {"delinit", "delfile", "delsub", "delinfo", "edel", "einfo", "eclear"}

SlaveOK ==
    /\ pc \in [Slaves -> Labels]
    /\ act \in [Slaves -> {"trash", "copy", "none"}]
    /\ path \in [Slaves -> Items \cup {None}]
    /\ nm \in [Slaves -> Names \cup {None}]
    /\ ps \in [Slaves -> {0, 1}]
    /\ vic \in [Slaves -> Names \cup {None}]
    /\ vs \in [Slaves -> {0, 1}]
    /\ ret \in [Slaves -> {"idle", "aged", "check"}]
    /\ todo \in [Slaves -> SUBSET Names]
    /\ kept \in [Slaves -> SUBSET Names]
    /\ \A s \in Slaves : pc[s] \in WithItem \/ ret[s] # "idle" =>
                          path[s] \in Items /\ nm[s] \in Names
    /\ \A s \in Slaves : pc[s] \in WithVictim => vic[s] \in Names

TypeOK ==
    DiskOK /\ SlaveOK /\ crashes \in 0 .. MaxCrashes /\ asked \subseteq Contents

\* Nothing a user put in the trash is lost: an item lies somewhere, inside or
\* outside the trash, unless somebody asked to destroy it.
NoLoss ==
    \A i \in Items :
        \/ \E p \in Items : home[p] = i
        \/ \E n \in Names : files[n] = i
        \/ i \in asked

\* A trashed item can be found again: what lies in files/ has a .trashinfo that
\* was written, whenever a slave is killed (createInfo runs before the move, del
\* and emptyTrash delete the file before the .trashinfo).  Only an fclose that
\* fails unseen leaves an item there whose .trashinfo is empty.
FilesListed == \A n \in Names : files[n] \in Items => info[n] \in Written

\* The slave that is about to move an item to files/<name> is the only user of
\* that name: the rename has nothing to overwrite (O_EXCL in createInfo).
NoClobber ==
    \A s \in Slaves : pc[s] = "move" => files[nm[s]] \notin Items

At(l) == {s \in Slaves : pc[s] = l}

\* What the cache should hold: files/ without the items whose add() is still to
\* come or whose failed move is still to be cleaned up.
Due == SizeOfFiles - Cardinality(At("add"))
         - Cardinality({s \in At("clean") : files[nm[s]] # None})

\* The cached size counts every item once, whoever scans and adds, except that
\* each kill may leave one item uncounted.
CacheExact == cache # None => cache \in Due - crashes .. Due

\* With nothing running, Status/Empty says whether the trash has entries.
AllIdle == \A s \in Slaves : pc[s] = "idle"
FlagExact == AllIdle /\ crashes = 0 => (empty <=> \A n \in Names : info[n] = None)

\* What emptyTrash leaves: entries whose file could not be removed, and no file
\* without a readable entry but what QFile::remove cannot remove.
EmptyIsComplete ==
    [][\A s \in Slaves :
         pc[s] = "orphans" /\ pc'[s] = "isEmpty" =>
           \A n \in Names :
             /\ info[n] \in Items => files[n] \in Stubborn
             /\ files[n] # None /\ ~Resists(files[n]) => info[n] \in Items]_vars

\* Every request is answered.
RequestsEnd == \A s \in Slaves : pc[s] # "idle" ~> pc[s] = "idle"

\* trashimpl.cpp:546: "we certainly want to remove any file that has no
\* associated .trashinfo file": the orphan cleanup removes orphans only.
OnlyOrphansRemoved ==
    [][\A s \in Slaves, n \in Names :
         pc[s] = "orphans" /\ todo'[s] # todo[s] /\ files'[n] # files[n] =>
           info[n] \notin Items]_vars

\* Who may use a fileId.  A slave holds the name it is making an entry under
\* until the file has arrived, and the name of an entry whose file it took away
\* until the .trashinfo is gone.  (act is set while a slave trashes something.)
Making(s) ==
    /\ act[s] # "none" /\ pc[s] \notin {"add", "flag"}
    /\ pc[s] \in {"isEmpty", "setEmpty"} => ret[s] # "idle"
Dropping(s, n) ==
    \/ act[s] = "none" /\ pc[s] \in {"outsub", "undo"} /\ nm[s] = n
    \/ pc[s] \in {"delsub", "delinfo"} /\ vic[s] = n
Holds(s, n) == (Making(s) /\ nm[s] = n) \/ Dropping(s, n)

\* What each phase of a request is about, while nobody empties the trash.
PhaseOK(s) ==
    /\ pc[s] \notin {"empty", "edel", "einfo", "eclear", "orphans"}
    /\ act[s] = "none" => pc[s] \notin {"write", "age", "aged", "fit", "victims",
                          "check", "size", "init", "move", "clean", "add", "flag"}
    /\ act[s] # "none" => pc[s] \notin {"idle", "rmdest", "outsize", "outinit",
                                     "out", "outsub"}
    /\ ret[s] # "idle" => act[s] # "none" /\ pc[s] # "write"
    /\ act[s] # "none" /\ ret[s] = "idle" =>
         pc[s] \notin {"delinit", "delfile", "delsub", "delinfo"}
    /\ act[s] = "copy" => "copy" \in Requests

\* What a slave holds is listed and has no file, and it holds it for one purpose.
HoldsOK(s) ==
    /\ \A n \in Names : Holds(s, n) => info[n] # None /\ files[n] = None
    /\ Making(s) /\ pc[s] # "write" => info[nm[s]] \in Written
    /\ Making(s) => ~Dropping(s, nm[s])

\* One holder per name: an entry that is being made or taken away belongs to one
\* slave; every other file has a .trashinfo that was written.
OneHolder ==
    /\ \A p \in Items : home[p] # Part
    /\ \A n \in Names : files[n] # Part /\ (files[n] # None => info[n] \in Written)
    /\ \A s \in Slaves : PhaseOK(s) /\ HoldsOK(s)
    /\ \A s, t \in Slaves, n \in Names : Holds(s, n) /\ Holds(t, n) => s = t
===================================================================================
