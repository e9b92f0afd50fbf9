----------------------------- MODULE TrashProofs -----------------------------
(* Proofs about Trash for any number of slaves, names and items. *)
EXTENDS Trash, FiniteSetTheorems, TLAPS

\* Sizes are natural numbers and the cached size never leaves its width.
LEMMA SizeType ==
    ASSUME DiskOK
    PROVE  /\ SizeOfFiles \in Nat
           /\ CurrentSize \in 0 .. Wrap - 1
           /\ \A x \in Int : x % Wrap \in 0 .. Wrap - 1
<1>1. IsFiniteSet({n \in Names : files[n] # None})
  BY TrashAssumption, FS_Subset
<1>2. SizeOfFiles \in Nat
  BY <1>1, FS_CardinalityType DEF SizeOfFiles
<1>3. \A x \in Int : x % Wrap \in 0 .. Wrap - 1
  BY TrashAssumption
<1> QED
  BY <1>2, <1>3 DEF CurrentSize, DiskOK

LEMMA InitType == Init => TypeOK
  BY TrashAssumption DEF Init, TypeOK, DiskOK, SlaveOK, Contents, Written, Labels, WithItem, WithVictim

\* The ends of a request and of del() keep the types of a slave's state.
LEMMA EndType ==
    ASSUME SlaveOK, NEW s \in Slaves
    PROVE  /\ Finish(s) => SlaveOK'
           /\ Return(s) => SlaveOK'
<1>1. Finish(s) => SlaveOK'
  BY DEF SlaveOK, Finish, Forget, Goto, Put, Labels, WithItem, WithVictim
<1>2. ASSUME Return(s), ret[s] # "idle" PROVE SlaveOK'
  <2>1. Goto(s, ret[s]) /\ UNCHANGED local
    BY <1>2 DEF Return
  <2>2. ret[s] \in {"aged", "check"}
    BY <1>2 DEF SlaveOK
  <2> QED
    BY <1>2, <2>1, <2>2 DEF SlaveOK, Goto, local, Labels, WithItem, WithVictim
<1> QED
  BY <1>1, <1>2 DEF Return

\* Accepting a request keeps the types.
LEMMA RequestType ==
    ASSUME TypeOK, NEW s \in Slaves, Request(s)
    PROVE  TypeOK'
<1> USE TrashAssumption
    DEF TypeOK, DiskOK, SlaveOK, Contents, Written, Labels, WithItem, WithVictim, Goto, Put, disk, local
<1>1. ASSUME NEW p \in Items, NEW a \in {"trash", "copy"}, CreateInfo(s, p, a)
      PROVE  TypeOK'
  BY <1>1 DEF CreateInfo
<1>2. ASSUME NEW n \in Names, NEW p \in Items,
             NEW r \in {"restore", "extract", "overwrite"}, MoveOut(s, n, p, r)
      PROVE  TypeOK'
  BY <1>2 DEF MoveOut
<1>3. ASSUME NEW n \in Names, NEW p \in Items, CopyFromTrash(s, n, p)
      PROVE  TypeOK'
  BY <1>3 DEF CopyFromTrash
<1>4. ASSUME NEW n \in Names, RequestDel(s, n)
      PROVE  TypeOK'
  BY <1>4 DEF RequestDel, StartDel, SizeAt
<1>5. ASSUME RequestEmpty(s)
      PROVE  TypeOK'
  BY <1>5 DEF RequestEmpty, Listed
<1> QED
  BY <1>1, <1>2, <1>3, <1>4, <1>5 DEF Request

\* Every step of an accepted request keeps the types: of the disk, of the
\* slaves' state, of the bounds.
LEMMA ServeDisk ==
    ASSUME TypeOK, NEW s \in Slaves, Serve(s)
    PROVE  DiskOK' /\ crashes' = crashes /\ asked' \subseteq Contents
<1> USE TrashAssumption, SizeType DEF TypeOK, DiskOK, SlaveOK, Contents, Written, Put, disk
<1>1. CASE WriteInfo(s)
  BY <1>1 DEF WriteInfo
<1>2. CASE AgeLimit(s)
  BY <1>2 DEF AgeLimit, Listed
<1>3. CASE NextVictim(s, "aged", "fit")
  BY <1>3 DEF NextVictim, StartDel, SizeAt
<1>4. CASE SizeLimit(s)
  BY <1>4 DEF SizeLimit, SizeAt
<1>5. CASE NextVictim(s, "victims", "size")
  BY <1>5 DEF NextVictim, StartDel, SizeAt
<1>6. CASE CheckRoom(s)
  BY <1>6 DEF CheckRoom
<1>7. CASE MeasureIn(s)
  BY <1>7 DEF MeasureIn, SizeAt
<1>8. CASE Initialize(s)
  BY <1>8 DEF Initialize
<1>9. CASE Transfer(s)
  BY <1>9 DEF Transfer, WithItem, CanRename
<1>10. CASE CleanDest(s)
  BY <1>10 DEF CleanDest
<1>11. CASE AddSize(s)
  BY <1>11 DEF AddSize
<1>12. CASE FileAdded(s)
  BY <1>12 DEF FileAdded
<1>13. CASE RemoveDest(s)
  BY <1>13 DEF RemoveDest
<1>14. CASE MeasureOut(s)
  BY <1>14 DEF MeasureOut, SizeAt
<1>15. CASE TransferOut(s)
  BY <1>15 DEF TransferOut, WithItem, CanRename
<1>16. CASE RemoveSize(s)
  BY <1>16 DEF RemoveSize
<1>17. CASE DeleteInfo(s)
  BY <1>17 DEF DeleteInfo
<1>18. CASE DelFile(s)
  BY <1>18 DEF DelFile
<1>19. CASE DelInfo(s)
  BY <1>19 DEF DelInfo
<1>20. CASE IsEmpty(s)
  BY <1>20 DEF IsEmpty
<1>21. CASE SetEmpty(s)
  BY <1>21 DEF SetEmpty
<1>22. CASE EmptyNext(s)
  BY <1>22 DEF EmptyNext
<1>23. CASE EmptyFile(s)
  BY <1>23 DEF EmptyFile
<1>24. CASE EmptyInfo(s)
  BY <1>24 DEF EmptyInfo
<1>25. CASE ClearSize(s)
  BY <1>25 DEF ClearSize
<1>26. CASE CleanOrphan(s)
  BY <1>26 DEF CleanOrphan
<1>27. CASE EndEmpty(s)
  BY <1>27 DEF EndEmpty
<1> QED
  BY <1>1, <1>2, <1>3, <1>4, <1>5, <1>6, <1>7, <1>8, <1>9, <1>10, <1>11, <1>12, <1>13, <1>14, <1>15, <1>16, <1>17, <1>18, <1>19, <1>20, <1>21, <1>22, <1>23, <1>24, <1>25, <1>26, <1>27 DEF Serve

LEMMA ServeSlave ==
    ASSUME TypeOK, NEW s \in Slaves, Serve(s)
    PROVE  SlaveOK'
<1> USE EndType DEF TypeOK
<1>1. CASE WriteInfo(s)
  BY <1>1 DEF WriteInfo, SlaveOK, Labels, WithItem, WithVictim, Goto, Put, local
<1>2. CASE AgeLimit(s)
  BY <1>2 DEF AgeLimit, Listed, SlaveOK, Labels, WithItem, WithVictim, Goto, Put, local
<1>3. CASE NextVictim(s, "aged", "fit")
  BY <1>3 DEF NextVictim, StartDel, SizeAt, SlaveOK, Labels, WithItem, WithVictim, Goto, Put, local
<1>4. CASE SizeLimit(s)
  BY <1>4 DEF SizeLimit, SizeAt, SlaveOK, Labels, WithItem, WithVictim, Goto, Put, local
<1>5. CASE NextVictim(s, "victims", "size")
  BY <1>5 DEF NextVictim, StartDel, SizeAt, SlaveOK, Labels, WithItem, WithVictim, Goto, Put, local
<1>6. CASE CheckRoom(s)
  BY <1>6 DEF CheckRoom, SlaveOK, Labels, WithItem, WithVictim, Goto, Put, local
<1>7. CASE MeasureIn(s)
  BY <1>7 DEF MeasureIn, SizeAt, SlaveOK, Labels, WithItem, WithVictim, Goto, Put, local
<1>8. CASE Initialize(s)
  BY <1>8 DEF Initialize, SlaveOK, Labels, WithItem, WithVictim, Goto, local
<1>9. CASE Transfer(s)
  BY <1>9 DEF Transfer, SlaveOK, Labels, WithItem, WithVictim, Goto, Put, local
<1>10. CASE CleanDest(s)
  BY <1>10 DEF CleanDest, SlaveOK, Labels, WithItem, WithVictim, Goto, Put, local
<1>11. CASE AddSize(s)
  BY <1>11 DEF AddSize, SlaveOK, Labels, WithItem, WithVictim, Goto, Put, local
<1>12. CASE FileAdded(s)
  BY <1>12 DEF FileAdded, SlaveOK, Labels, WithItem, WithVictim, Goto, Put, local
<1>13. CASE RemoveDest(s)
  BY <1>13 DEF RemoveDest, SlaveOK, Labels, WithItem, WithVictim, Goto, Put, local
<1>14. CASE MeasureOut(s)
  BY <1>14 DEF MeasureOut, SizeAt, SlaveOK, Labels, WithItem, WithVictim, Goto, Put, local
<1>15. CASE TransferOut(s)
  BY <1>15 DEF TransferOut, SlaveOK, Labels, WithItem, WithVictim, Goto, Put, local
<1>16. CASE RemoveSize(s)
  BY <1>16 DEF RemoveSize, SlaveOK, Labels, WithItem, WithVictim, Goto, Put, local
<1>17. CASE DeleteInfo(s)
  BY <1>17 DEF DeleteInfo, SlaveOK, Labels, WithItem, WithVictim, Goto, Put, local
<1>18. CASE DelFile(s)
  BY <1>18 DEF DelFile, SlaveOK, Labels, WithItem, WithVictim, Goto, Put, local
<1>19. CASE DelInfo(s)
  BY <1>19 DEF DelInfo, SlaveOK, Labels, WithItem, WithVictim, Goto, Put, local
<1>20. CASE IsEmpty(s)
  BY <1>20 DEF IsEmpty, SlaveOK, Labels, WithItem, WithVictim, Goto, Put, local
<1>21. CASE SetEmpty(s)
  BY <1>21 DEF SetEmpty, SlaveOK, Labels, WithItem, WithVictim, Goto, Put, local
<1>22. CASE EmptyNext(s)
  BY <1>22 DEF EmptyNext, SlaveOK, Labels, WithItem, WithVictim, Goto, Put, local
<1>23. CASE EmptyFile(s)
  <2>1. CASE files[vic[s]] \in Stubborn
    BY <1>23, <2>1 DEF EmptyFile, SlaveOK, Labels, WithItem, WithVictim, Goto, Put
  <2>2. CASE files[vic[s]] \notin Stubborn
    BY <1>23, <2>2 DEF EmptyFile, SlaveOK, Labels, WithItem, WithVictim, Goto
  <2> QED
    BY <2>1, <2>2
<1>24. CASE EmptyInfo(s)
  BY <1>24 DEF EmptyInfo, SlaveOK, Labels, WithItem, WithVictim, Goto, Put, local
<1>25. CASE ClearSize(s)
  BY <1>25 DEF ClearSize, SlaveOK, Labels, WithItem, WithVictim, Goto, Put, local
<1>26. CASE CleanOrphan(s)
  BY <1>26 DEF CleanOrphan, SlaveOK, Labels, WithItem, WithVictim, Goto, Put, local
<1>27. CASE EndEmpty(s)
  BY <1>27 DEF EndEmpty, SlaveOK, Labels, WithItem, WithVictim, Goto, Put, local
<1> QED
  BY <1>1, <1>2, <1>3, <1>4, <1>5, <1>6, <1>7, <1>8, <1>9, <1>10, <1>11, <1>12, <1>13, <1>14, <1>15, <1>16, <1>17, <1>18, <1>19, <1>20, <1>21, <1>22, <1>23, <1>24, <1>25, <1>26, <1>27 DEF Serve

\* Every variable stays in its range, whatever the slaves do and whenever one
\* is killed; the cached size in particular never leaves the width of its type.
THEOREM TypeCorrect == Spec => []TypeOK
<1>1. Init => TypeOK
  BY InitType
<1>2. TypeOK /\ [Next]_vars => TypeOK'
  <2> SUFFICES ASSUME TypeOK, [Next]_vars PROVE TypeOK'
    OBVIOUS
  <2>1. ASSUME NEW s \in Slaves, Crash(s) PROVE TypeOK'
    BY <2>1, TrashAssumption, EndType DEF TypeOK, DiskOK, Crash, disk
  <2>2. CASE UNCHANGED vars
    BY <2>2 DEF TypeOK, DiskOK, SlaveOK, vars, disk, local
  <2>3. ASSUME NEW s \in Slaves, Serve(s) PROVE TypeOK'
    BY <2>3, ServeDisk, ServeSlave DEF TypeOK
  <2> QED
    BY <2>1, <2>2, <2>3, RequestType DEF Next
<1> QED
  BY <1>1, <1>2, PTL DEF Spec

------------------------------------------------------------------------------
(* The names.  While nobody empties the trash and every file comes from the   *)
(* trash's own file system, O_EXCL gives each fileId to one slave at a time.  *)

NoEmptying ==
    "empty" \notin Requests /\ OneDevice /\ ("copy" \in Requests => Dirs = {})

LEMMA InitHolder == Init => OneHolder
<1> SUFFICES ASSUME Init PROVE OneHolder
  OBVIOUS
<1>1. \A s \in Slaves : PhaseOK(s) /\ ~Making(s) /\ \A n : ~Dropping(s, n)
  BY DEF Init, PhaseOK, Making, Dropping
<1> QED
  BY <1>1, TrashAssumption DEF Init, OneHolder, HoldsOK, Holds

\* Nobody but s changes what it is doing.
Alone(s) ==
    \A t \in Slaves \ {s} : /\ pc'[t] = pc[t] /\ act'[t] = act[t] /\ nm'[t] = nm[t]
                            /\ vic'[t] = vic[t] /\ ret'[t] = ret[t]

LEMMA MakingKnowsName ==
    ASSUME TypeOK, NEW s \in Slaves, PhaseOK(s), Making(s)
    PROVE  nm[s] \in Names /\ path[s] \in Items
  BY DEF TypeOK, SlaveOK, PhaseOK, Making, Labels, WithItem

\* A step of s keeps the invariant when it leaves s in order, and touches and
\* takes only names that nobody else holds.
LEMMA StepHolder ==
    ASSUME TypeOK, OneHolder, NEW s \in Slaves, Alone(s), PhaseOK(s)', HoldsOK(s)',
           \A p \in Items : home'[p] # Part,
           \A n \in Names : files'[n] # Part /\ (files'[n] # None => info'[n] \in Written),
           \A n \in Names : Holds(s, n)' \/ info'[n] # info[n] \/ files'[n] # files[n]
                             => \A t \in Slaves \ {s} : ~Holds(t, n)
    PROVE  OneHolder'
<1>1. ASSUME NEW t \in Slaves \ {s}
      PROVE  /\ PhaseOK(t)' <=> PhaseOK(t)
             /\ Making(t)' <=> Making(t)
             /\ \A n : Dropping(t, n)' <=> Dropping(t, n)
             /\ \A n : Holds(t, n)' <=> Holds(t, n)
             /\ nm'[t] = nm[t] /\ pc'[t] = pc[t]
  BY DEF Alone, PhaseOK, Holds, Making, Dropping
<1>2. ASSUME NEW t \in Slaves \ {s}
      PROVE  HoldsOK(t)'
  <2>1. \A n \in Names : Holds(t, n)' => info'[n] = info[n] /\ files'[n] = files[n]
    BY <1>1
  <2>2. Making(t)' /\ pc'[t] # "write" => info'[nm'[t]] \in Written
    BY <1>1, <2>1, MakingKnowsName DEF OneHolder, HoldsOK, Holds
  <2> QED
    BY <1>1, <2>1, <2>2 DEF HoldsOK, OneHolder
<1>3. \A t \in Slaves : PhaseOK(t)' /\ HoldsOK(t)'
  BY <1>1, <1>2 DEF OneHolder
<1>4. \A t, u \in Slaves, n \in Names : Holds(t, n)' /\ Holds(u, n)' => t = u
  BY <1>1 DEF OneHolder
<1> QED
  BY <1>3, <1>4 DEF OneHolder

\* A step that leaves info/ and files/ alone and holds nothing new keeps it too.
Keeps(s) ==
    /\ Alone(s) /\ UNCHANGED <<info, files>>
    /\ \A p \in Items : home'[p] # Part
    /\ Making(s)' => Making(s) /\ nm'[s] = nm[s] /\ pc[s] # "write"
    /\ \A n : Dropping(s, n)' => Dropping(s, n)

LEMMA QuietHolder ==
    ASSUME TypeOK, OneHolder, NEW s \in Slaves, PhaseOK(s)', Keeps(s)
    PROVE  OneHolder'
<1>1. \A n : Holds(s, n)' => Holds(s, n)
  BY DEF Keeps, Holds
<1>2. HoldsOK(s)'
  BY <1>1 DEF OneHolder, HoldsOK, Keeps
<1> QED
  BY <1>1, <1>2, StepHolder DEF OneHolder, Keeps

\* The end of a request, and the return from del() to adaptTrashSize.
LEMMA ReturnKeeps ==
    ASSUME TypeOK, OneHolder, NEW s \in Slaves, UNCHANGED <<home, info, files>>
    PROVE  /\ Finish(s) => PhaseOK(s)' /\ Keeps(s)
           /\ Return(s) /\ pc[s] \in {"delfile", "isEmpty", "setEmpty"}
                => PhaseOK(s)' /\ Keeps(s)
<1> USE DEF TypeOK, SlaveOK, OneHolder
<1>1. ASSUME Finish(s) PROVE PhaseOK(s)' /\ Keeps(s)
  <2>1. pc'[s] = "idle" /\ act'[s] = "none" /\ ret'[s] = "idle" /\ Alone(s)
    BY <1>1 DEF Finish, Forget, Goto, Put, Alone
  <2>2. ~Making(s)' /\ \A n : ~Dropping(s, n)'
    BY <2>1 DEF Making, Dropping
  <2> QED
    BY <2>1, <2>2 DEF PhaseOK, Keeps
<1>2. ASSUME Return(s), ret[s] # "idle", pc[s] \in {"delfile", "isEmpty", "setEmpty"}
      PROVE  PhaseOK(s)' /\ Keeps(s)
  <2>1. ret[s] \in {"aged", "check"} /\ act[s] # "none"
    BY <1>2 DEF PhaseOK
  <2>2. pc'[s] = ret[s] /\ UNCHANGED local /\ Alone(s)
    BY <1>2 DEF Return, Goto, local, Alone
  <2>3. Making(s) /\ \A n : ~Dropping(s, n)'
    BY <1>2, <2>1, <2>2 DEF Making, Dropping, local
  <2> QED
    BY <1>2, <2>1, <2>2, <2>3 DEF PhaseOK, Keeps, local
<1> QED
  BY <1>1, <1>2 DEF Return

LEMMA RequestHolder ==
    ASSUME NoEmptying, TypeOK, OneHolder, NEW s \in Slaves, Request(s)
    PROVE  OneHolder'
<1> USE TrashAssumption DEF TypeOK, DiskOK, SlaveOK, OneHolder, Written
<1>1. ASSUME NEW p \in Items, NEW a \in {"trash", "copy"}, CreateInfo(s, p, a)
      PROVE  OneHolder'
  <2>1. PICK n \in Names : info[n] = None /\ info' = Put(info, n, Blank) /\ nm' = Put(nm, s, n)
    BY <1>1 DEF CreateInfo, FreeName
  <2>2. Alone(s) /\ PhaseOK(s)' /\ UNCHANGED <<home, files>>
    BY <1>1, <2>1 DEF CreateInfo, Alone, PhaseOK, Goto, Put
  <2>3. nm'[s] = n /\ pc'[s] = "write" /\ \A m : ~Dropping(s, m)'
    BY <1>1, <2>1 DEF CreateInfo, Dropping, Goto, Put
  <2>4. files[n] = None /\ info'[n] = Blank /\ \A t \in Slaves : ~Holds(t, n)
    BY <2>1 DEF HoldsOK, Put
  <2>5. HoldsOK(s)' /\ \A m \in Names : Holds(s, m)' => m = n
    BY <2>2, <2>3, <2>4 DEF HoldsOK, Holds
  <2>6. \A m \in Names : info'[m] # info[m] => m = n
    BY <2>1 DEF Put
  <2>7. \A m \in Names : files'[m] # Part /\ (files'[m] # None => info'[m] \in Written)
    BY <2>2, <2>4, <2>6
  <2>8. \A m \in Names : Holds(s, m)' \/ info'[m] # info[m] \/ files'[m] # files[m]
                           => \A t \in Slaves \ {s} : ~Holds(t, m)
    BY <2>2, <2>4, <2>5, <2>6
  <2> QED
    BY <2>2, <2>5, <2>7, <2>8, StepHolder
<1>2. ASSUME NEW n \in Names, NEW p \in Items,
             NEW r \in {"restore", "extract", "overwrite"}, MoveOut(s, n, p, r)
      PROVE  OneHolder'
  <2>1. PhaseOK(s)'
    BY <1>2 DEF MoveOut, PhaseOK, Goto, Put, local
  <2>2. Keeps(s)
    BY <1>2 DEF MoveOut, PhaseOK, Keeps, Alone, Making, Dropping, Goto, Put, disk, local
  <2> QED
    BY <2>1, <2>2, QuietHolder
<1>3. ASSUME NEW n \in Names, NEW p \in Items, CopyFromTrash(s, n, p)
      PROVE  OneHolder'
  <2>1. PhaseOK(s)'
    BY <1>3 DEF CopyFromTrash, PhaseOK, Goto, Put, local
  <2>2. Keeps(s)
    BY <1>3 DEF CopyFromTrash, PhaseOK, Keeps, Alone, Making, Dropping, Goto, Put, disk, local
  <2> QED
    BY <2>1, <2>2, QuietHolder
<1>4. ASSUME NEW n \in Names, RequestDel(s, n)
      PROVE  OneHolder'
  <2>1. PhaseOK(s)'
    BY <1>4 DEF RequestDel, StartDel, PhaseOK, Goto, Put, local
  <2>2. Keeps(s)
    BY <1>4 DEF RequestDel, StartDel, PhaseOK, Keeps, Alone, Making, Dropping, Goto, Put, disk, local
  <2> QED
    BY <2>1, <2>2, QuietHolder
<1> QED
  BY <1>1, <1>2, <1>3, <1>4 DEF Request, RequestEmpty, NoEmptying

LEMMA CrashHolder ==
    ASSUME TypeOK, OneHolder, NEW s \in Slaves, Crash(s)
    PROVE  OneHolder'
  BY ReturnKeeps, QuietHolder DEF Crash, disk

\* The steps of a request that leave info/ and files/ alone.
LEMMA QuietServe ==
    ASSUME TypeOK, OneHolder, NEW s \in Slaves,
           \/ AgeLimit(s) \/ NextVictim(s, "aged", "fit")
           \/ SizeLimit(s) \/ NextVictim(s, "victims", "size") \/ CheckRoom(s)
           \/ MeasureIn(s) \/ Initialize(s) \/ AddSize(s) \/ FileAdded(s)
           \/ RemoveDest(s) \/ MeasureOut(s) \/ RemoveSize(s)
           \/ IsEmpty(s) \/ SetEmpty(s)
    PROVE  OneHolder'
<1> USE TrashAssumption DEF TypeOK, DiskOK, SlaveOK, OneHolder, Written
<1>1. CASE AgeLimit(s)
  <2>1. PhaseOK(s)'
    BY <1>1 DEF AgeLimit, PhaseOK, Goto, Put, local
  <2>2. Keeps(s)
    BY <1>1 DEF AgeLimit, PhaseOK, Keeps, Alone, Making, Dropping, Goto, Put, disk, local
  <2> QED
    BY <2>1, <2>2, QuietHolder
<1>2. CASE NextVictim(s, "aged", "fit")
  <2>1. PhaseOK(s)'
    BY <1>2 DEF NextVictim, StartDel, PhaseOK, Goto, Put, local
  <2>2. Keeps(s)
    BY <1>2 DEF NextVictim, StartDel, PhaseOK, Keeps, Alone, Making, Dropping, Goto, Put, disk, local
  <2> QED
    BY <2>1, <2>2, QuietHolder
<1>3. CASE SizeLimit(s)
  <2>1. PhaseOK(s)'
    BY <1>3 DEF SizeLimit, PhaseOK, Goto, Put, local
  <2>2. Keeps(s)
    BY <1>3 DEF SizeLimit, PhaseOK, Keeps, Alone, Making, Dropping, Goto, Put, disk, local
  <2> QED
    BY <2>1, <2>2, QuietHolder
<1>4. CASE NextVictim(s, "victims", "size")
  <2>1. PhaseOK(s)'
    BY <1>4 DEF NextVictim, StartDel, PhaseOK, Goto, Put, local
  <2>2. Keeps(s)
    BY <1>4 DEF NextVictim, StartDel, PhaseOK, Keeps, Alone, Making, Dropping, Goto, Put, disk, local
  <2> QED
    BY <2>1, <2>2, QuietHolder
<1>5. CASE CheckRoom(s)
  <2>1. PhaseOK(s)'
    BY <1>5 DEF CheckRoom, PhaseOK, Goto, Put, local
  <2>2. Keeps(s)
    BY <1>5 DEF CheckRoom, PhaseOK, Keeps, Alone, Making, Dropping, Goto, Put, disk, local
  <2> QED
    BY <2>1, <2>2, QuietHolder
<1>6. CASE MeasureIn(s)
  <2>1. PhaseOK(s)'
    BY <1>6 DEF MeasureIn, PhaseOK, Goto, Put, local
  <2>2. Keeps(s)
    BY <1>6 DEF MeasureIn, PhaseOK, Keeps, Alone, Making, Dropping, Goto, Put, disk, local
  <2> QED
    BY <2>1, <2>2, QuietHolder
<1>7. CASE Initialize(s)
  <2>1. PhaseOK(s)'
    BY <1>7 DEF Initialize, PhaseOK, Goto, Put, local
  <2>2. Keeps(s)
    BY <1>7 DEF Initialize, PhaseOK, Keeps, Alone, Making, Dropping, Goto, Put, disk, local
  <2> QED
    BY <2>1, <2>2, QuietHolder
<1>8. CASE AddSize(s)
  <2>1. PhaseOK(s)'
    BY <1>8 DEF AddSize, PhaseOK, Goto, Put, local
  <2>2. Keeps(s)
    BY <1>8 DEF AddSize, PhaseOK, Keeps, Alone, Making, Dropping, Goto, Put, disk, local
  <2> QED
    BY <2>1, <2>2, QuietHolder
<1>9. CASE FileAdded(s)
  BY <1>9, ReturnKeeps, QuietHolder DEF FileAdded
<1>10. CASE RemoveDest(s)
  <2>1. PhaseOK(s)'
    BY <1>10 DEF RemoveDest, PhaseOK, Goto, Put, local
  <2>2. Keeps(s)
    BY <1>10 DEF RemoveDest, PhaseOK, Keeps, Alone, Making, Dropping, Goto, Put, disk, local
  <2> QED
    BY <2>1, <2>2, QuietHolder
<1>11. CASE MeasureOut(s)
  <2>1. PhaseOK(s)'
    BY <1>11 DEF MeasureOut, PhaseOK, Goto, Put, local
  <2>2. Keeps(s)
    BY <1>11 DEF MeasureOut, PhaseOK, Keeps, Alone, Making, Dropping, Goto, Put, disk, local
  <2> QED
    BY <2>1, <2>2, QuietHolder
<1>12. CASE RemoveSize(s)
  <2>1. PhaseOK(s)'
    BY <1>12 DEF RemoveSize, PhaseOK, Goto, Put, local
  <2>2. Keeps(s)
    BY <1>12 DEF RemoveSize, PhaseOK, Keeps, Alone, Making, Dropping, Goto, Put, disk, local
  <2> QED
    BY <2>1, <2>2, QuietHolder
<1>13. CASE IsEmpty(s)
  <2>1. CASE Goto(s, "setEmpty") /\ UNCHANGED local
    <3>1. PhaseOK(s)'
      BY <1>13, <2>1 DEF IsEmpty, PhaseOK, Goto, local
    <3>2. Keeps(s)
      BY <1>13, <2>1 DEF IsEmpty, Keeps, Alone, Making, Dropping, Goto, disk, local
    <3> QED
      BY <3>1, <3>2, QuietHolder
  <2>2. CASE Return(s)
    BY <1>13, <2>2, ReturnKeeps, QuietHolder DEF IsEmpty, disk
  <2> QED
    BY <1>13, <2>1, <2>2 DEF IsEmpty
<1>14. CASE SetEmpty(s)
  BY <1>14, ReturnKeeps, QuietHolder DEF SetEmpty
<1> QED
  BY <1>1, <1>2, <1>3, <1>4, <1>5, <1>6, <1>7, <1>8, <1>9, <1>10, <1>11, <1>12, <1>13, <1>14

\* The steps that touch info/ or files/ touch a name that s holds, or that has a
\* file and therefore no holder.
LEMMA LoudServe ==
    ASSUME NoEmptying, TypeOK, OneHolder, NEW s \in Slaves,
           \/ WriteInfo(s) \/ Transfer(s) \/ CleanDest(s) \/ TransferOut(s)
           \/ DeleteInfo(s) \/ DelFile(s) \/ DelInfo(s)
    PROVE  OneHolder'
<1> USE TrashAssumption DEF TypeOK, DiskOK, SlaveOK, OneHolder, Written
<1>0. \A n \in Names : Holds(s, n) \/ files[n] # None =>
                        \A t \in Slaves \ {s} : ~Holds(t, n)
  BY DEF HoldsOK
<1>1. CASE WriteInfo(s)
  <2>1. Alone(s) /\ PhaseOK(s)'
    BY <1>1 DEF WriteInfo, Finish, Forget, Alone, PhaseOK, Goto, Put, local
  <2>2. nm[s] \in Names /\ (Holds(s, nm[s]))
    BY <1>1 DEF WriteInfo, Finish, Forget, PhaseOK, HoldsOK, Holds, Making, Dropping, WithItem, WithVictim
  <2>3. \A n \in Names : Holds(s, n)' \/ info'[n] # info[n] \/ files'[n] # files[n]
                          => Holds(s, n) \/ files[n] # None
    BY <1>1, <2>2 DEF WriteInfo, Finish, Forget, PhaseOK, Holds, Making, Dropping, Goto, Put, local
  <2>4. HoldsOK(s)'
    <3>1. CASE /\ info' \in {Put(info, nm[s], path[s]), Put(info, nm[s], Unsaved)}
               /\ Goto(s, "age") /\ UNCHANGED <<files, local>>
      <4>1. /\ pc[s] = "write" /\ path[s] \in Items /\ act[s] # "none"
            /\ files[nm[s]] = None /\ pc'[s] = "age"
        BY <1>1, <2>2, <3>1 DEF WriteInfo, PhaseOK, HoldsOK, Goto, WithItem
      <4>2. info'[nm[s]] \in {path[s], Unsaved} /\ nm'[s] = nm[s] /\ files' = files
        BY <2>2, <3>1 DEF Put, local
      <4>3. \A n \in Names : ~Dropping(s, n)' /\ (Holds(s, n)' => n = nm[s])
        BY <4>1, <4>2 DEF Holds, Dropping
      <4> QED
        BY <2>2, <4>1, <4>2, <4>3 DEF HoldsOK
    <3>2. CASE Finish(s)
      BY <3>2 DEF Finish, Forget, HoldsOK, Holds, Making, Dropping, Goto, Put
    <3> QED
      BY <1>1, <3>1, <3>2 DEF WriteInfo
  <2>5. /\ \A p \in Items : home'[p] # Part
        /\ \A n \in Names : files'[n] # Part /\ (files'[n] # None => info'[n] \in Written)
    <3>1. UNCHANGED <<home, files>> /\ files[nm[s]] = None
      BY <1>1, <2>2 DEF WriteInfo, Finish, Forget, HoldsOK
    <3>2. \A n \in Names : n # nm[s] => info'[n] = info[n]
      BY <1>1, <2>2 DEF WriteInfo, Finish, Forget, Put
    <3> QED
      BY <1>0, <3>1, <3>2 DEF NoEmptying
  <2> QED
    BY <1>0, <2>1, <2>2, <2>3, <2>4, <2>5, StepHolder
<1>2. CASE Transfer(s)
  <2> DEFINE n == nm[s]
             x == home[path[s]]
  <2>1. Alone(s) /\ PhaseOK(s)' /\ UNCHANGED <<info, local>>
    BY <1>2 DEF Transfer, Alone, PhaseOK, Goto, local
  <2>2. /\ n \in Names /\ path[s] \in Items
        /\ Holds(s, n) /\ info[n] \in Written /\ files[n] = None
    BY <1>2 DEF Transfer, PhaseOK, HoldsOK, Holds, Making, WithItem
  <2>3. \/ files' = Put(files, n, x) /\ home' \in {home, Put(home, path[s], None)}
             /\ x # None /\ pc'[s] = "add"
        \/ files' = files /\ home' = home /\ pc'[s] \in {"clean", "undo"}
    <3>1. act[s] = "copy" => x \notin Dirs \cup {Part}
      BY <2>2 DEF NoEmptying, PhaseOK
    <3>2. OneDevice
      BY DEF NoEmptying
    <3>3. CASE act[s] = "trash"
      <4>1. \/ CanRename(x, files[n]) /\ files' = Put(files, n, x)
                 /\ home' = Put(home, path[s], None) /\ Goto(s, "add")
            \/ files' = files /\ home' = home /\ Goto(s, "clean")
        BY <1>2, <3>2, <3>3, Zenon DEF Transfer
      <4> QED
        BY <4>1 DEF CanRename, Goto
    <3>4. CASE act[s] # "trash"
      <4>1. \/ x # None /\ files' = Put(files, n, x)
                 /\ home' = home /\ Goto(s, "add")
            \/ files' = files /\ home' = home /\ Goto(s, "undo")
        BY <1>2, <3>1, <3>4 DEF Transfer
      <4> QED
        BY <4>1 DEF Goto
    <3> QED
      BY <3>3, <3>4
  <2>4. \A m \in Names : files'[m] # files[m] => m = n
    BY <2>3 DEF Put
  <2>5. /\ \A p \in Items : home'[p] # Part
        /\ \A m \in Names : files'[m] # Part /\ (files'[m] # None => info'[m] \in Written)
    BY <2>1, <2>2, <2>3 DEF Put
  <2>6. /\ act[s] # "none" /\ pc[s] = "move" /\ Making(s)
        /\ \A m : ~Dropping(s, m)' /\ ~Dropping(s, m)
    BY <1>2, <2>1, <2>3 DEF Transfer, PhaseOK, Making, Dropping, local
  <2>7. Making(s)' => files' = files /\ info' = info
    BY <2>1, <2>3 DEF Making
  <2>8. HoldsOK(s)' /\ \A m \in Names : Holds(s, m)' => m = n
    BY <2>1, <2>2, <2>6, <2>7 DEF HoldsOK, Holds, local
  <2> QED
    BY <1>0, <2>1, <2>2, <2>4, <2>5, <2>8, StepHolder
<1>3. CASE CleanDest(s)
  <2>1. Alone(s) /\ PhaseOK(s)'
    BY <1>3 DEF CleanDest, Alone, PhaseOK, Goto, Put, local
  <2>2. nm[s] \in Names /\ (Holds(s, nm[s]))
    BY <1>3 DEF CleanDest, PhaseOK, HoldsOK, Holds, Making, Dropping, WithItem, WithVictim
  <2>3. \A n \in Names : Holds(s, n)' \/ info'[n] # info[n] \/ files'[n] # files[n]
                          => Holds(s, n) \/ files[n] # None
    BY <1>3, <2>2 DEF CleanDest, PhaseOK, Holds, Making, Dropping, Goto, Put, local
  <2>4. HoldsOK(s)'
    BY <1>3, <2>2 DEF CleanDest, PhaseOK, HoldsOK, Holds, Making, Dropping, Goto, Put, local
  <2>5. /\ \A p \in Items : home'[p] # Part
        /\ \A n \in Names : files'[n] # Part /\ (files'[n] # None => info'[n] \in Written)
    BY <1>3, <2>2 DEF CleanDest, NoEmptying, PhaseOK, HoldsOK, Holds, Making, Dropping, Goto, Put, local
  <2> QED
    BY <1>0, <2>1, <2>2, <2>3, <2>4, <2>5, StepHolder
<1>4. CASE TransferOut(s)
  <2>1. Alone(s) /\ PhaseOK(s)'
    BY <1>4 DEF TransferOut, CanRename, Finish, Forget, Alone, PhaseOK, Goto, Put, local
  <2>2. nm[s] \in Names /\ (TRUE)
    BY <1>4 DEF TransferOut, CanRename, Finish, Forget, PhaseOK, HoldsOK, Holds, Making, Dropping, WithItem, WithVictim
  <2>3. \A n \in Names : Holds(s, n)' \/ info'[n] # info[n] \/ files'[n] # files[n]
                          => Holds(s, n) \/ files[n] # None
    BY <1>4, <2>2 DEF TransferOut, CanRename, Finish, Forget, PhaseOK, Holds, Making, Dropping, Goto, Put, local
  <2>4. HoldsOK(s)'
    BY <1>4, <2>2 DEF TransferOut, CanRename, Finish, Forget, PhaseOK, HoldsOK, Holds, Making, Dropping, Goto, Put, local
  <2>5. /\ \A p \in Items : home'[p] # Part
        /\ \A n \in Names : files'[n] # Part /\ (files'[n] # None => info'[n] \in Written)
    BY <1>4, <2>2 DEF TransferOut, CanRename, Finish, Forget, NoEmptying, PhaseOK, HoldsOK, Holds, Making, Dropping, Goto, Put, local
  <2> QED
    BY <1>0, <2>1, <2>2, <2>3, <2>4, <2>5, StepHolder
<1>5. CASE DeleteInfo(s)
  <2>1. Alone(s) /\ PhaseOK(s)'
    BY <1>5 DEF DeleteInfo, Finish, Forget, Alone, PhaseOK, Goto, Put, local
  <2>2. nm[s] \in Names /\ (Holds(s, nm[s]))
    BY <1>5 DEF DeleteInfo, Finish, Forget, PhaseOK, HoldsOK, Holds, Making, Dropping, WithItem, WithVictim
  <2>3. \A n \in Names : Holds(s, n)' \/ info'[n] # info[n] \/ files'[n] # files[n]
                          => Holds(s, n) \/ files[n] # None
    BY <1>5, <2>2 DEF DeleteInfo, Finish, Forget, PhaseOK, Holds, Making, Dropping, Goto, Put, local
  <2>4. HoldsOK(s)'
    BY <1>5, <2>2 DEF DeleteInfo, Finish, Forget, PhaseOK, HoldsOK, Holds, Making, Dropping, Goto, Put, local
  <2>5. /\ \A p \in Items : home'[p] # Part
        /\ \A n \in Names : files'[n] # Part /\ (files'[n] # None => info'[n] \in Written)
    BY <1>5, <2>2 DEF DeleteInfo, Finish, Forget, NoEmptying, PhaseOK, HoldsOK, Holds, Making, Dropping, Goto, Put, local
  <2> QED
    BY <1>0, <2>1, <2>2, <2>3, <2>4, <2>5, StepHolder
<1>6. CASE DelFile(s)
  <2>1. CASE files[vic[s]] \in Stubborn \cup {None}
    BY <1>6, <2>1, ReturnKeeps, QuietHolder DEF DelFile
  <2>2. CASE files[vic[s]] \notin Stubborn \cup {None}
    <3>1. /\ vic[s] \in Names /\ pc[s] = "delfile" /\ pc'[s] = "delsub"
          /\ files' = Put(files, vic[s], None) /\ UNCHANGED <<home, info, local>>
      BY <1>6, <2>2 DEF DelFile, WithVictim, Goto
    <3>2. Alone(s) /\ PhaseOK(s)'
      BY <1>6, <2>2 DEF DelFile, Alone, PhaseOK, Goto, local
    <3>3. ~Holds(s, vic[s])
      BY <2>2, <3>1 DEF HoldsOK
    <3>4. \A n \in Names : /\ Dropping(s, n)' => n = vic[s]
                           /\ Holds(s, n)' => Holds(s, n) \/ n = vic[s]
                           /\ files'[n] # files[n] => n = vic[s]
      BY <3>1 DEF Dropping, Holds, Making, PhaseOK, Put, local
    <3>5. HoldsOK(s)'
      <4>1. Making(s)' => Making(s) /\ nm'[s] = nm[s] /\ pc[s] # "write"
        BY <3>1 DEF Making, local
      <4>2. \A n \in Names : Holds(s, n)' => info'[n] # None /\ files'[n] = None
        BY <2>2, <3>1, <3>4 DEF HoldsOK, Put
      <4>3. Making(s)' => ~Dropping(s, nm[s])'
        BY <3>1, <3>3, <3>4, <4>1, MakingKnowsName DEF Holds
      <4> QED
        BY <3>1, <4>1, <4>2, <4>3 DEF HoldsOK
    <3> QED
      BY <1>0, <2>2, <3>1, <3>2, <3>4, <3>5, StepHolder DEF Put
  <2> QED
    BY <2>1, <2>2
<1>7. CASE DelInfo(s)
  <2>1. Alone(s) /\ PhaseOK(s)'
    BY <1>7 DEF DelInfo, Alone, PhaseOK, Goto, Put, local
  <2>2. vic[s] \in Names /\ (Holds(s, vic[s]))
    BY <1>7 DEF DelInfo, PhaseOK, HoldsOK, Holds, Making, Dropping, WithItem, WithVictim
  <2>3. \A n \in Names : Holds(s, n)' \/ info'[n] # info[n] \/ files'[n] # files[n]
                          => Holds(s, n) \/ files[n] # None
    BY <1>7, <2>2 DEF DelInfo, PhaseOK, Holds, Making, Dropping, Goto, Put, local
  <2>4. HoldsOK(s)'
    <3>1. /\ pc[s] = "delinfo" /\ pc'[s] = "isEmpty"
          /\ info' = Put(info, vic[s], None) /\ UNCHANGED <<files, local>>
      BY <1>7 DEF DelInfo, Goto
    <3>2. /\ Making(s)' => Making(s) /\ nm'[s] = nm[s]
          /\ \A n \in Names : ~Dropping(s, n)'
      BY <3>1 DEF Making, Dropping, local
    <3>3. Making(s) => /\ nm[s] \in Names /\ nm[s] # vic[s]
                      /\ info[nm[s]] \in Written /\ files[nm[s]] = None
      BY <2>2, <3>1, MakingKnowsName DEF HoldsOK, Holds, Dropping
    <3> QED
      BY <3>1, <3>2, <3>3 DEF HoldsOK, Holds, Put
  <2>5. /\ \A p \in Items : home'[p] # Part
        /\ \A n \in Names : files'[n] # Part /\ (files'[n] # None => info'[n] \in Written)
    BY <1>7, <2>2 DEF DelInfo, NoEmptying, PhaseOK, HoldsOK, Holds, Making, Dropping, Goto, Put, local
  <2> QED
    BY <1>0, <2>1, <2>2, <2>3, <2>4, <2>5, StepHolder
<1> QED
  BY <1>1, <1>2, <1>3, <1>4, <1>5, <1>6, <1>7

LEMMA ServeHolder ==
    ASSUME NoEmptying, TypeOK, OneHolder, NEW s \in Slaves, Serve(s)
    PROVE  OneHolder'
<1>1. PhaseOK(s)
  BY DEF OneHolder
<1>2. ~(EmptyNext(s) \/ EmptyFile(s) \/ EmptyInfo(s) \/ ClearSize(s)
          \/ CleanOrphan(s) \/ EndEmpty(s))
  BY <1>1 DEF PhaseOK, EmptyNext, EmptyFile, EmptyInfo, ClearSize, CleanOrphan, EndEmpty
<1> QED
  BY <1>2, QuietServe, LoudServe DEF Serve

\* O_EXCL is enough: whatever slaves trash, restore, extract and delete at the
\* same time, and whenever one is killed, each fileId has one holder.
THEOREM HolderInvariant == ASSUME NoEmptying PROVE Spec => []OneHolder
<1>1. Init => OneHolder
  BY InitHolder
<1>2. TypeOK /\ OneHolder /\ [Next]_vars => OneHolder'
  <2> SUFFICES ASSUME TypeOK, OneHolder, [Next]_vars PROVE OneHolder'
    OBVIOUS
  <2>1. CASE UNCHANGED vars
    BY <2>1 DEF OneHolder, PhaseOK, HoldsOK, Holds, Making, Dropping, vars, disk, local
  <2> QED
    BY <2>1, RequestHolder, ServeHolder, CrashHolder, NoEmptying DEF Next
<1> QED
  BY <1>1, <1>2, TypeCorrect, PTL DEF Spec

\* A move into the trash never replaces an item that is already there.
THEOREM MoveNeverClobbers == ASSUME NoEmptying PROVE Spec => []NoClobber
<1>1. TypeOK /\ OneHolder => NoClobber
  BY TrashAssumption
     DEF TypeOK, SlaveOK, WithItem, OneHolder, PhaseOK, HoldsOK, Holds, Making, NoClobber
<1> QED
  BY <1>1, TypeCorrect, HolderInvariant, PTL

\* What lies in files/ has a .trashinfo, which is readable unless it could not be
\* written out.
THEOREM FilesStayListed == ASSUME NoEmptying PROVE Spec => []FilesListed
<1>1. OneHolder => FilesListed
  BY TrashAssumption DEF OneHolder, FilesListed
<1> QED
  BY <1>1, HolderInvariant, PTL

------------------------------------------------------------------------------
(* One slave.  With several, an item that two of them restore to one path or  *)
(* that one empties while another trashes it can be lost; a slave alone keeps *)
(* what the users did not ask it to destroy, whatever is requested, fails, or *)
(* is killed.                                                                 *)

OneSlave == \A s, t \in Slaves : s = t

\* adaptTrashSize deletes by the names of files/, where a failed copy of a
\* directory leaves a part of it under a name that is free again.
NoLeftovers == LimitAction = "delete" => "copy" \notin Requests \/ Dirs = {}

\* The destination of a failed copy of a directory.
Whole ==
    LimitAction = "delete" =>
        (\A p \in Items : home[p] # Part) /\ (\A n \in Names : files[n] # Part)

AtEntry == {"age", "aged", "fit", "victims", "check", "size", "init", "move"}
AtOut   == {"rmdest", "outsize", "outinit", "out"}
AtDel   == {"delinit", "delfile", "delsub", "delinfo"}
AtEmpty == {"empty", "edel", "einfo", "eclear", "orphans"}

\* An entry is made, perhaps with a call of del() or fileRemoved() in between.
Nested(s) == pc[s] \in AtDel \cup {"isEmpty", "setEmpty"} /\ ret[s] # "idle"
NewEntry(s) == pc[s] \in AtEntry \/ Nested(s)

\* Nobody misses x, or the item at a path or name, when it goes.
Granted(x) == x \in Items => x \in asked

\* The new entry is listed, no file has arrived, and del() keeps away from it.
Makes(s) ==
    /\ act[s] = "copy" => "copy" \in Requests
    /\ pc[s] = "write" \/ NewEntry(s) =>
         files[nm[s]] \notin Items /\ (LimitAction = "delete" => files[nm[s]] = None)
    /\ NewEntry(s) \/ pc[s] \in {"clean", "add", "flag"} => info[nm[s]] \in Written
    /\ pc[s] \in {"aged", "victims", "check"} \/ Nested(s) => nm[s] \notin todo[s]
    /\ Nested(s) /\ pc[s] \in AtDel => vic[s] # nm[s]
    /\ pc[s] = "clean" /\ files[nm[s]] \in Items => files[nm[s]] = home[path[s]]

\* What a restore replaces may go, and the .trashinfo goes after the file.
Leaves(s) ==
    /\ pc[s] \in AtOut => Granted(home[path[s]])
    /\ pc[s] \in {"outsub", "undo"} => files[nm[s]] \notin Items
    /\ pc[s] \in AtOut \cup {"write", "outsub", "undo"} => info[nm[s]] # None

\* What is deleted may go, and the .trashinfo goes after the file.
Deletes(s) ==
    /\ pc[s] \in {"delinit", "delfile"} => Granted(files[vic[s]])
    /\ pc[s] \in {"delsub", "delinfo", "einfo"} => files[vic[s]] \notin Items
    /\ pc[s] \in AtDel => info[vic[s]] # None
    /\ pc[s] \in AtEmpty \cup {"idle"} => ret[s] = "idle"

\* emptyTrash: everything may go; what is listed is still to come or stubborn,
\* and what lies in files/ unlisted is still to come in the second listing.
Empties(s) ==
    /\ pc[s] = "idle" => kept[s] = {}
    /\ pc[s] \in AtEmpty =>
        \A n \in Names :
          /\ Granted(files[n])
          /\ n \in kept[s] => files[n] \in Stubborn
          /\ pc[s] = "orphans" /\ info[n] \notin Items /\ files[n] # None =>
               Resists(files[n]) \/ n \in todo[s]
          /\ info[n] \in Items =>
               \/ files[n] \in Stubborn /\ n \in kept[s]
               \/ pc[s] # "orphans" /\ n \in todo[s]
               \/ pc[s] \in {"edel", "einfo"} /\ n = vic[s]

Unlisted(N) == \A n \in N : info[n] = None

\* The flag: it is never set while there is an entry but the one being made.
Flags(s) ==
    /\ pc[s] = "setEmpty" => Unlisted(Names)
    /\ crashes = 0 =>
         /\ pc[s] = "idle" => (empty <=> Unlisted(Names))
         /\ pc[s] = "write" => (empty <=> Unlisted(Names \ {nm[s]}))
         /\ NewEntry(s) \/ pc[s] \in {"clean", "undo"} =>
              (empty => Unlisted(Names \ {nm[s]}))
         /\ pc[s] \in AtOut \cup {"outsub"} => ~empty
         /\ pc[s] \in AtDel /\ ret[s] = "idle" => ~empty
         /\ pc[s] = "isEmpty" /\ ret[s] = "idle" => (empty => Unlisted(Names))
         /\ pc[s] \in AtEmpty => (empty => Unlisted(Names))

AloneInv ==
    /\ NoLoss /\ FilesListed /\ Whole
    /\ \A s \in Slaves : Makes(s) /\ Leaves(s) /\ Deletes(s) /\ Empties(s) /\ Flags(s)

LEMMA InitAlone == Init => AloneInv
<1> SUFFICES ASSUME Init PROVE AloneInv
  OBVIOUS
<1>1. NoLoss /\ FilesListed /\ Whole
  BY TrashAssumption DEF Init, NoLoss, FilesListed, Whole
<1>2. ASSUME NEW s \in Slaves
      PROVE  Makes(s) /\ Leaves(s) /\ Deletes(s) /\ Empties(s) /\ Flags(s)
  BY DEF Init, Makes, Leaves, Deletes, Empties, Flags, NewEntry, Nested, AtEntry, AtOut,
         AtDel, AtEmpty, Unlisted
<1> QED
  BY <1>1, <1>2 DEF AloneInv

\* What one slave knows is all there is to know.
Knows(s) == Makes(s) /\ Leaves(s) /\ Deletes(s) /\ Empties(s) /\ Flags(s)

LEMMA OnlySlave ==
    ASSUME OneSlave, NEW s \in Slaves, NoLoss', FilesListed', Whole', Knows(s)'
    PROVE  AloneInv'
<1>1. \A t \in Slaves : t = s
  BY DEF OneSlave
<1>2. ASSUME NEW t \in Slaves PROVE Knows(t)'
  <2>1. t = s
    BY <1>1
  <2> QED
    BY <2>1
<1> QED
  BY <1>2 DEF AloneInv, Knows

\* A step that moves no file and deletes no .trashinfo.
LEMMA QuietAlone ==
    ASSUME AloneInv, UNCHANGED <<home, info, files>>, asked \subseteq asked'
    PROVE  NoLoss' /\ FilesListed' /\ Whole'
  BY DEF AloneInv, NoLoss, FilesListed, Whole

\* A request ends, when nothing is killed with the flag as it should be.
LEMMA FinishAlone ==
    ASSUME TypeOK, NEW s \in Slaves, Finish(s),
           (crashes = 0 => (empty <=> Unlisted(Names)))'
    PROVE  Knows(s)'
<1>1. pc'[s] = "idle" /\ ret'[s] = "idle" /\ act'[s] = "none" /\ kept'[s] = {}
  BY DEF TypeOK, SlaveOK, Finish, Forget, Goto, Put
<1> QED
  BY <1>1 DEF Knows, Makes, Leaves, Deletes, Empties, Flags, NewEntry, Nested, AtEntry, AtOut,
         AtDel, AtEmpty

\* del() returns to adaptTrashSize.
LEMMA ReturnAlone ==
    ASSUME TypeOK, NEW s \in Slaves, Knows(s), ret[s] # "idle",
           pc[s] \in {"delfile", "isEmpty", "setEmpty"}, Return(s),
           UNCHANGED <<home, info, files, empty, asked, crashes>>
    PROVE  Knows(s)'
<1>1. pc'[s] = ret[s] /\ ret[s] \in {"aged", "check"} /\ UNCHANGED local
  BY DEF TypeOK, SlaveOK, Return, Goto
<1>2. NewEntry(s) /\ Nested(s)
  BY DEF NewEntry, Nested, AtDel
<1>3. Makes(s)'
  BY <1>1, <1>2 DEF Knows, Makes, NewEntry, Nested, AtEntry, AtDel, local
<1>4. Flags(s)'
  BY <1>1, <1>2 DEF Knows, Flags, NewEntry, Nested, AtEntry, AtOut, AtDel, AtEmpty, Unlisted, local
<1>5. Leaves(s)' /\ Deletes(s)' /\ Empties(s)'
  BY <1>1 DEF Leaves, Deletes, Empties, AtOut, AtDel, AtEmpty
<1> QED
  BY <1>3, <1>4, <1>5 DEF Knows

\* The steps that move no file and delete no .trashinfo.
LEMMA QuietServeAlone ==
    ASSUME NoLeftovers, OneSlave, TypeOK, AloneInv, NEW s \in Slaves,
           \/ AgeLimit(s) \/ NextVictim(s, "aged", "fit") \/ SizeLimit(s)
           \/ NextVictim(s, "victims", "size") \/ CheckRoom(s) \/ MeasureIn(s)
           \/ Initialize(s) \/ AddSize(s) \/ MeasureOut(s)
           \/ RemoveSize(s) \/ EmptyNext(s) \/ ClearSize(s)
           \/ EndEmpty(s)
    PROVE  AloneInv'
<1>1. Knows(s) /\ NoLoss /\ FilesListed /\ Whole
  BY DEF AloneInv, Knows
<1> USE TrashAssumption DEF TypeOK, SlaveOK, Knows, Goto, Put, disk, local,
                            NewEntry, Nested, AtEntry, AtOut, AtDel, AtEmpty
<1>2. CASE AgeLimit(s)
  <2>1. NoLoss' /\ FilesListed' /\ Whole'
    BY <1>2, QuietAlone DEF AgeLimit
  <2>2. Makes(s)' /\ Leaves(s)'
    BY <1>2, <1>1 DEF AgeLimit, Makes, Leaves, Deletes, Granted, WithItem
  <2>3. Deletes(s)' /\ Empties(s)'
    BY <1>2, <1>1 DEF AgeLimit, Deletes, Empties, Granted, WithVictim
  <2>4. Flags(s)'
    BY <1>2, <1>1 DEF AgeLimit, Flags, Makes, Unlisted
  <2> QED
    BY <2>1, <2>2, <2>3, <2>4, OnlySlave
<1>3. CASE NextVictim(s, "aged", "fit")
  <2>1. NoLoss' /\ FilesListed' /\ Whole'
    BY <1>3, QuietAlone DEF NextVictim, StartDel
  <2>2. Makes(s)' /\ Leaves(s)'
    BY <1>3, <1>1 DEF NextVictim, StartDel, Makes, Leaves, Deletes, Granted, WithItem
  <2>3. Deletes(s)' /\ Empties(s)'
    BY <1>3, <1>1 DEF NextVictim, StartDel, Deletes, Empties, Granted, WithVictim
  <2>4. Flags(s)'
    BY <1>3, <1>1 DEF NextVictim, StartDel, Flags, Makes, Unlisted
  <2> QED
    BY <2>1, <2>2, <2>3, <2>4, OnlySlave
<1>4. CASE SizeLimit(s)
  <2>1. NoLoss' /\ FilesListed' /\ Whole'
    BY <1>4, QuietAlone DEF SizeLimit
  <2>2. Makes(s)'
    BY <1>4, <1>1 DEF SizeLimit, Makes, WithItem
  <2>3. Leaves(s)'
    BY <1>4, <1>1 DEF SizeLimit, Makes, Leaves, Written, WithItem
  <2>4. Deletes(s)' /\ Empties(s)'
    BY <1>4, <1>1 DEF SizeLimit, Deletes, Empties, Granted, WithVictim
  <2>5. Flags(s)'
    BY <1>4, <1>1 DEF SizeLimit, Flags, Makes, Unlisted
  <2> QED
    BY <2>1, <2>2, <2>3, <2>4, <2>5, OnlySlave
<1>5. CASE NextVictim(s, "victims", "size")
  <2>1. NoLoss' /\ FilesListed' /\ Whole'
    BY <1>5, QuietAlone DEF NextVictim, StartDel
  <2>2. Makes(s)' /\ Leaves(s)'
    BY <1>5, <1>1 DEF NextVictim, StartDel, Makes, Leaves, Deletes, Granted, WithItem
  <2>3. Deletes(s)' /\ Empties(s)'
    BY <1>5, <1>1 DEF NextVictim, StartDel, Deletes, Empties, Granted, WithVictim
  <2>4. Flags(s)'
    BY <1>5, <1>1 DEF NextVictim, StartDel, Flags, Makes, Unlisted
  <2> QED
    BY <2>1, <2>2, <2>3, <2>4, OnlySlave
<1>6. CASE CheckRoom(s)
  <2>1. NoLoss' /\ FilesListed' /\ Whole'
    BY <1>6, QuietAlone DEF CheckRoom
  <2>2. Makes(s)' /\ Leaves(s)'
    BY <1>6, <1>1 DEF CheckRoom, Makes, Leaves, Deletes, Granted, WithItem
  <2>3. Deletes(s)' /\ Empties(s)'
    BY <1>6, <1>1 DEF CheckRoom, Deletes, Empties, Granted, WithVictim
  <2>4. Flags(s)'
    BY <1>6, <1>1 DEF CheckRoom, Flags, Makes, Unlisted
  <2> QED
    BY <2>1, <2>2, <2>3, <2>4, OnlySlave
<1>7. CASE MeasureIn(s)
  <2>1. NoLoss' /\ FilesListed' /\ Whole'
    BY <1>7, QuietAlone DEF MeasureIn
  <2>2. Makes(s)' /\ Leaves(s)'
    BY <1>7, <1>1 DEF MeasureIn, Makes, Leaves, Deletes, Granted, WithItem
  <2>3. Deletes(s)' /\ Empties(s)'
    BY <1>7, <1>1 DEF MeasureIn, Deletes, Empties, Granted, WithVictim
  <2>4. Flags(s)'
    BY <1>7, <1>1 DEF MeasureIn, Flags, Makes, Unlisted
  <2> QED
    BY <2>1, <2>2, <2>3, <2>4, OnlySlave
<1>8. CASE Initialize(s)
  <2>1. NoLoss' /\ FilesListed' /\ Whole'
    BY <1>8, QuietAlone DEF Initialize
  <2>2. Makes(s)' /\ Leaves(s)'
    BY <1>8, <1>1 DEF Initialize, Makes, Leaves, Deletes, Granted, WithItem
  <2>3. Deletes(s)' /\ Empties(s)'
    BY <1>8, <1>1 DEF Initialize, Deletes, Empties, Granted, WithVictim
  <2>4. Flags(s)'
    BY <1>8, <1>1 DEF Initialize, Flags, Makes, Unlisted
  <2> QED
    BY <2>1, <2>2, <2>3, <2>4, OnlySlave
<1>9. CASE AddSize(s)
  <2>1. NoLoss' /\ FilesListed' /\ Whole'
    BY <1>9, QuietAlone DEF AddSize
  <2>2. Makes(s)' /\ Leaves(s)'
    BY <1>9, <1>1 DEF AddSize, Makes, Leaves, Deletes, Granted, WithItem
  <2>3. Deletes(s)' /\ Empties(s)'
    BY <1>9, <1>1 DEF AddSize, Deletes, Empties, Granted, WithVictim
  <2>4. Flags(s)'
    BY <1>9, <1>1 DEF AddSize, Flags, Makes, Unlisted
  <2> QED
    BY <2>1, <2>2, <2>3, <2>4, OnlySlave
<1>10. CASE MeasureOut(s)
  <2>1. NoLoss' /\ FilesListed' /\ Whole'
    BY <1>10, QuietAlone DEF MeasureOut
  <2>2. Makes(s)' /\ Leaves(s)'
    BY <1>10, <1>1 DEF MeasureOut, Makes, Leaves, Deletes, Granted, WithItem
  <2>3. Deletes(s)' /\ Empties(s)'
    BY <1>10, <1>1 DEF MeasureOut, Deletes, Empties, Granted, WithVictim
  <2>4. Flags(s)'
    BY <1>10, <1>1 DEF MeasureOut, Flags, Makes, Unlisted
  <2> QED
    BY <2>1, <2>2, <2>3, <2>4, OnlySlave
<1>11. CASE RemoveSize(s)
  <2>1. NoLoss' /\ FilesListed' /\ Whole'
    BY <1>11, QuietAlone DEF RemoveSize
  <2>2. Makes(s)' /\ Leaves(s)'
    BY <1>11, <1>1 DEF RemoveSize, Makes, Leaves, Deletes, Granted, WithItem
  <2>3. Deletes(s)' /\ Empties(s)'
    BY <1>11, <1>1 DEF RemoveSize, Deletes, Empties, Granted, WithVictim
  <2>4. Flags(s)'
    BY <1>11, <1>1 DEF RemoveSize, Flags, Makes, Unlisted
  <2> QED
    BY <2>1, <2>2, <2>3, <2>4, OnlySlave
<1>12. CASE EmptyNext(s)
  <2>1. NoLoss' /\ FilesListed' /\ Whole'
    BY <1>12, QuietAlone DEF EmptyNext
  <2>2. Makes(s)' /\ Leaves(s)'
    BY <1>12, <1>1 DEF EmptyNext, Makes, Leaves, Deletes, Granted, WithItem
  <2>3. Deletes(s)' /\ Empties(s)'
    BY <1>12, <1>1 DEF EmptyNext, Deletes, Empties, Granted, WithVictim
  <2>4. Flags(s)'
    BY <1>12, <1>1 DEF EmptyNext, Flags, Makes, Unlisted
  <2> QED
    BY <2>1, <2>2, <2>3, <2>4, OnlySlave
<1>13. CASE ClearSize(s)
  <2>1. NoLoss' /\ FilesListed' /\ Whole'
    BY <1>13, QuietAlone DEF ClearSize
  <2>2. Makes(s)' /\ Leaves(s)'
    BY <1>13, <1>1 DEF ClearSize, Makes, Leaves, Deletes, Granted, WithItem
  <2>3. Deletes(s)' /\ Empties(s)'
    BY <1>13, <1>1 DEF ClearSize, Deletes, Empties, Granted, WithVictim
  <2>4. Flags(s)'
    BY <1>13, <1>1 DEF ClearSize, Flags, Makes, Unlisted
  <2> QED
    BY <2>1, <2>2, <2>3, <2>4, OnlySlave
<1>14. CASE EndEmpty(s)
  <2>1. NoLoss' /\ FilesListed' /\ Whole'
    BY <1>14, QuietAlone DEF EndEmpty
  <2>2. Makes(s)' /\ Leaves(s)'
    BY <1>14, <1>1 DEF EndEmpty, Makes, Leaves, Deletes, Granted, WithItem
  <2>3. Deletes(s)' /\ Empties(s)'
    BY <1>14, <1>1 DEF EndEmpty, Deletes, Empties, Granted, WithVictim
  <2>4. Flags(s)'
    BY <1>14, <1>1 DEF EndEmpty, Flags, Makes, Unlisted
  <2> QED
    BY <2>1, <2>2, <2>3, <2>4, OnlySlave
<1> QED
  BY <1>2, <1>3, <1>4, <1>5, <1>6, <1>7, <1>8, <1>9, <1>10, <1>11, <1>12, <1>13, <1>14

\* The requests.
LEMMA RequestAlone ==
    ASSUME NoLeftovers, OneSlave, TypeOK, AloneInv, NEW s \in Slaves, Request(s)
    PROVE  AloneInv'
<1>1. Knows(s) /\ NoLoss /\ FilesListed /\ Whole
  BY DEF AloneInv, Knows
<1> USE TrashAssumption DEF TypeOK, DiskOK, SlaveOK, Knows, Goto, Put, disk, local
<1>2. ASSUME NEW p \in Items, NEW a \in {"trash", "copy"}, CreateInfo(s, p, a)
      PROVE  AloneInv'
  <2>1. PICK n \in Names : info[n] = None /\ info' = Put(info, n, Blank) /\ nm' = Put(nm, s, n)
    BY <1>2 DEF CreateInfo, FreeName
  <2>2. /\ pc[s] = "idle" /\ pc'[s] = "write" /\ nm'[s] = n /\ info'[n] = Blank
        /\ UNCHANGED <<home, files, empty, asked, crashes, ret>>
    BY <1>2, <2>1 DEF CreateInfo
  <2>3. NoLoss' /\ FilesListed' /\ Whole'
    BY <1>1, <2>1, <2>2 DEF NoLoss, FilesListed, Whole, Written
  <2>4. Makes(s)' /\ Leaves(s)'
    BY <1>1, <1>2, <2>1, <2>2
       DEF CreateInfo, Makes, Leaves, FilesListed, Whole, Contents, Written, NewEntry, Nested, AtEntry, AtOut, AtDel
  <2>5. Deletes(s)' /\ Empties(s)'
    BY <2>2 DEF Deletes, Empties, AtDel, AtEmpty
  <2>6. Flags(s)'
    BY <1>1, <2>1, <2>2 DEF Flags, NewEntry, Nested, AtEntry, AtOut, AtDel, AtEmpty, Unlisted
  <2> QED
    BY <2>3, <2>4, <2>5, <2>6, OnlySlave
<1>3. ASSUME NEW n \in Names, NEW p \in Items,
             NEW r \in {"restore", "extract", "overwrite"}, MoveOut(s, n, p, r)
      PROVE  AloneInv'
  <2>1. NoLoss' /\ FilesListed' /\ Whole'
    BY <1>3, QuietAlone DEF MoveOut
  <2>2. Makes(s)' /\ Leaves(s)'
    BY <1>1, <1>3 DEF MoveOut, Makes, Leaves, Deletes, Granted, NewEntry, Nested, AtEntry, AtOut, AtDel, AtEmpty
  <2>3. Deletes(s)' /\ Empties(s)' /\ Flags(s)'
    BY <1>1, <1>3 DEF MoveOut, Deletes, Empties, Flags, NewEntry, Nested, AtEntry, AtOut, AtDel, AtEmpty, Unlisted
  <2> QED
    BY <2>1, <2>2, <2>3, OnlySlave
<1>4. ASSUME NEW n \in Names, NEW p \in Items, CopyFromTrash(s, n, p)
      PROVE  AloneInv'
  <2>1. /\ pc[s] = "idle" /\ UNCHANGED <<info, files, empty, pc, local, asked, crashes>>
        /\ home' = Put(home, p, files[n]) /\ home[p] = None /\ files[n] # None
    BY <1>4 DEF CopyFromTrash
  <2>2. NoLoss' /\ FilesListed' /\ Whole'
    BY <1>1, <2>1 DEF NoLoss, FilesListed, Whole
  <2>3. Makes(s)' /\ Leaves(s)' /\ Deletes(s)' /\ Empties(s)' /\ Flags(s)'
    BY <1>1, <2>1 DEF Makes, Leaves, Deletes, Empties, Flags, NewEntry, Nested, AtEntry, AtOut, AtDel,
                      AtEmpty, Unlisted
  <2> QED
    BY <2>2, <2>3, OnlySlave
<1>5. ASSUME NEW n \in Names, RequestDel(s, n)
      PROVE  AloneInv'
  <2>1. NoLoss' /\ FilesListed' /\ Whole'
    BY <1>5, QuietAlone DEF RequestDel, StartDel
  <2>2. Makes(s)' /\ Leaves(s)'
    BY <1>1, <1>5 DEF RequestDel, StartDel, Makes, Leaves, NewEntry, Nested, AtEntry, AtOut, AtDel
  <2>3. Deletes(s)' /\ Empties(s)' /\ Flags(s)'
    BY <1>1, <1>5 DEF RequestDel, StartDel, Deletes, Empties, Flags, Granted, NewEntry, Nested,
                      AtEntry, AtOut, AtDel, AtEmpty, Unlisted
  <2> QED
    BY <2>1, <2>2, <2>3, OnlySlave
<1>6. ASSUME RequestEmpty(s) PROVE AloneInv'
  <2>1. NoLoss' /\ FilesListed' /\ Whole'
    BY <1>6, QuietAlone DEF RequestEmpty
  <2>2. Makes(s)' /\ Leaves(s)' /\ Deletes(s)' /\ Flags(s)'
    BY <1>1, <1>6 DEF RequestEmpty, Makes, Leaves, Deletes, Flags, NewEntry, Nested, AtEntry, AtOut,
                      AtDel, AtEmpty, Unlisted
  <2>3. Empties(s)'
    BY <1>1, <1>6 DEF RequestEmpty, Listed, Empties, FilesListed, Granted, Written
  <2> QED
    BY <2>1, <2>2, <2>3, OnlySlave
<1> QED
  BY <1>2, <1>3, <1>4, <1>5, <1>6 DEF Request

\* The steps that change one file, one .trashinfo or the flag.
LEMMA LoudServeAlone ==
    ASSUME NoLeftovers, OneSlave, TypeOK, AloneInv, NEW s \in Slaves,
           \/ WriteInfo(s) \/ Transfer(s) \/ CleanDest(s) \/ FileAdded(s) \/ RemoveDest(s)
           \/ TransferOut(s) \/ DeleteInfo(s) \/ DelFile(s) \/ DelInfo(s) \/ IsEmpty(s)
           \/ SetEmpty(s) \/ EmptyFile(s) \/ EmptyInfo(s) \/ CleanOrphan(s)
    PROVE  AloneInv'
<1> DEFINE name == nm[s]
           victim == vic[s]
           place == path[s]
<1>0. Knows(s) /\ NoLoss /\ FilesListed /\ Whole
  BY DEF AloneInv, Knows
<1> USE TrashAssumption DEF TypeOK, DiskOK, SlaveOK, Knows, Goto, Put, disk, local,
                            NewEntry, Nested, AtEntry, AtOut, AtDel, AtEmpty
<1>1. CASE WriteInfo(s)
  <2>1. pc[s] = "write" /\ name \in Names /\ place \in Items /\ files[name] \notin Items
    BY <1>0, <1>1 DEF WriteInfo, WithItem, Makes
  <2>2. NoLoss' /\ FilesListed' /\ Whole'
    BY <1>0, <1>1, <2>1 DEF WriteInfo, NoLoss, FilesListed, Whole
  <2>3. CASE /\ info' \in {Put(info, nm[s], path[s]), Put(info, nm[s], Unsaved)}
             /\ Goto(s, "age") /\ UNCHANGED local
    <3>1. Makes(s)' /\ Leaves(s)'
      BY <1>0, <1>1, <2>1, <2>3 DEF WriteInfo, Makes, Leaves, Written
    <3>2. Deletes(s)' /\ Empties(s)'
      BY <2>3 DEF Deletes, Empties, AtDel, AtEmpty
    <3>3. Flags(s)'
      BY <1>0, <1>1, <2>1, <2>3 DEF WriteInfo, Flags, Unlisted
    <3> QED
      BY <2>2, <3>1, <3>2, <3>3, OnlySlave
  <2>4. CASE info' = Put(info, nm[s], None) /\ Finish(s)
    <3>1. (crashes = 0 => (empty <=> Unlisted(Names)))'
      BY <1>0, <1>1, <2>1, <2>4 DEF WriteInfo, Flags, Unlisted
    <3> QED
      BY <2>2, <2>4, <3>1, FinishAlone, OnlySlave
  <2> QED
    BY <1>1, <2>3, <2>4 DEF WriteInfo
<1>2. CASE Transfer(s)
  <2>1. /\ pc[s] = "move" /\ name \in Names /\ place \in Items /\ UNCHANGED <<info, empty, asked, crashes, local>>
        /\ files[name] \notin Items /\ info[name] \in Written
        /\ LimitAction = "delete" => files[name] = None
    BY <1>0, <1>2 DEF Transfer, WithItem, Makes, NewEntry, AtEntry
  <2> DEFINE x == home[place]
  <2>2. \/ /\ x # None /\ files' = Put(files, name, x) /\ pc'[s] = "add"
           /\ home' \in {home, Put(home, place, None)}
        \/ /\ files' = files \/ (files' = Put(files, name, x) /\ x # None)
           /\ home' = home /\ pc'[s] = "clean"
        \/ /\ home' = home /\ pc'[s] = "undo"
           /\ files' = files \/ (files' = Put(files, name, Part) /\ act[s] = "copy" /\ x \in Dirs \cup {Part})
    BY <1>2 DEF Transfer, CanRename
  <2>3. NoLoss'
    BY <1>0, <2>1, <2>2 DEF NoLoss
  <2>4. FilesListed'
    BY <1>0, <2>1, <2>2 DEF FilesListed, Written
  <2>5. Whole'
    BY <1>0, <2>1, <2>2 DEF Whole, NoLeftovers, Makes
  <2>6. Makes(s)'
    BY <1>0, <2>1, <2>2 DEF Makes, NewEntry, Nested, AtEntry, AtDel
  <2>7. Leaves(s)'
    BY <1>0, <2>1, <2>2 DEF Leaves, AtOut, Written
  <2>8. Deletes(s)' /\ Empties(s)'
    BY <2>2 DEF Deletes, Empties, AtDel, AtEmpty
  <2>9. Flags(s)'
    BY <1>0, <2>1, <2>2 DEF Flags, Unlisted
  <2> QED
    BY <2>3, <2>4, <2>5, <2>6, <2>7, <2>8, <2>9, OnlySlave
<1>3. CASE CleanDest(s)
  <2>1. /\ pc[s] = "clean" /\ pc'[s] = "undo" /\ name \in Names /\ place \in Items
        /\ files' = Put(files, name, None) /\ info[name] \in Written
        /\ files[name] \in Items => files[name] = home[place]
        /\ UNCHANGED <<home, info, empty, asked, crashes, local>>
    BY <1>0, <1>3 DEF CleanDest, WithItem, Makes
  <2>2. NoLoss' /\ FilesListed' /\ Whole'
    BY <1>0, <2>1 DEF NoLoss, FilesListed, Whole
  <2>3. Makes(s)' /\ Leaves(s)'
    BY <1>0, <2>1 DEF Makes, Leaves, Written
  <2>4. Deletes(s)' /\ Empties(s)' /\ Flags(s)'
    BY <1>0, <2>1 DEF Deletes, Empties, Flags, Unlisted
  <2> QED
    BY <2>2, <2>3, <2>4, OnlySlave
<1>4. CASE FileAdded(s)
  <2>1. name \in Names /\ info[name] \in Written /\ empty' = FALSE /\ Finish(s) /\ UNCHANGED <<home, info, files, asked>>
    BY <1>0, <1>4 DEF FileAdded, WithItem, Makes
  <2>2. ~Unlisted(Names)'
    BY <2>1 DEF Unlisted, Written
  <2> QED
    BY <2>1, <2>2, QuietAlone, FinishAlone, OnlySlave
<1>5. CASE RemoveDest(s)
  <2>1. /\ pc[s] = "rmdest" /\ pc'[s] = "outsize" /\ place \in Items /\ Granted(home[place])
        /\ home' \in {home, Put(home, place, None)}
        /\ UNCHANGED <<info, files, empty, asked, crashes, local>>
    BY <1>0, <1>5 DEF RemoveDest, WithItem, Leaves, AtOut
  <2>2. NoLoss' /\ FilesListed' /\ Whole'
    BY <1>0, <2>1 DEF NoLoss, FilesListed, Whole, Granted
  <2>3. Makes(s)' /\ Leaves(s)'
    BY <1>0, <2>1 DEF Makes, Leaves, Granted
  <2>4. Deletes(s)' /\ Empties(s)' /\ Flags(s)'
    BY <1>0, <2>1 DEF Deletes, Empties, Flags, Unlisted
  <2> QED
    BY <2>2, <2>3, <2>4, OnlySlave
<1>6. CASE TransferOut(s)
  <2>1. /\ pc[s] = "out" /\ name \in Names /\ place \in Items /\ info[name] # None /\ Granted(home[place])
        /\ crashes = 0 => ~empty
        /\ UNCHANGED <<info, empty, asked, crashes>>
    BY <1>0, <1>6 DEF TransferOut, WithItem, Leaves, Flags, AtOut
  <2>2. CASE /\ files[name] # None /\ home' = Put(home, place, files[name]) /\ files' = Put(files, name, None)
             /\ Goto(s, "outsub") /\ UNCHANGED local
    <3>1. NoLoss' /\ FilesListed' /\ Whole'
      BY <1>0, <2>1, <2>2 DEF NoLoss, FilesListed, Whole, Granted
    <3>2. Makes(s)' /\ Leaves(s)'
      BY <1>0, <2>1, <2>2 DEF Makes, Leaves
    <3>3. Deletes(s)' /\ Empties(s)' /\ Flags(s)'
      BY <1>0, <2>1, <2>2 DEF Deletes, Empties, Flags
    <3> QED
      BY <3>1, <3>2, <3>3, OnlySlave
  <2>3. CASE Finish(s) /\ UNCHANGED <<home, files>>
    <3>1. (crashes = 0 => (empty <=> Unlisted(Names)))'
      BY <2>1 DEF Unlisted
    <3> QED
      BY <2>1, <2>3, <3>1, QuietAlone, FinishAlone, OnlySlave
  <2> QED
    BY <1>6, <2>2, <2>3 DEF TransferOut, CanRename
<1>7. CASE DeleteInfo(s)
  <2>1. /\ name \in Names /\ info[name] # None /\ files[name] \notin Items
        /\ pc'[s] = "isEmpty" /\ ret'[s] = "idle" /\ info' = Put(info, name, None)
        /\ act' = act /\ UNCHANGED <<home, files, empty, asked, crashes>>
    BY <1>0, <1>7 DEF DeleteInfo, WithItem, Leaves
  <2>2. NoLoss' /\ FilesListed' /\ Whole'
    BY <1>0, <2>1 DEF NoLoss, FilesListed, Whole
  <2>3. Makes(s)' /\ Leaves(s)' /\ Deletes(s)' /\ Empties(s)'
    BY <1>0, <2>1 DEF Makes, Leaves, Deletes, Empties
  <2>4. Flags(s)'
    BY <1>0, <1>7, <2>1 DEF DeleteInfo, Flags, Unlisted
  <2> QED
    BY <2>2, <2>3, <2>4, OnlySlave
<1>8. CASE DelFile(s)
  <2>1. /\ pc[s] = "delfile" /\ victim \in Names /\ info[victim] # None /\ Granted(files[victim])
        /\ UNCHANGED <<home, info, empty, asked, crashes>>
    BY <1>0, <1>8 DEF DelFile, WithVictim, Deletes, AtDel
  <2>2. CASE Return(s) /\ UNCHANGED files /\ ret[s] = "idle"
    <3>1. Finish(s)
      BY <2>2 DEF Return
    <3>2. (crashes = 0 => (empty <=> Unlisted(Names)))'
      BY <1>0, <2>1, <2>2 DEF Flags, AtDel, Unlisted
    <3> QED
      BY <2>1, <2>2, <3>1, <3>2, QuietAlone, FinishAlone, OnlySlave
  <2>3. CASE Return(s) /\ UNCHANGED files /\ ret[s] # "idle"
    BY <1>0, <2>1, <2>3, QuietAlone, ReturnAlone, OnlySlave
  <2>4. CASE files' = Put(files, victim, None) /\ Goto(s, "delsub") /\ UNCHANGED local
    <3>1. NoLoss' /\ FilesListed' /\ Whole'
      BY <1>0, <2>1, <2>4 DEF NoLoss, FilesListed, Whole, Granted
    <3>2. Makes(s)' /\ Leaves(s)'
      BY <1>0, <2>1, <2>4 DEF Makes, Leaves
    <3>3. Deletes(s)' /\ Empties(s)'
      BY <1>0, <2>1, <2>4 DEF Deletes, Empties, AtDel, AtEmpty
    <3>4. Flags(s)'
      BY <1>0, <2>1, <2>4 DEF Flags, Unlisted
    <3> QED
      BY <3>1, <3>2, <3>3, <3>4, OnlySlave
  <2> QED
    BY <1>8, <2>2, <2>3, <2>4 DEF DelFile
<1>9. CASE DelInfo(s)
  <2>1. /\ pc[s] = "delinfo" /\ pc'[s] = "isEmpty" /\ victim \in Names
        /\ info[victim] # None /\ files[victim] \notin Items /\ info' = Put(info, victim, None)
        /\ UNCHANGED <<home, files, empty, asked, crashes, local>>
    BY <1>0, <1>9 DEF DelInfo, WithVictim, Deletes, AtDel
  <2>2. NoLoss' /\ FilesListed' /\ Whole'
    BY <1>0, <2>1 DEF NoLoss, FilesListed, Whole
  <2>3. Makes(s)' /\ Leaves(s)' /\ Deletes(s)' /\ Empties(s)'
    BY <1>0, <2>1 DEF Makes, Leaves, Deletes, Empties
  <2>4. Flags(s)'
    BY <1>0, <2>1 DEF Flags, Unlisted
  <2> QED
    BY <2>2, <2>3, <2>4, OnlySlave
<1>10. CASE IsEmpty(s)
  <2>1. NoLoss' /\ FilesListed' /\ Whole'
    BY <1>10, QuietAlone DEF IsEmpty
  <2>2. CASE Unlisted(Names)
    <3>1. pc[s] = "isEmpty" /\ ret[s] = "idle"
      BY <1>0, <1>10, <2>2 DEF IsEmpty, Unlisted, Written, Makes, NewEntry, Nested
    <3>2. pc'[s] = "setEmpty" /\ UNCHANGED <<home, info, files, empty, asked, crashes, local>>
      BY <1>10, <2>2 DEF IsEmpty, Unlisted
    <3>3. Knows(s)'
      BY <1>0, <2>2, <3>1, <3>2 DEF Makes, Leaves, Deletes, Empties, Flags, NewEntry, Nested, AtEntry,
                                    AtOut, AtDel, AtEmpty, Unlisted
    <3> QED
      BY <2>1, <3>3, OnlySlave
  <2>3. CASE ~Unlisted(Names)
    <3>1. pc[s] = "isEmpty" /\ Return(s) /\ UNCHANGED <<home, info, files, empty, asked, crashes>>
      BY <1>10, <2>3 DEF IsEmpty, Unlisted
    <3>2. CASE ret[s] = "idle"
      <4>1. Finish(s)
        BY <3>1, <3>2 DEF Return
      <4>2. (crashes = 0 => (empty <=> Unlisted(Names)))'
        BY <1>0, <2>3, <3>1, <3>2 DEF Flags, Unlisted
      <4> QED
        BY <2>1, <4>1, <4>2, FinishAlone, OnlySlave
    <3>3. CASE ret[s] # "idle"
      BY <1>0, <2>1, <3>1, <3>3, ReturnAlone, OnlySlave
    <3> QED
      BY <3>2, <3>3
  <2> QED
    BY <2>2, <2>3
<1>11. CASE SetEmpty(s)
  <2>1. /\ pc[s] = "setEmpty" /\ Unlisted(Names) /\ empty' = TRUE /\ Return(s)
        /\ UNCHANGED <<home, info, files, asked, crashes>>
    BY <1>0, <1>11 DEF SetEmpty, Flags
  <2>2. ret[s] = "idle"
    BY <1>0, <2>1 DEF Unlisted, Written, Makes, NewEntry, Nested
  <2>3. Finish(s) /\ (crashes = 0 => (empty <=> Unlisted(Names)))'
    BY <2>1, <2>2 DEF Return, Unlisted
  <2> QED
    BY <2>1, <2>3, QuietAlone, FinishAlone, OnlySlave
<1>12. CASE EmptyFile(s)
  <2>1. /\ pc[s] = "edel" /\ victim \in Names /\ Granted(files[victim]) /\ ret[s] = "idle"
        /\ UNCHANGED <<home, info, empty, asked, crashes, act, nm, path, vic, ret, todo>>
    BY <1>0, <1>12 DEF EmptyFile, WithVictim, Empties, Deletes, AtEmpty
  <2>2. \/ files[victim] \in Stubborn /\ pc'[s] = "eclear" /\ kept' = Put(kept, s, kept[s] \cup {victim}) /\ files' = files
        \/ pc'[s] = "einfo" /\ files' = Put(files, victim, None) /\ kept' = kept
    BY <1>12 DEF EmptyFile
  <2>3. NoLoss' /\ FilesListed' /\ Whole'
    BY <1>0, <2>1, <2>2 DEF NoLoss, FilesListed, Whole, Granted
  <2>4. Makes(s)' /\ Leaves(s)' /\ Deletes(s)'
    BY <1>0, <2>1, <2>2 DEF Makes, Leaves, Deletes
  <2>5. Empties(s)'
    <3>1. pc'[s] \in {"eclear", "einfo"} /\ \A n \in Names : files'[n] # files[n] => n = victim /\ files'[n] = None
      BY <2>1, <2>2
    <3>2. ASSUME NEW n \in Names, n \in kept'[s] PROVE files'[n] \in Stubborn
      <4>1. n \in kept[s] => files[n] \in Stubborn
        BY <1>0, <2>1 DEF Empties, AtEmpty
      <4>2. CASE files[victim] \in Stubborn /\ kept' = Put(kept, s, kept[s] \cup {victim}) /\ files' = files
        BY <3>2, <4>1, <4>2
      <4>3. CASE files' = Put(files, victim, None) /\ kept' = kept /\ files[victim] \notin Stubborn
        BY <3>2, <4>1, <4>3
      <4> QED
        BY <1>12, <2>2, <4>2, <4>3 DEF EmptyFile
    <3>3. \A n \in Names : info[n] \in Items =>
             \/ files'[n] \in Stubborn /\ n \in kept'[s]
             \/ n \in todo[s]
             \/ pc'[s] = "einfo" /\ n = victim
      BY <1>0, <2>1, <2>2 DEF Empties, AtEmpty
    <3> QED
      BY <1>0, <2>1, <3>1, <3>2, <3>3 DEF Empties, Granted, AtEmpty
  <2>6. Flags(s)'
    BY <1>0, <2>1, <2>2 DEF Flags, Unlisted
  <2> QED
    BY <2>3, <2>4, <2>5, <2>6, OnlySlave
<1>13. CASE EmptyInfo(s)
  <2>1. /\ pc[s] = "einfo" /\ pc'[s] = "eclear" /\ victim \in Names /\ files[victim] \notin Items
        /\ info' = Put(info, victim, None) /\ ret[s] = "idle"
        /\ UNCHANGED <<home, files, empty, asked, crashes, local>>
    BY <1>0, <1>13 DEF EmptyInfo, WithVictim, Deletes, AtEmpty
  <2>2. NoLoss' /\ FilesListed' /\ Whole'
    BY <1>0, <2>1 DEF NoLoss, FilesListed, Whole
  <2>3. Makes(s)' /\ Leaves(s)' /\ Deletes(s)'
    BY <1>0, <2>1 DEF Makes, Leaves, Deletes
  <2>4. Empties(s)' /\ Flags(s)'
    BY <1>0, <2>1 DEF Empties, Flags, Granted, Unlisted
  <2> QED
    BY <2>2, <2>3, <2>4, OnlySlave
<1>14. CASE CleanOrphan(s)
  <2>1. PICK m \in todo[s] :
          /\ files' = IF m \in kept[s] \/ Resists(files[m]) THEN files ELSE Put(files, m, None)
          /\ todo' = Put(todo, s, todo[s] \ {m})
    BY <1>14 DEF CleanOrphan
  <2>2. /\ pc[s] = "orphans" /\ m \in Names /\ Granted(files[m]) /\ ret[s] = "idle"
        /\ UNCHANGED <<home, info, empty, asked, crashes, pc, act, nm, path, vic, ret, kept>>
    BY <1>0, <1>14 DEF CleanOrphan, Empties, Deletes, AtEmpty
  <2>3. NoLoss' /\ FilesListed' /\ Whole'
    BY <1>0, <2>1, <2>2 DEF NoLoss, FilesListed, Whole, Granted
  <2>4. Makes(s)' /\ Leaves(s)' /\ Deletes(s)' /\ Flags(s)'
    BY <1>0, <2>2 DEF Makes, Leaves, Deletes, Flags, Unlisted
  <2>5. Empties(s)'
    BY <1>0, <2>1, <2>2 DEF Empties, Granted, Resists, AtEmpty
  <2> QED
    BY <2>3, <2>4, <2>5, OnlySlave
<1> QED
  BY <1>1, <1>2, <1>3, <1>4, <1>5, <1>6, <1>7, <1>8, <1>9, <1>10, <1>11, <1>12, <1>13, <1>14

\* Where nobody else is at work, a request never loses an item, keeps every file
\* listed and leaves the flag right, whatever fails and whenever it is killed.
THEOREM AloneInvariant ==
    ASSUME OneSlave, NoLeftovers PROVE Spec => []AloneInv
<1>1. Init => AloneInv
  BY InitAlone
<1>2. TypeOK /\ AloneInv /\ [Next]_vars => AloneInv'
  <2> SUFFICES ASSUME TypeOK, AloneInv, [Next]_vars PROVE AloneInv'
    OBVIOUS
  <2>1. CASE UNCHANGED vars
    <3>1. NoLoss' /\ FilesListed' /\ Whole'
      BY <2>1, QuietAlone DEF vars, disk
    <3>2. \A s \in Slaves : Makes(s)' /\ Leaves(s)' /\ Deletes(s)' /\ Empties(s)'
      BY <2>1 DEF AloneInv, Makes, Leaves, Deletes, Empties, NewEntry, Nested, Granted, vars, disk, local
    <3>3. \A s \in Slaves : Flags(s)'
      BY <2>1 DEF AloneInv, Flags, NewEntry, Nested, Unlisted, vars, disk, local
    <3> QED
      BY <3>1, <3>2, <3>3 DEF AloneInv
  <2>2. ASSUME NEW s \in Slaves, Crash(s) PROVE AloneInv'
    <3>1. (crashes = 0 => (empty <=> Unlisted(Names)))'
      BY <2>2, TrashAssumption DEF Crash, TypeOK
    <3>2. Finish(s) /\ UNCHANGED <<home, info, files, asked>>
      BY <2>2 DEF Crash, disk
    <3> QED
      BY <3>1, <3>2, QuietAlone, FinishAlone, OnlySlave
  <2>3. ASSUME NEW s \in Slaves, Serve(s) PROVE AloneInv'
    BY <2>3, QuietServeAlone, LoudServeAlone DEF Serve
  <2> QED
    BY <2>1, <2>2, <2>3, RequestAlone DEF Next
<1> QED
  BY <1>1, <1>2, TypeCorrect, PTL DEF Spec

\* Nothing a user put in the trash is lost.
THEOREM AloneNothingLost == ASSUME OneSlave, NoLeftovers PROVE Spec => []NoLoss
<1>1. AloneInv => NoLoss
  BY DEF AloneInv
<1> QED
  BY <1>1, AloneInvariant, PTL

\* What lies in files/ has a .trashinfo, readable unless it could not be written
\* out, with emptying and between file systems too.
THEOREM AloneFilesListed == ASSUME OneSlave, NoLeftovers PROVE Spec => []FilesListed
<1>1. AloneInv => FilesListed
  BY DEF AloneInv
<1> QED
  BY <1>1, AloneInvariant, PTL

\* The icon on the desktop is right when nothing runs and nothing was killed.
THEOREM AloneFlagExact == ASSUME OneSlave, NoLeftovers, Slaves # {} PROVE Spec => []FlagExact
<1>1. AloneInv => FlagExact
  BY DEF AloneInv, Flags, FlagExact, AllIdle, Unlisted
<1> QED
  BY <1>1, AloneInvariant, PTL

\* After emptyTrash the trash has what could not be removed, and nothing hidden.
THEOREM AloneEmptied == ASSUME OneSlave, NoLeftovers PROVE Spec => EmptyIsComplete
<1> DEFINE Complete(s) ==
             pc[s] = "orphans" /\ pc'[s] = "isEmpty" =>
               \A n \in Names : /\ info[n] \in Items => files[n] \in Stubborn
                                /\ files[n] # None /\ ~Resists(files[n]) => info[n] \in Items
<1>1. ASSUME TypeOK, AloneInv, [Next]_vars, NEW s \in Slaves,
             pc[s] = "orphans", pc'[s] = "isEmpty"
      PROVE  todo[s] = {}
  <2>1. PICK t \in Slaves : Request(t) \/ Serve(t) \/ Crash(t)
    BY <1>1 DEF Next, vars
  <2>2. t = s
    BY DEF OneSlave
  <2>3. ~Request(s) /\ ~Crash(s)
    BY <1>1 DEF Request, CreateInfo, MoveOut, CopyFromTrash, RequestDel, RequestEmpty,
                Crash, Finish, Goto, TypeOK, SlaveOK
  <2>4. CleanOrphan(s) \/ EndEmpty(s)
    BY <1>1, <2>1, <2>2, <2>3
       DEF Serve, WriteInfo, AgeLimit, NextVictim, SizeLimit, CheckRoom, MeasureIn, Initialize,
           Transfer, CleanDest, AddSize, FileAdded, RemoveDest, MeasureOut, TransferOut,
           RemoveSize, DeleteInfo, DelFile, DelInfo, IsEmpty, SetEmpty, EmptyNext, EmptyFile,
           EmptyInfo, ClearSize
  <2> QED
    BY <1>1, <2>4 DEF CleanOrphan, EndEmpty
<1>2. TypeOK /\ AloneInv /\ [Next]_vars => [\A s \in Slaves : Complete(s)]_vars
  BY <1>1 DEF AloneInv, Empties, AtEmpty
<1> QED
  BY <1>2, TypeCorrect, AloneInvariant, PTL DEF Spec, EmptyIsComplete

------------------------------------------------------------------------------
(* The cached size, while slaves only add to the trash.                       *)

\* Items only come, each whole or not at all, and the sizes fit their type.
OnlyAdding ==
    /\ Requests \subseteq {"trash", "copy"} /\ LimitAction # "delete" /\ ~TimeLimit
    /\ "copy" \in Requests => Dirs = {}
    /\ IsFiniteSet(Slaves) /\ Cardinality(Names) < Wrap

\* The phases in which a slave owns the name it chose, with no file in it yet.
Choosing(s) == pc[s] \in {"write", "age", "fit", "size", "init", "move", "undo"}
Owns(s) == Choosing(s) \/ pc[s] = "clean"

\* What a slave that adds to the trash relies on.
Adder(s) ==
    /\ pc[s] \in {"idle", "clean", "add", "flag", "isEmpty", "setEmpty"} \/ Choosing(s)
    /\ ret[s] = "idle"
    /\ act[s] = "copy" => "copy" \in Requests
    /\ Owns(s) => info[nm[s]] # None
    /\ Choosing(s) => files[nm[s]] = None
    /\ pc[s] \in {"init", "move"} /\ home[path[s]] # None => ps[s] = 1
    /\ pc[s] = "add" => ps[s] = 1
    /\ pc[s] \in {"move", "clean", "add"} => cache # None

\* Names are owned by one slave each, and a name with a file is not free.
Owners ==
    /\ \A p \in Items : home[p] # Part
    /\ \A n \in Names : files[n] # None => info[n] # None /\ files[n] # Part
    /\ \A s, t \in Slaves : Owns(s) /\ Owns(t) /\ nm[s] = nm[t] => s = t

CacheInv == Owners /\ (\A s \in Slaves : Adder(s)) /\ CacheExact

Uncleaned == {s \in At("clean") : files[nm[s]] # None}

\* Counting the files: one comes, one goes, all fit.
LEMMA CountFiles ==
    ASSUME TypeOK, OnlyAdding
    PROVE  /\ SizeOfFiles \in 0 .. Wrap - 1
           /\ cache = None => CurrentSize = SizeOfFiles
<1> USE TrashAssumption
<1> DEFINE F == {n \in Names : files[n] # None}
<1>1. Cardinality(F) <= Cardinality(Names)
  BY FS_Subset
<1>2. Cardinality(F) \in Nat /\ Cardinality(Names) \in Nat
  BY FS_Subset, FS_CardinalityType
<1>3. SizeOfFiles \in 0 .. Wrap - 1
  BY <1>1, <1>2 DEF SizeOfFiles, OnlyAdding
<1> QED
  BY <1>3 DEF CurrentSize

LEMMA CountChange ==
    ASSUME NEW n \in Names, \A m \in Names \ {n} : files'[m] = files[m]
    PROVE  /\ files[n] = None /\ files'[n] # None => SizeOfFiles' = SizeOfFiles + 1
           /\ files[n] # None /\ files'[n] = None => SizeOfFiles' = SizeOfFiles - 1
           /\ files[n] = files'[n] => SizeOfFiles' = SizeOfFiles
<1> DEFINE F == {m \in Names : files[m] # None}
           G == {m \in Names : files'[m] # None}
<1>1. IsFiniteSet(F) /\ Cardinality(F) \in Nat
  BY TrashAssumption, FS_Subset, FS_CardinalityType
<1>2. SizeOfFiles = Cardinality(F) /\ SizeOfFiles' = Cardinality(G)
  BY DEF SizeOfFiles
<1>3. CASE files[n] = None /\ files'[n] # None
  <2>1. G = F \cup {n} /\ n \notin F
    BY <1>3
  <2>2. Cardinality(G) = Cardinality(F) + 1
    BY <1>1, <2>1, FS_AddElement
  <2> QED
    BY <1>2, <1>3, <2>2
<1>4. CASE files[n] # None /\ files'[n] = None
  <2>1. G = F \ {n} /\ n \in F
    BY <1>4
  <2>2. Cardinality(G) = Cardinality(F) - 1
    BY <1>1, <2>1, FS_RemoveElement
  <2> QED
    BY <1>2, <1>4, <2>2
<1>5. CASE files[n] = files'[n]
  <2>1. G = F
    BY <1>5
  <2> QED
    BY <1>2, <1>5, <2>1
<1> QED
  BY <1>3, <1>4, <1>5

\* Counting the slaves in one phase.
LEMMA CountSlaves ==
    ASSUME OnlyAdding, NEW S \in SUBSET Slaves, NEW s \in Slaves
    PROVE  /\ Cardinality(S) \in Nat /\ Cardinality({}) = 0
           /\ s \notin S => Cardinality(S \cup {s}) = Cardinality(S) + 1
           /\ s \in S => Cardinality(S \ {s}) = Cardinality(S) - 1
<1>1. IsFiniteSet(S)
  BY FS_Subset DEF OnlyAdding
<1> QED
  BY <1>1, FS_CardinalityType, FS_EmptySet, FS_AddElement, FS_RemoveElement

\* Nobody but s does anything, and s touches no name that another one owns.
Apart(s) ==
    /\ \A t \in Slaves \ {s} : /\ pc'[t] = pc[t] /\ act'[t] = act[t] /\ nm'[t] = nm[t]
                               /\ path'[t] = path[t] /\ ps'[t] = ps[t] /\ ret'[t] = ret[t]
    /\ \A n \in Names : info'[n] # info[n] \/ files'[n] # files[n]
                          => \A t \in Slaves \ {s} : Owns(t) => nm[t] # n
    /\ \A p \in Items : home'[p] \in {home[p], None}
    /\ cache # None => cache' # None

LEMMA OwnsName == ASSUME TypeOK, NEW s \in Slaves, Owns(s) PROVE nm[s] \in Names
  BY DEF TypeOK, SlaveOK, Owns, Choosing, WithItem

\* What the others rely on stays, and each name has one owner.
LEMMA OthersAdd ==
    ASSUME TypeOK, CacheInv, NEW s \in Slaves, Apart(s), Adder(s)',
           \A n \in Names : files'[n] # None => info'[n] # None /\ files'[n] # Part,
           Owns(s)' => \A t \in Slaves \ {s} : Owns(t) => nm[t] # nm'[s]
    PROVE  Owners' /\ \A t \in Slaves : Adder(t)'
<1>1. \A t \in Slaves \ {s} : (Owns(t)' <=> Owns(t)) /\ (Choosing(t)' <=> Choosing(t))
  BY DEF Apart, Owns, Choosing
<1>2. ASSUME NEW t \in Slaves \ {s} PROVE Adder(t)'
  <2>1. Owns(t) => info'[nm[t]] = info[nm[t]] /\ files'[nm[t]] = files[nm[t]]
    BY OwnsName DEF Apart
  <2>2. pc[t] \in {"init", "move"} => path[t] \in Items
    BY DEF TypeOK, SlaveOK, WithItem
  <2>3. Choosing(t) => Owns(t)
    BY DEF Owns
  <2>4. Adder(t)
    BY DEF CacheInv
  <2> QED
    BY <1>1, <2>1, <2>2, <2>3, <2>4 DEF Adder, Apart
<1>3. \A p \in Items : home'[p] # Part
  BY TrashAssumption DEF Apart, CacheInv, Owners
<1>4. ASSUME NEW t \in Slaves, NEW u \in Slaves, Owns(t)', Owns(u)', nm'[t] = nm'[u]
      PROVE  t = u
  <2>1. CASE t = s \/ u = s
    BY <1>1, <1>4, <2>1 DEF Apart
  <2>2. CASE t # s /\ u # s
    BY <1>1, <1>4, <2>2 DEF Apart, CacheInv, Owners
  <2> QED
    BY <2>1, <2>2
<1> QED
  BY <1>2, <1>3, <1>4 DEF Owners

LEMMA SumForm == Due = SizeOfFiles - Cardinality(At("add")) - Cardinality(Uncleaned)
  BY DEF Due, Uncleaned

LEMMA SumNext == Due' = SizeOfFiles' - Cardinality(At("add")') - Cardinality(Uncleaned')
  BY DEF Due, Uncleaned, At

LEMMA SumType ==
    ASSUME TypeOK, OnlyAdding
    PROVE  /\ Due \in Int /\ crashes \in Nat /\ SizeOfFiles \in Nat
           /\ Cardinality(At("add")) \in Nat /\ Cardinality(Uncleaned) \in Nat
<1>1. Cardinality(At("add")) \in Nat /\ Cardinality(Uncleaned) \in Nat
  <2>1. At("add") \subseteq Slaves /\ Uncleaned \subseteq Slaves
    BY DEF At, Uncleaned
  <2> QED
    BY <2>1, FS_Subset, FS_CardinalityType DEF OnlyAdding
<1>2. SizeOfFiles \in Nat /\ crashes \in Nat
  BY CountFiles, TrashAssumption DEF TypeOK
<1> QED
  BY <1>1, <1>2, SumForm

\* A step that adds no file and ends no add() keeps the sum.
LEMMA SumStays ==
    ASSUME TypeOK, OnlyAdding, CacheInv, NEW s \in Slaves, Apart(s),
           crashes' = crashes, pc[s] \notin {"add", "clean"},
           pc'[s] \notin {"add", "clean"}, files' = files,
           cache' = cache \/ cache' = CurrentSize
    PROVE  CacheExact'
<1>1. Due' = Due
  <2>1. At("add")' = At("add") /\ Uncleaned' = Uncleaned /\ SizeOfFiles' = SizeOfFiles
    BY DEF At, Uncleaned, Apart, SizeOfFiles
  <2> QED
    BY <2>1, SumForm, SumNext
<1>2. CASE cache # None
  BY <1>1, <1>2 DEF CacheInv, CacheExact, CurrentSize
<1>3. CASE cache = None
  <2>1. At("add") = {} /\ Uncleaned = {}
    BY <1>3 DEF CacheInv, Adder, At, Uncleaned
  <2>2. Due = SizeOfFiles
    BY <2>1, SumForm, SumType, FS_EmptySet
  <2>3. CurrentSize = SizeOfFiles
    BY <1>3, CountFiles
  <2> QED
    BY <1>1, <1>3, <2>2, <2>3, SumType DEF CacheExact
<1> QED
  BY <1>2, <1>3

\* A step that leaves info/ and files/ alone and owns nothing new.
LEMMA QuietAdds ==
    ASSUME TypeOK, CacheInv, NEW s \in Slaves, Apart(s), Adder(s)', UNCHANGED <<info, files>>,
           Owns(s)' => Owns(s) /\ nm'[s] = nm[s], CacheExact'
    PROVE  CacheInv'
<1>1. \A n \in Names : files'[n] # None => info'[n] # None /\ files'[n] # Part
  BY DEF CacheInv, Owners
<1>2. Owns(s)' => \A t \in Slaves \ {s} : Owns(t) => nm[t] # nm'[s]
  BY DEF CacheInv, Owners
<1>3. Owners' /\ \A t \in Slaves : Adder(t)'
  BY <1>1, <1>2, OthersAdd
<1> QED
  BY <1>3 DEF CacheInv

\* A request ends.
LEMMA FinishAdds ==
    ASSUME TypeOK, OnlyAdding, CacheInv, NEW s \in Slaves, Finish(s),
           UNCHANGED <<home, info, files, cache, crashes>>,
           pc[s] \notin {"add", "clean"}
    PROVE  CacheInv'
<1>1. pc'[s] = "idle" /\ ret'[s] = "idle" /\ act'[s] = "none"
  BY DEF TypeOK, SlaveOK, Finish, Forget, Goto, Put
<1>2. Apart(s)
  BY DEF TypeOK, SlaveOK, Finish, Forget, Goto, Put, Apart
<1>3. Adder(s)' /\ ~Owns(s)'
  BY <1>1 DEF Adder, Owns, Choosing
<1>4. CacheExact'
  BY <1>1, <1>2, SumStays
<1> QED
  BY <1>2, <1>3, <1>4, QuietAdds

LEMMA RequestAdds ==
    ASSUME TypeOK, OnlyAdding, CacheInv, NEW s \in Slaves, Request(s)
    PROVE  CacheInv'
<1> USE TrashAssumption DEF TypeOK, DiskOK, SlaveOK
<1>1. PICK p \in Items, a \in {"trash", "copy"} : CreateInfo(s, p, a)
  BY DEF Request, MoveOut, CopyFromTrash, RequestDel, RequestEmpty, OnlyAdding
<1>2. PICK n \in Names : info[n] = None /\ info' = Put(info, n, Blank) /\ nm' = Put(nm, s, n)
  BY <1>1 DEF CreateInfo, FreeName
<1>3. /\ pc[s] = "idle" /\ pc'[s] = "write" /\ nm'[s] = n /\ info'[n] = Blank /\ act'[s] = a
      /\ a \in Requests /\ UNCHANGED <<home, files, cache, crashes, ret>>
  BY <1>1, <1>2 DEF CreateInfo, Goto, Put
<1>4. files[n] = None
  BY <1>2 DEF CacheInv, Owners
<1>5. \A t \in Slaves : Owns(t) => nm[t] # n
  BY <1>2 DEF CacheInv, Adder
<1>6. Apart(s)
  BY <1>1, <1>2, <1>5 DEF CreateInfo, Apart, Goto, Put
<1>7. Adder(s)'
  BY <1>3, <1>4 DEF CacheInv, Adder, Owns, Choosing
<1>8. \A m \in Names : files'[m] # None => info'[m] # None /\ files'[m] # Part
  BY <1>2, <1>3 DEF CacheInv, Owners, Put
<1>9. Owners' /\ \A t \in Slaves : Adder(t)'
  BY <1>3, <1>5, <1>6, <1>7, <1>8, OthersAdd
<1>10. CacheExact'
  BY <1>3, <1>6, SumStays
<1> QED
  BY <1>9, <1>10 DEF CacheInv

\* A killed slave leaves at most one file behind that is not counted.
LEMMA CrashAdds ==
    ASSUME TypeOK, OnlyAdding, CacheInv, NEW s \in Slaves, Crash(s)
    PROVE  CacheInv'
<1>1. /\ pc'[s] = "idle" /\ ret'[s] = "idle" /\ act'[s] = "none" /\ Finish(s)
      /\ crashes' = crashes + 1 /\ UNCHANGED disk
  BY DEF TypeOK, SlaveOK, Crash, Finish, Forget, Goto, Put
<1>2. Apart(s)
  BY <1>1 DEF TypeOK, SlaveOK, Finish, Forget, Goto, Put, Apart, disk
<1>3. Adder(s)' /\ ~Owns(s)'
  BY <1>1 DEF Adder, Owns, Choosing
<1>4. Due' \in {Due, Due + 1}
  <2>1. At("add")' = At("add") \ {s} /\ Uncleaned' = Uncleaned \ {s} /\ SizeOfFiles' = SizeOfFiles
    BY <1>1, <1>2 DEF At, Uncleaned, Apart, SizeOfFiles, disk
  <2>2. At("add") \in SUBSET Slaves /\ Uncleaned \in SUBSET Slaves
    BY DEF At, Uncleaned
  <2>3. s \notin At("add") \/ s \notin Uncleaned
    BY DEF At, Uncleaned
  <2>4. CASE s \in At("add")
    <3>1. Cardinality(At("add")') = Cardinality(At("add")) - 1 /\ Uncleaned' = Uncleaned
      BY <2>1, <2>2, <2>3, <2>4, CountSlaves
    <3> QED
      BY <2>1, <3>1, SumForm, SumNext, SumType
  <2>5. CASE s \in Uncleaned
    <3>1. Cardinality(Uncleaned') = Cardinality(Uncleaned) - 1 /\ At("add")' = At("add")
      BY <2>1, <2>2, <2>3, <2>5, CountSlaves
    <3> QED
      BY <2>1, <3>1, SumForm, SumNext, SumType
  <2>6. CASE s \notin At("add") /\ s \notin Uncleaned
    <3>1. At("add")' = At("add") /\ Uncleaned' = Uncleaned
      BY <2>1, <2>6
    <3> QED
      BY <2>1, <3>1, SumForm, SumNext
  <2> QED
    BY <2>4, <2>5, <2>6
<1>5. CacheExact'
  BY <1>1, <1>4, SumType DEF CacheInv, CacheExact, disk
<1> QED
  BY <1>1, <1>2, <1>3, <1>5, QuietAdds DEF disk

\* The steps before the transfer, after it, and of fileRemoved().
LEMMA QuietServeAdds ==
    ASSUME TypeOK, OnlyAdding, CacheInv, NEW s \in Slaves,
           \/ AgeLimit(s) \/ SizeLimit(s) \/ MeasureIn(s) \/ Initialize(s) \/ FileAdded(s)
           \/ IsEmpty(s) \/ SetEmpty(s)
    PROVE  CacheInv'
<1>0. Adder(s)
  BY DEF CacheInv
<1> USE <1>0, TrashAssumption DEF TypeOK, DiskOK, SlaveOK, Goto, Put, disk, local
<1>1. CASE AgeLimit(s)
  <2>1. pc[s] = "age" /\ pc'[s] = "fit" /\ UNCHANGED <<disk, local, crashes>>
    BY <1>1 DEF AgeLimit, OnlyAdding
  <2>2. Apart(s) /\ Adder(s)' /\ Owns(s)
    BY <1>1, <2>1 DEF AgeLimit, Apart, Adder, Owns, Choosing
  <2> QED
    BY <2>1, <2>2, SumStays, QuietAdds
<1>2. CASE SizeLimit(s)
  <2>1. /\ pc[s] = "fit" /\ pc'[s] \in {"size", "undo"} /\ cache' \in {cache, CurrentSize}
        /\ UNCHANGED <<home, info, files, act, path, nm, ret, crashes>>
    BY <1>2 DEF SizeLimit, OnlyAdding
  <2>2. Apart(s)
    BY <1>2, <2>1 DEF SizeLimit, Apart, CurrentSize
  <2>3. Adder(s)' /\ Owns(s)
    BY <2>1 DEF Adder, Owns, Choosing
  <2> QED
    BY <2>1, <2>2, <2>3, SumStays, QuietAdds
<1>3. CASE MeasureIn(s)
  <2>1. /\ pc[s] = "size" /\ pc'[s] = "init" /\ ps' = Put(ps, s, SizeAt(home, path[s]))
        /\ UNCHANGED <<disk, act, path, nm, ret, crashes>>
    BY <1>3 DEF MeasureIn
  <2>2. Apart(s) /\ Adder(s)' /\ Owns(s)
    BY <1>3, <2>1 DEF MeasureIn, Apart, Adder, Owns, Choosing, SizeAt
  <2> QED
    BY <2>1, <2>2, SumStays, QuietAdds
<1>4. CASE Initialize(s)
  <2>1. /\ pc[s] = "init" /\ pc'[s] = "move" /\ cache' = CurrentSize
        /\ UNCHANGED <<home, info, files, local, crashes>>
    BY <1>4 DEF Initialize, Adder, Choosing
  <2>2. CurrentSize # None
    BY SizeType
  <2>3. Apart(s) /\ Adder(s)' /\ Owns(s)
    BY <1>4, <2>1, <2>2 DEF Initialize, Apart, Adder, Owns, Choosing
  <2> QED
    BY <2>1, <2>3, SumStays, QuietAdds
<1>5. CASE FileAdded(s)
  BY <1>5, FinishAdds DEF FileAdded
<1>6. CASE IsEmpty(s)
  <2>1. pc[s] = "isEmpty" /\ UNCHANGED <<disk, crashes>>
    BY <1>6 DEF IsEmpty
  <2>2. CASE Finish(s)
    BY <2>1, <2>2, FinishAdds
  <2>3. CASE Goto(s, "setEmpty") /\ UNCHANGED local
    <3>1. Apart(s) /\ Adder(s)' /\ ~Owns(s)'
      BY <2>1, <2>3 DEF Apart, Adder, Owns, Choosing
    <3> QED
      BY <2>1, <2>3, <3>1, SumStays, QuietAdds
  <2> QED
    BY <1>6, <2>2, <2>3 DEF IsEmpty, Return, Adder
<1>7. CASE SetEmpty(s)
  BY <1>7, FinishAdds DEF SetEmpty, Return, Adder
<1> QED
  BY <1>1, <1>2, <1>3, <1>4, <1>5, <1>6, <1>7

\* The steps that write under the name that s owns.
LEMMA NameServeAdds ==
    ASSUME TypeOK, OnlyAdding, CacheInv, NEW s \in Slaves,
           \/ WriteInfo(s) \/ Transfer(s) \/ CleanDest(s) \/ AddSize(s) \/ DeleteInfo(s)
    PROVE  CacheInv'
<1> DEFINE name == nm[s]
<1>0. /\ Adder(s)
      /\ Owns(s) => name \in Names /\ \A t \in Slaves \ {s} : Owns(t) => nm[t] # name
  BY OwnsName DEF CacheInv, Owners
<1> USE <1>0, TrashAssumption DEF TypeOK, DiskOK, SlaveOK, Goto, Put, local
<1>1. CASE WriteInfo(s)
  <2>1. /\ pc[s] = "write" /\ Owns(s) /\ files[name] = None /\ path[s] \in Items
        /\ UNCHANGED <<home, files, cache, crashes>>
    BY <1>1 DEF WriteInfo, Adder, Owns, Choosing, WithItem
  <2>2. CASE /\ info' \in {Put(info, nm[s], path[s]), Put(info, nm[s], Unsaved)}
             /\ Goto(s, "age") /\ UNCHANGED local
    <3>1. Apart(s) /\ Adder(s)'
      BY <2>1, <2>2 DEF Apart, Adder, Owns, Choosing
    <3>2. \A n \in Names : files'[n] # None => info'[n] # None /\ files'[n] # Part
      BY <2>1, <2>2 DEF CacheInv, Owners
    <3>3. Owners' /\ \A t \in Slaves : Adder(t)'
      BY <2>1, <2>2, <3>1, <3>2, OthersAdd
    <3>4. CacheExact'
      BY <2>1, <2>2, <3>1, SumStays
    <3> QED
      BY <3>3, <3>4 DEF CacheInv
  <2>3. CASE info' = Put(info, nm[s], None) /\ Finish(s)
    <3>1. pc'[s] = "idle" /\ ret'[s] = "idle" /\ act'[s] = "none"
      BY <2>3 DEF Finish, Forget
    <3>2. Apart(s) /\ Adder(s)' /\ ~Owns(s)'
      BY <2>1, <2>3, <3>1 DEF Finish, Forget, Apart, Adder, Owns, Choosing
    <3>3. \A n \in Names : files'[n] # None => info'[n] # None /\ files'[n] # Part
      BY <2>1, <2>3 DEF CacheInv, Owners
    <3>4. Owners' /\ \A t \in Slaves : Adder(t)'
      BY <3>2, <3>3, OthersAdd
    <3>5. CacheExact'
      BY <2>1, <3>1, <3>2, SumStays
    <3> QED
      BY <3>4, <3>5 DEF CacheInv
  <2> QED
    BY <1>1, <2>2, <2>3 DEF WriteInfo
<1>2. CASE Transfer(s)
  <2> DEFINE x == home[path[s]]
  <2>1. /\ pc[s] = "move" /\ Owns(s) /\ files[name] = None /\ path[s] \in Items /\ info[name] # None
        /\ cache # None /\ UNCHANGED <<info, cache, crashes, local>>
        /\ x # None => ps[s] = 1
        /\ x # Part /\ (act[s] = "copy" => x \notin Dirs)
    BY <1>2 DEF Transfer, Adder, Owns, Choosing, WithItem, CacheInv, Owners, OnlyAdding
  <2>2. \/ /\ x # None /\ files' = Put(files, name, x) /\ pc'[s] \in {"add", "clean"}
           /\ home' \in {home, Put(home, path[s], None)}
        \/ files' = files /\ home' = home /\ pc'[s] \in {"clean", "undo"}
    BY <1>2, <2>1 DEF Transfer, CanRename
  <2>3. Apart(s)
    <3>1. \A t \in Slaves \ {s} : pc'[t] = pc[t]
      BY <1>2 DEF Transfer
    <3> QED
      BY <2>1, <2>2, <3>1 DEF Apart
  <2>4. Adder(s)'
    BY <2>1, <2>2 DEF Adder, Owns, Choosing
  <2>5. \A n \in Names : files'[n] # None => info'[n] # None /\ files'[n] # Part
    BY <2>1, <2>2 DEF CacheInv, Owners
  <2>6. Owners' /\ \A t \in Slaves : Adder(t)'
    BY <2>1, <2>3, <2>4, <2>5, OthersAdd
  <2>7. CacheExact'
    <3>1. s \notin At("add") /\ s \notin Uncleaned
      BY <2>1 DEF At, Uncleaned
    <3>2. CASE files' = files
      <4>1. At("add")' = At("add") /\ Uncleaned' = Uncleaned /\ SizeOfFiles' = SizeOfFiles
        BY <2>1, <2>2, <2>3, <3>2 DEF At, Uncleaned, Apart, SizeOfFiles
      <4> QED
        BY <2>1, <4>1, SumForm, SumNext DEF CacheInv, CacheExact
    <3>3. CASE x # None /\ files' = Put(files, name, x)
      <4>1. SizeOfFiles' = SizeOfFiles + 1 /\ SizeOfFiles \in Nat
        <5>1. files'[name] = x /\ \A m \in Names \ {name} : files'[m] = files[m]
          BY <2>1, <3>3
        <5>2. SizeOfFiles' = SizeOfFiles + 1
          BY <2>1, <3>3, <5>1, CountChange
        <5> QED
          BY <5>2, CountFiles
      <4>2. \A t \in Slaves \ {s} : /\ t \in At("add")' <=> t \in At("add")
                                    /\ t \in Uncleaned' <=> t \in Uncleaned
        BY <2>1, <2>3, <3>3, OwnsName DEF At, Uncleaned, Apart, Owns
      <4>3. \/ At("add")' = At("add") \cup {s} /\ Uncleaned' = Uncleaned
            \/ At("add")' = At("add") /\ Uncleaned' = Uncleaned \cup {s}
        <5>1. CASE pc'[s] = "add"
          <6>1. s \in At("add")' /\ s \notin Uncleaned'
            BY <5>1 DEF At, Uncleaned
          <6> QED
            BY <3>1, <4>2, <6>1 DEF At, Uncleaned
        <5>2. CASE pc'[s] = "clean"
          <6>1. s \notin At("add")' /\ s \in Uncleaned'
            BY <2>1, <3>3, <5>2 DEF At, Uncleaned
          <6> QED
            BY <3>1, <4>2, <6>1 DEF At, Uncleaned
        <5> QED
          BY <2>1, <2>2, <3>3, <5>1, <5>2
      <4>4. At("add") \in SUBSET Slaves /\ Uncleaned \in SUBSET Slaves
        BY DEF At, Uncleaned
      <4> QED
        <5>1. /\ Cardinality(At("add")) \in Nat /\ Cardinality(Uncleaned) \in Nat
              /\ Cardinality(At("add") \cup {s}) = Cardinality(At("add")) + 1
              /\ Cardinality(Uncleaned \cup {s}) = Cardinality(Uncleaned) + 1
          BY <3>1, <4>4, CountSlaves
        <5>3. Cardinality(At("add")') + Cardinality(Uncleaned')
                = Cardinality(At("add")) + Cardinality(Uncleaned) + 1
              /\ Cardinality(At("add")') \in Nat /\ Cardinality(Uncleaned') \in Nat
          <6>1. CASE At("add")' = At("add") \cup {s} /\ Uncleaned' = Uncleaned
            <7>1. Cardinality(At("add")') = Cardinality(At("add")) + 1
              BY <5>1, <6>1, Zenon
            <7> QED
              BY <5>1, <6>1, <7>1
          <6>2. CASE At("add")' = At("add") /\ Uncleaned' = Uncleaned \cup {s}
            BY <5>1, <6>2
          <6> QED
            BY <4>3, <6>1, <6>2
        <5>4. Due' = Due
          BY <4>1, <5>1, <5>3, SumForm, SumNext
        <5> QED
          BY <2>1, <5>4 DEF CacheInv, CacheExact
    <3> QED
      BY <2>2, <3>2, <3>3
  <2> QED
    BY <2>6, <2>7 DEF CacheInv
<1>3. CASE CleanDest(s)
  <2>1. /\ pc[s] = "clean" /\ pc'[s] = "undo" /\ Owns(s) /\ info[name] # None /\ cache # None
        /\ files' = Put(files, name, None) /\ UNCHANGED <<home, info, cache, crashes, local>>
    BY <1>3 DEF CleanDest, Adder, Owns, Choosing
  <2>2. Apart(s)
    BY <1>3, <2>1 DEF CleanDest, Apart
  <2>3. Adder(s)'
    BY <2>1 DEF Adder, Owns, Choosing
  <2>4. \A n \in Names : files'[n] # None => info'[n] # None /\ files'[n] # Part
    BY <2>1 DEF CacheInv, Owners
  <2>5. Owners' /\ \A t \in Slaves : Adder(t)'
    BY <2>1, <2>2, <2>3, <2>4, OthersAdd
  <2>6. CacheExact'
    <3>1. At("add")' = At("add")
      BY <2>1, <2>2 DEF At, Apart
    <3>2. Uncleaned' = Uncleaned \ {s}
      BY <2>1, <2>2, OwnsName DEF At, Uncleaned, Apart, Owns
    <3>3. CASE files[name] = None
      <4>1. files' = files /\ s \notin Uncleaned
        BY <2>1, <3>3 DEF Uncleaned
      <4>2. SizeOfFiles' = SizeOfFiles /\ Uncleaned' = Uncleaned
        BY <3>2, <4>1 DEF SizeOfFiles
      <4> QED
        BY <2>1, <3>1, <4>2, SumForm, SumNext DEF CacheInv, CacheExact
    <3>4. CASE files[name] # None
      <4>1. SizeOfFiles' = SizeOfFiles - 1 /\ SizeOfFiles \in Nat
        <5>1. files'[name] = None /\ \A m \in Names \ {name} : files'[m] = files[m]
          BY <2>1
        <5>2. SizeOfFiles' = SizeOfFiles - 1
          BY <2>1, <3>4, <5>1, CountChange
        <5> QED
          BY <5>2, CountFiles
      <4>2. s \in Uncleaned /\ Uncleaned \in SUBSET Slaves /\ At("add") \in SUBSET Slaves
        BY <2>1, <3>4 DEF At, Uncleaned
      <4> QED
        <5>1. /\ Cardinality(At("add")) \in Nat /\ Cardinality(Uncleaned) \in Nat
              /\ Cardinality(Uncleaned \ {s}) = Cardinality(Uncleaned) - 1
          BY <4>2, CountSlaves
        <5>2. Due' = Due
          BY <3>1, <3>2, <4>1, <5>1, SumForm, SumNext
        <5> QED
          BY <2>1, <5>2 DEF CacheInv, CacheExact
    <3> QED
      BY <3>3, <3>4
  <2> QED
    BY <2>5, <2>6 DEF CacheInv
<1>4. CASE AddSize(s)
  <2>1. /\ pc[s] = "add" /\ pc'[s] = "flag" /\ ps[s] = 1 /\ cache # None
        /\ cache' = (cache + 1) % Wrap /\ UNCHANGED <<home, info, files, crashes, local>>
    BY <1>4 DEF AddSize, Adder, CurrentSize
  <2>2. Apart(s) /\ Adder(s)' /\ ~Owns(s)'
    BY <1>4, <2>1 DEF AddSize, Apart, Adder, Owns, Choosing
  <2>3. CacheExact'
    <3>1. At("add")' = At("add") \ {s} /\ Uncleaned' = Uncleaned /\ SizeOfFiles' = SizeOfFiles
      BY <2>1, <2>2 DEF At, Uncleaned, Apart, SizeOfFiles
    <3>2. /\ s \in At("add") /\ At("add") \in SUBSET Slaves /\ Uncleaned \in SUBSET Slaves
          /\ SizeOfFiles \in 0 .. Wrap - 1
      BY <2>1, CountFiles DEF At, Uncleaned
    <3>3. /\ Cardinality(At("add")') = Cardinality(At("add")) - 1
          /\ Cardinality(At("add")) \in Nat /\ Cardinality(Uncleaned) \in Nat
          /\ Cardinality(At("add")') \in Nat
      BY <3>1, <3>2, CountSlaves
    <3>4. Due' = Due + 1 /\ Due + 1 <= SizeOfFiles
      BY <3>1, <3>3, SumForm, SumNext, SumType
    <3>5. cache + 1 \in Due' - crashes .. Due' /\ cache \in 0 .. Wrap - 1
      BY <2>1, <3>4, SumType DEF CacheInv, CacheExact
    <3>6. cache' = cache + 1
      BY <2>1, <3>2, <3>4, <3>5, SumType
    <3> QED
      BY <2>1, <3>5, <3>6 DEF CacheExact
  <2> QED
    BY <2>1, <2>2, <2>3, QuietAdds
<1>5. CASE DeleteInfo(s)
  <2>1. /\ pc[s] = "undo" /\ pc'[s] = "isEmpty" /\ ret'[s] = "idle" /\ Owns(s) /\ files[name] = None
        /\ info' = Put(info, name, None) /\ UNCHANGED <<home, files, cache, crashes, act, path, nm, ps, vic>>
    BY <1>5 DEF DeleteInfo, Adder, Owns, Choosing
  <2>2. Apart(s)
    BY <1>5, <2>1 DEF DeleteInfo, Apart, Finish, Forget
  <2>3. Adder(s)' /\ ~Owns(s)'
    BY <2>1 DEF Adder, Owns, Choosing
  <2>4. \A n \in Names : files'[n] # None => info'[n] # None /\ files'[n] # Part
    BY <2>1 DEF CacheInv, Owners
  <2>5. Owners' /\ \A t \in Slaves : Adder(t)'
    BY <2>2, <2>3, <2>4, OthersAdd
  <2>6. CacheExact'
    BY <2>1, <2>2, SumStays
  <2> QED
    BY <2>5, <2>6 DEF CacheInv
<1> QED
  BY <1>1, <1>2, <1>3, <1>4, <1>5

\* While slaves only trash and copy, the cached size is what files/ holds, give
\* or take what is under way and one item for each kill, for any number of slaves.
THEOREM CacheStaysExact == ASSUME OnlyAdding PROVE Spec => []CacheExact
<1> USE TrashAssumption
<1>1. Init => CacheInv
  <2> SUFFICES ASSUME Init PROVE CacheInv
    OBVIOUS
  <2>1. Owners /\ \A s \in Slaves : Adder(s) /\ ~Owns(s)
    BY DEF Init, Owners, Adder, Owns, Choosing
  <2> QED
    BY <2>1 DEF CacheInv, CacheExact, Init
<1>2. TypeOK /\ CacheInv /\ [Next]_vars => CacheInv'
  <2> SUFFICES ASSUME TypeOK, CacheInv, [Next]_vars PROVE CacheInv'
    OBVIOUS
  <2>1. CASE UNCHANGED vars
    <3>1. Owners' /\ \A s \in Slaves : Adder(s)'
      BY <2>1 DEF CacheInv, Owners, Adder, Owns, Choosing, vars, disk, local
    <3>2. CacheExact'
      BY <2>1 DEF CacheInv, CacheExact, Due, At, SizeOfFiles, vars, disk, local
    <3> QED
      BY <3>1, <3>2 DEF CacheInv
  <2>2. ASSUME NEW s \in Slaves, Crash(s) PROVE CacheInv'
    BY <2>2, CrashAdds
  <2>3. ASSUME NEW s \in Slaves, Serve(s) PROVE CacheInv'
    <3>1. Adder(s)
      BY DEF CacheInv
    <3>2. \/ AgeLimit(s) \/ SizeLimit(s) \/ MeasureIn(s) \/ Initialize(s) \/ FileAdded(s)
          \/ IsEmpty(s) \/ SetEmpty(s)
          \/ WriteInfo(s) \/ Transfer(s) \/ CleanDest(s) \/ AddSize(s) \/ DeleteInfo(s)
      BY <2>3, <3>1 DEF Serve, Adder, Choosing, NextVictim, CheckRoom, RemoveDest, MeasureOut,
                        TransferOut, RemoveSize, DelFile, DelInfo, EmptyNext, EmptyFile, EmptyInfo,
                        ClearSize, CleanOrphan, EndEmpty
    <3> QED
      BY <3>2, QuietServeAdds, NameServeAdds
  <2> QED
    BY <2>1, <2>2, <2>3, RequestAdds DEF Next
<1>3. CacheInv => CacheExact
  BY DEF CacheInv
<1> QED
  BY <1>1, <1>2, <1>3, TypeCorrect, PTL DEF Spec
==============================================================================
