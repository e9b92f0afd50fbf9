------------------------------ MODULE FolderProofs ------------------------------
(****************************************************************************)
(* Proofs about Folder.                                                     *)
(****************************************************************************)
EXTENDS Folder, TLAPS

------------------------------------------------------------------------------
(* Sequences                                                                *)

LEMMA QueueFacts ==
    ASSUME NEW S, NEW s \in Seq(S), NEW e \in S
    PROVE  /\ Append(s, e) \in Seq(S)
           /\ Len(Append(s, e)) = Len(s) + 1
           /\ In(Append(s, e)) = In(s) \cup {e}
<1>1. /\ Append(s, e) \in Seq(S)
      /\ Len(Append(s, e)) = Len(s) + 1
      /\ \A i \in 1 .. Len(s) : Append(s, e)[i] = s[i]
      /\ Append(s, e)[Len(s) + 1] = e
  OBVIOUS
<1>2. Len(s) \in Nat /\ 1 .. Len(s) + 1 = 1 .. Len(s) \cup {Len(s) + 1}
  OBVIOUS
<1>3. In(Append(s, e)) = In(s) \cup {e}
  BY <1>1, <1>2 DEF In
<1>. QED BY <1>1, <1>3

LEMMA TailFacts ==
    ASSUME NEW S, NEW s \in Seq(S), s # <<>>
    PROVE  /\ Head(s) \in S
           /\ Tail(s) \in Seq(S)
           /\ Len(s) \in Nat \ {0} /\ Len(Tail(s)) = Len(s) - 1
           /\ In(s) = In(Tail(s)) \cup {Head(s)}
<1>1. /\ Len(s) \in Nat \ {0}
      /\ Head(s) = s[1] /\ Head(s) \in S
      /\ Tail(s) \in Seq(S) /\ Len(Tail(s)) = Len(s) - 1
      /\ \A i \in 1 .. Len(s) - 1 : Tail(s)[i] = s[i + 1]
  OBVIOUS
<1>2. ASSUME NEW i \in 1 .. Len(s)
      PROVE  s[i] \in In(Tail(s)) \cup {Head(s)}
  <2>1. CASE i = 1
    BY <2>1, <1>1
  <2>2. CASE i # 1
    <3>1. i - 1 \in DOMAIN Tail(s) /\ Tail(s)[i - 1] = s[i]
      BY <2>2, <1>1
    <3>. QED BY <3>1 DEF In
  <2>. QED BY <2>1, <2>2
<1>3. ASSUME NEW i \in 1 .. Len(s) - 1
      PROVE  Tail(s)[i] \in In(s)
  <2>1. i + 1 \in DOMAIN s /\ Tail(s)[i] = s[i + 1]
    BY <1>1
  <2>. QED BY <2>1 DEF In
<1>4. In(s) = In(Tail(s)) \cup {Head(s)}
  <2>1. Head(s) \in In(s)
    BY <1>1 DEF In
  <2>. QED BY <1>1, <1>2, <1>3, <2>1 DEF In
<1>. QED BY <1>1, <1>4

LEMMA EmptyFacts == In(<<>>) = {} /\ Len(<<>>) = 0
  BY DEF In

LEMMA EmptyLength ==
    ASSUME NEW S, NEW s \in Seq(S)
    PROVE  <<>> \in Seq(S) /\ Len(s) \in Nat /\ (Len(s) = 0 <=> s = <<>>)
  OBVIOUS

LEMMA SingleFacts ==
    ASSUME NEW S, NEW e \in S
    PROVE  Len(Append(<<>>, e)) = 1 /\ In(Append(<<>>, e)) = {e}
<1>1. <<>> \in Seq(S)
  OBVIOUS
<1>2. /\ Len(Append(<<>>, e)) = Len(<<>>) + 1
      /\ In(Append(<<>>, e)) = In(<<>>) \cup {e}
  BY <1>1, QueueFacts
<1>. QED BY <1>2, EmptyFacts

------------------------------------------------------------------------------
(* Types                                                                    *)

LEMMA InitTyped == Init => TypeOK
<1>. SUFFICES ASSUME Init PROVE TypeOK
  OBVIOUS
<1>1. FolderTypeOK
  <2>1. (CHOOSE c \in Counts : TRUE) \in Counts /\ (CHOOSE v \in Versions : TRUE) \in Versions
    BY FolderAssumption
  <2>. QED BY <2>1, FolderAssumption DEF Init, FolderInit, FolderTypeOK, NoRole
<1>2. CounterTypeOK
  <2>1. <<>> \in Seq(Dirs) /\ <<>> \in Seq(Dirs \X Counts)
    OBVIOUS
  <2>. QED BY <2>1 DEF Init, CounterInit, CounterTypeOK
<1>3. ObserverTypeOK
  BY DEF Init, ObserverInit, ObserverTypeOK, NoThread, NoRole
<1>. QED BY <1>1, <1>2, <1>3 DEF TypeOK

\* The folder's types, by what a step does to it.
LEMMA StartWorkerTyped ==
    ASSUME CounterTypeOK, NEW d \in Dirs, StartWorker(d)
    PROVE  queue' \in Seq(Dirs) /\ requests' \in Seq(Dirs) /\ busy' \in BOOLEAN
<1>1. CASE busy
  BY <1>1, QueueFacts DEF CounterTypeOK, StartWorker
<1>2. CASE ~busy
  BY <1>2, QueueFacts DEF CounterTypeOK, StartWorker
<1>. QED BY <1>1, <1>2

LEMMA DelayedTyped ==
    ASSUME ObserverTypeOK, DelayedDirectoryVerification
    PROVE  ObserverTypeOK'
  BY DEF ObserverTypeOK, DelayedDirectoryVerification

LEMMA UpdateTyped ==
    ASSUME FolderTypeOK, ObserverTypeOK, NEW s \in BOOLEAN, NEW p \in BOOLEAN,
           NEW t \in [runs : BOOLEAN, items : SUBSET Dirs, read : [Dirs -> Versions \cup {None}]],
           NEW b \in {"default", "updating", "other"}, UpdateItemStates(s, p, t, b)
    PROVE  /\ pending' \in BOOLEAN
           /\ thread' \in [runs : BOOLEAN, items : SUBSET Dirs, read : [Dirs -> Versions \cup {None}]]
           /\ bar' \in {"default", "updating", "other"}
<1>1. Thread(shown) \in [runs : BOOLEAN, items : SUBSET Dirs, read : [Dirs -> Versions \cup {None}]]
  BY DEF FolderTypeOK, Thread, NoRole
<1>2. CASE t.runs
  BY <1>2 DEF UpdateItemStates
<1>3. CASE ~t.runs
  BY <1>1, <1>3 DEF UpdateItemStates
<1>. QED BY <1>2, <1>3

LEMMA NoThreadTyped ==
    NoThread \in [runs : BOOLEAN, items : SUBSET Dirs, read : [Dirs -> Versions \cup {None}]]
  BY DEF NoThread, NoRole

LEMMA NextTyped == TypeOK /\ [Next]_vars => TypeOK'
<1>. SUFFICES ASSUME TypeOK, [Next]_vars PROVE TypeOK'
  OBVIOUS
<1>. USE DEF TypeOK
<1>1. ASSUME NEW d \in Dirs, Insert(d) PROVE TypeOK'
  <2>1. FolderTypeOK'
    BY <1>1, FolderAssumption DEF Insert, InsertItem, Happens, FolderTypeOK
  <2>2. CounterTypeOK'
    BY <1>1 DEF Insert, counterVars, CounterTypeOK
  <2>. QED BY <1>1, <2>1, <2>2, DelayedTyped DEF Insert
<1>2. CASE Remove
  <2>1. FolderTypeOK'
    BY <1>2, FolderAssumption DEF Remove, RemoveItems, Happens, FolderTypeOK
  <2>2. CounterTypeOK'
    BY <1>2, EmptyLength DEF Remove, SlotItemsRemoved, CounterTypeOK
  <2>. QED BY <1>2, <2>1, <2>2 DEF Remove, observerVars, ObserverTypeOK
<1>3. CASE Open
  <2>1. FolderTypeOK'
    BY <1>3, FolderAssumption DEF Open, OpenFolder, Happens, FolderTypeOK
  <2>. QED BY <1>3, <2>1 DEF Open, counterVars, observerVars, CounterTypeOK, ObserverTypeOK
<1>4. ASSUME NEW d \in Dirs, DiskChanges(d) PROVE TypeOK'
  <2>1. FolderTypeOK'
    BY <1>4, FolderAssumption DEF DiskChanges, ChangeDirectory, Happens, modelVars, FolderTypeOK
  <2>2. CounterTypeOK'
    BY <1>4 DEF DiskChanges, ChangeDirectory, CounterTypeOK
  <2>. QED BY <1>4, <2>1, <2>2 DEF DiskChanges, observerVars, ObserverTypeOK
<1>5. ASSUME NEW d \in Dirs, StatusChanges(d) PROVE TypeOK'
  <2>1. FolderTypeOK'
    BY <1>5, FolderAssumption DEF StatusChanges, ChangeStatus, Happens, modelVars, FolderTypeOK
  <2>2. ObserverTypeOK'
    BY <1>5 DEF StatusChanges, ChangeStatus, ObserverTypeOK
  <2>. QED BY <1>5, <2>1, <2>2 DEF StatusChanges, counterVars, CounterTypeOK
<1>6. ASSUME NEW d \in Dirs, SortRole(d) PROVE TypeOK'
  <2>1. FolderTypeOK'
    BY <1>6, FolderAssumption DEF SortRole, ApplySortRole, SetData, Happens, FolderTypeOK
  <2>2. CounterTypeOK'
    BY <1>6 DEF SortRole, ApplySortRole, CounterTypeOK
  <2>3. ObserverTypeOK'
    BY <1>6, DelayedTyped DEF SortRole, ItemsChanged, observerVars, ObserverTypeOK
  <2>. QED BY <2>1, <2>2, <2>3
<1>7. CASE Count
  <2>1. requests # <<>> /\ Head(requests) \in Dirs /\ Tail(requests) \in Seq(Dirs)
    BY <1>7, TailFacts DEF Count, CountDirectoryContents, CounterTypeOK
  <2>2. <<Head(requests), disk[Head(requests)]>> \in Dirs \X Counts
    BY <2>1 DEF FolderTypeOK
  <2>3. CounterTypeOK'
    BY <1>7, <2>1, <2>2, QueueFacts DEF Count, CountDirectoryContents, CounterTypeOK
  <2>. QED BY <1>7, <2>3 DEF Count, modelVars, worldVars, observerVars, FolderTypeOK, ObserverTypeOK
<1>8. CASE Result
  <2>1. Head(results) \in Dirs \X Counts /\ Tail(results) \in Seq(Dirs \X Counts)
    BY <1>8, TailFacts DEF Result, SlotResult, CounterTypeOK
  <2>2. FolderTypeOK'
    BY <1>8, <2>1 DEF Result, SlotResult, SetData, worldVars, FolderTypeOK
  <2>3. queue # <<>> => Head(queue) \in Dirs /\ Tail(queue) \in Seq(Dirs)
    BY TailFacts DEF CounterTypeOK
  <2>4. queue # <<>> => Append(requests, Head(queue)) \in Seq(Dirs)
    BY <2>3, QueueFacts DEF CounterTypeOK
  <2>5. CounterTypeOK'
    BY <1>8, <2>1, <2>3, <2>4 DEF Result, SlotResult, CounterTypeOK
  <2>6. ObserverTypeOK'
    BY <1>8, DelayedTyped DEF Result, ItemsChanged, observerVars, ObserverTypeOK
  <2>. QED BY <2>2, <2>5, <2>6
<1>9. ASSUME NEW d \in Dirs, Resolve(d) PROVE TypeOK'
  <2>1. FolderTypeOK'
    BY <1>9 DEF Resolve, AddDirectory, worldVars, FolderTypeOK
  <2>2. CounterTypeOK'
    BY <1>9, StartWorkerTyped DEF Resolve, AddDirectory, CounterTypeOK
  <2>3. ObserverTypeOK'
    BY <1>9, DelayedTyped DEF Resolve, observerVars, ObserverTypeOK
  <2>. QED BY <2>1, <2>2, <2>3
<1>10. ASSUME NEW d \in Dirs, Dirty(d) PROVE TypeOK'
  <2>1. CounterTypeOK'
    BY <1>10, StartWorkerTyped DEF Dirty, SlotDirWatchDirty, CounterTypeOK
  <2>. QED BY <1>10, <2>1 DEF Dirty, modelVars, worldVars, observerVars, FolderTypeOK, ObserverTypeOK
<1>11. CASE Verify
  <2>1. ObserverTypeOK'
    <3>1. CASE root \in Remote
      BY <1>11, <3>1 DEF Verify, VerifyDirectory, ObserverTypeOK
    <3>2. CASE root \notin Remote /\ plugin'
      <4>1. UpdateItemStates(silent, pending, thread, bar)
        BY <1>11, <3>2 DEF Verify, VerifyDirectory
      <4>. QED BY <1>11, <3>2, <4>1, UpdateTyped DEF Verify, VerifyDirectory, ObserverTypeOK
    <3>3. CASE root \notin Remote /\ ~plugin'
      <4>1. plugin' \in BOOLEAN /\ timer' = FALSE /\ UNCHANGED <<silent, pending, thread, bar>>
        BY <1>11, <3>3 DEF Verify, VerifyDirectory
      <4>. QED BY <4>1 DEF ObserverTypeOK
    <3>. QED BY <3>1, <3>2, <3>3
  <2>. QED BY <1>11, <2>1 DEF Verify, modelVars, worldVars, counterVars, FolderTypeOK, CounterTypeOK
<1>12. ASSUME NEW d \in Dirs, Read(d) PROVE TypeOK'
  <2>1. status[d] \in Versions
    BY DEF FolderTypeOK
  <2>2. ObserverTypeOK'
    BY <1>12, <2>1 DEF Read, ThreadReads, ObserverTypeOK
  <2>. QED BY <1>12, <2>2 DEF Read, modelVars, worldVars, counterVars, FolderTypeOK, CounterTypeOK
<1>13. CASE Finished
  <2>1. Differing \subseteq shown /\ \A d \in Dirs : thread.read[d] \in Versions \cup {None}
    BY DEF Differing, ObserverTypeOK
  <2>2. FolderTypeOK'
    BY <1>13, <2>1 DEF Finished, SlotThreadFinished, worldVars, FolderTypeOK
  <2>3. ObserverTypeOK'
    <3>1. CASE ~plugin
      BY <1>13, <3>1, NoThreadTyped DEF Finished, SlotThreadFinished, ObserverTypeOK
    <3>2. CASE plugin
      <4>. DEFINE s == silent /\ Differing = {}
                  b == IF s THEN bar ELSE "default"
      <4>1. s \in BOOLEAN /\ b \in {"default", "updating", "other"}
        BY DEF ObserverTypeOK
      <4>2. /\ silent' = s /\ timer' = (timer \/ Differing # {}) /\ UNCHANGED plugin
            /\ IF pending THEN UpdateItemStates(s, FALSE, NoThread, b)
               ELSE thread' = NoThread /\ bar' = b /\ UNCHANGED pending
        BY <1>13, <3>2 DEF Finished, SlotThreadFinished
      <4>. HIDE DEF s, b
      <4>3. /\ pending' \in BOOLEAN
            /\ thread' \in [runs : BOOLEAN, items : SUBSET Dirs, read : [Dirs -> Versions \cup {None}]]
            /\ bar' \in {"default", "updating", "other"}
        BY <4>1, <4>2, NoThreadTyped, UpdateTyped DEF ObserverTypeOK
      <4>. QED BY <4>1, <4>2, <4>3 DEF ObserverTypeOK
    <3>. QED BY <3>1, <3>2
  <2>. QED BY <1>13, <2>2, <2>3 DEF Finished, counterVars, CounterTypeOK
<1>14. CASE Text
  <2>1. ObserverTypeOK'
    BY <1>14 DEF Text, ShowText, ObserverTypeOK
  <2>. QED BY <1>14, <2>1 DEF Text, modelVars, worldVars, counterVars, FolderTypeOK, CounterTypeOK
<1>15. CASE UNCHANGED vars
  BY <1>15 DEF vars, modelVars, worldVars, counterVars, observerVars,
               FolderTypeOK, CounterTypeOK, ObserverTypeOK
<1>. QED
  BY <1>1, <1>2, <1>3, <1>4, <1>5, <1>6, <1>7, <1>8, <1>9, <1>10, <1>11, <1>12, <1>13, <1>14, <1>15
  DEF Next, Outside, Inside

\* Folder's types hold for any folders, directories, counts and versions.
THEOREM FolderTypeCorrect == Spec => []TypeOK
  BY InitTyped, NextTyped, PTL DEF Spec

------------------------------------------------------------------------------
(* The worker                                                               *)

LEMMA StartWorkerOne ==
    ASSUME TypeOK, OneInFlight, NEW d \in Dirs, StartWorker(d), UNCHANGED results
    PROVE  OneInFlight' /\ In(queue') \cup In(requests') = In(queue) \cup In(requests) \cup {d}
<1>1. CASE busy
  <2>1. queue' = Append(queue, d) /\ UNCHANGED <<requests, results, busy>>
    BY <1>1 DEF StartWorker
  <2>2. In(queue') = In(queue) \cup {d}
    BY <2>1, QueueFacts DEF TypeOK, CounterTypeOK
  <2>. QED BY <1>1, <2>1, <2>2 DEF OneInFlight
<1>2. CASE ~busy
  <2>1. Len(requests) = 0 /\ Len(results) = 0 /\ queue = <<>>
    BY <1>2, EmptyLength DEF TypeOK, CounterTypeOK, OneInFlight
  <2>2. requests = <<>> /\ requests' = Append(<<>>, d) /\ busy' = TRUE /\ queue' = <<>>
    BY <1>2, <2>1, EmptyLength DEF TypeOK, CounterTypeOK, StartWorker
  <2>. QED BY <2>1, <2>2, SingleFacts, EmptyFacts DEF OneInFlight
<1>. QED BY <1>1, <1>2

LEMMA CountOne ==
    ASSUME TypeOK, OneInFlight, CountDirectoryContents
    PROVE  /\ OneInFlight'
           /\ Head(requests) \in Dirs /\ results = <<>>
           /\ In(requests) = {Head(requests)} /\ In(requests') = {}
           /\ In(results') = {<<Head(requests), disk[Head(requests)]>>}
<1>. DEFINE r == <<Head(requests), disk[Head(requests)]>>
<1>1. /\ requests # <<>> /\ Len(requests) \in Nat \ {0} /\ Len(Tail(requests)) = Len(requests) - 1
      /\ In(requests) = In(Tail(requests)) \cup {Head(requests)}
      /\ Head(requests) \in Dirs /\ Tail(requests) \in Seq(Dirs)
  BY TailFacts DEF TypeOK, CounterTypeOK, CountDirectoryContents
<1>2. r \in Dirs \X Counts
  BY <1>1 DEF TypeOK, FolderTypeOK
<1>3. Len(results) = 0 /\ Len(requests) = 1 /\ busy
  BY <1>1 DEF TypeOK, CounterTypeOK, OneInFlight
<1>4. results = <<>> /\ Tail(requests) = <<>>
  <2>1. results \in Seq(Dirs \X Counts)
    BY DEF TypeOK, CounterTypeOK
  <2>2. results = <<>>
    BY <2>1, <1>3, EmptyLength
  <2>3. Tail(requests) \in Seq(Dirs) /\ Len(Tail(requests)) = 0
    BY <1>1, <1>3
  <2>4. Tail(requests) = <<>>
    BY <2>3, EmptyLength
  <2>. QED BY <2>2, <2>4
<1>5. results' = Append(<<>>, r) /\ requests' = <<>> /\ UNCHANGED <<queue, busy>>
  BY <1>4 DEF CountDirectoryContents
<1>6. Len(results') = 1 /\ In(results') = {r}
  BY <1>2, <1>5, SingleFacts
<1>7. In(requests) = {Head(requests)}
  BY <1>1, <1>4, EmptyFacts
<1>8. In(requests') = {} /\ Len(requests') = 0
  BY <1>5, EmptyFacts
<1>9. OneInFlight'
  BY <1>3, <1>5, <1>6, <1>8 DEF OneInFlight
<1>. QED BY <1>1, <1>4, <1>6, <1>7, <1>8, <1>9

LEMMA ResultOne ==
    ASSUME TypeOK, OneInFlight, SlotResult
    PROVE  /\ OneInFlight'
           /\ Head(results) \in Dirs \X Counts
           /\ In(results) = {Head(results)} /\ In(results') = {}
           /\ In(queue') \cup In(requests') = In(queue) \cup In(requests)
<1>1. /\ results # <<>> /\ Len(results) \in Nat \ {0} /\ Len(Tail(results)) = Len(results) - 1
      /\ In(results) = In(Tail(results)) \cup {Head(results)}
      /\ Head(results) \in Dirs \X Counts /\ Tail(results) \in Seq(Dirs \X Counts)
  BY TailFacts DEF TypeOK, CounterTypeOK, SlotResult
<1>2. Len(requests) = 0 /\ Len(results) = 1 /\ busy
  BY <1>1 DEF TypeOK, CounterTypeOK, OneInFlight
<1>3. requests = <<>> /\ Tail(results) = <<>> /\ results' = <<>>
  BY <1>1, <1>2, EmptyLength DEF TypeOK, CounterTypeOK, SlotResult
<1>. DEFINE Whole == In(queue') \cup In(requests') = In(queue) \cup In(requests)
<1>4. Len(results') = 0 /\ In(results') = {} /\ In(requests) = {} /\ In(results) = {Head(results)}
  BY <1>1, <1>3, EmptyFacts
<1>5. CASE queue = <<>>
  <2>1. busy' = FALSE /\ UNCHANGED <<requests, queue>>
    BY <1>5 DEF SlotResult
  <2>2. OneInFlight'
    BY <1>2, <1>4, <1>5, <2>1 DEF OneInFlight
  <2>. QED BY <1>1, <1>4, <2>1, <2>2
<1>6. CASE queue # <<>>
  <2>1. /\ Head(queue) \in Dirs /\ Tail(queue) \in Seq(Dirs)
        /\ In(queue) = In(Tail(queue)) \cup {Head(queue)}
    BY <1>6, TailFacts DEF TypeOK, CounterTypeOK
  <2>2. Len(Append(<<>>, Head(queue))) = 1 /\ In(Append(<<>>, Head(queue))) = {Head(queue)}
    BY <2>1, SingleFacts
  <2>3. requests' = Append(<<>>, Head(queue)) /\ queue' = Tail(queue) /\ busy' = TRUE
    BY <1>3, <1>6 DEF SlotResult
  <2>4. OneInFlight'
    BY <1>4, <2>2, <2>3 DEF OneInFlight
  <2>5. Whole
    BY <1>4, <2>1, <2>2, <2>3
  <2>. QED BY <1>1, <1>4, <2>4, <2>5
<1>. QED BY <1>5, <1>6

LEMMA NextOneInFlight == TypeOK /\ OneInFlight /\ [Next]_vars => OneInFlight'
<1>. SUFFICES ASSUME TypeOK, OneInFlight, [Next]_vars PROVE OneInFlight'
  OBVIOUS
<1>1. CASE UNCHANGED <<queue, busy, requests, results>>
  BY <1>1 DEF OneInFlight
<1>2. CASE Remove
  <2>1. UNCHANGED <<busy, requests, results>> /\ (queue' # <<>> => queue # <<>>)
    BY <1>2 DEF Remove, SlotItemsRemoved
  <2>. QED BY <2>1 DEF OneInFlight
<1>3. ASSUME NEW d \in Dirs, Resolve(d) PROVE OneInFlight'
  BY <1>3, StartWorkerOne DEF Resolve, AddDirectory
<1>4. ASSUME NEW d \in Dirs, Dirty(d) PROVE OneInFlight'
  BY <1>4, <1>1, StartWorkerOne DEF Dirty, SlotDirWatchDirty
<1>5. CASE Count
  BY <1>5, CountOne DEF Count
<1>6. CASE Result
  BY <1>6, ResultOne DEF Result
<1>7. CASE \/ \E d \in Dirs : Insert(d) \/ DiskChanges(d) \/ StatusChanges(d) \/ SortRole(d) \/ Read(d)
           \/ Open \/ Verify \/ Finished \/ Text \/ UNCHANGED vars
  <2>1. UNCHANGED <<queue, busy, requests, results>>
    BY <1>7 DEF Insert, DiskChanges, ChangeDirectory, StatusChanges, SortRole, ApplySortRole,
                Read, Open, Verify, Finished, Text, vars, counterVars
  <2>. QED BY <1>1, <2>1
<1>. QED BY <1>2, <1>3, <1>4, <1>5, <1>6, <1>7 DEF Next, Outside, Inside

\* For any number of directories, m_workerIsBusy is right, so that none of those
\* in m_queue is forgotten, also when slotItemsRemoved() clears it meanwhile.
THEOREM QueueServed == Spec => []OneInFlight
<1>1. Init => OneInFlight
  BY EmptyFacts DEF Init, CounterInit, OneInFlight
<1>. QED BY <1>1, FolderTypeCorrect, NextOneInFlight, PTL DEF Spec

------------------------------------------------------------------------------
(* The sizes                                                                *)

\* What is known of a directory that is shown: until it is watched, a look at it
\* lies ahead or has just been taken; and when no look lies ahead, and no change
\* was missed, the size shown or the one on its way is right.
Watches(d) == d \notin watched => Recount(d) \/ Returned(d)
Right(d) ==
    d \notin missed /\ ~Recount(d) =>
        /\ \A r \in In(results) : r[1] = d => r[2] = disk[d]
        /\ size[d] = disk[d] \/ Returned(d)
SizesKnown == \A d \in shown : Watches(d) /\ Right(d)

LEMMA KnownFresh == TypeOK /\ SizesKnown => SizesFresh
<1>. SUFFICES ASSUME TypeOK, SizesKnown, NEW d \in shown \ missed, size[d] # disk[d], ~Recount(d)
              PROVE  <<d, disk[d]>> \in In(results)
  BY DEF SizesFresh
<1>1. PICK r \in In(results) : r[1] = d /\ r[2] = disk[d]
  BY DEF SizesKnown, Right, Returned
<1>2. r \in Dirs \X Counts
  BY DEF In, TypeOK, CounterTypeOK
<1>. QED BY <1>1, <1>2

\* A step that leaves all that SizesKnown is about alone, for a directory.
LEMMA SameKnown ==
    ASSUME NEW d \in shown, Watches(d), Right(d), d \in watched => d \in watched',
           Recount(d) => Recount(d)', UNCHANGED <<missed, results, disk>>, size'[d] = size[d]
    PROVE  Watches(d)' /\ Right(d)'
  BY DEF Watches, Right, Returned

LEMMA StartWorkerKnown ==
    ASSUME TypeOK, OneInFlight, SizesKnown, NEW d \in Dirs, StartWorker(d),
           unresolved' \cup dirty' \cup {d} = unresolved \cup dirty \cup {d},
           UNCHANGED <<shown, size, disk, watched, results, missed>>
    PROVE  SizesKnown'
<1>1. In(queue') \cup In(requests') = In(queue) \cup In(requests) \cup {d}
  BY StartWorkerOne
<1>2. ASSUME NEW e \in shown PROVE Recount(e) => Recount(e)'
  BY <1>1 DEF Recount
<1>. QED BY <1>2, SameKnown DEF SizesKnown

LEMMA NextKnown == TypeOK /\ OneInFlight /\ SizesKnown /\ [Next]_vars => SizesKnown'
<1>. SUFFICES ASSUME TypeOK, OneInFlight, SizesKnown, [Next]_vars PROVE SizesKnown'
  OBVIOUS
<1>1. CASE UNCHANGED <<shown, unresolved, size, disk, counterVars>>
  BY <1>1 DEF counterVars, SizesKnown, Watches, Right, Recount, Returned
<1>2. ASSUME NEW d \in Dirs, Insert(d) PROVE SizesKnown'
  <2>1. /\ shown' = shown \cup {d} /\ unresolved' = unresolved \cup {d}
        /\ UNCHANGED <<size, disk, counterVars>>
    BY <1>2 DEF Insert, InsertItem
  <2>2. Recount(d)'
    BY <2>1 DEF Recount
  <2>3. ASSUME NEW e \in shown PROVE Watches(e)' /\ Right(e)'
    BY <2>1, SameKnown DEF SizesKnown, Recount, counterVars
  <2>. QED BY <2>1, <2>2, <2>3 DEF SizesKnown, Watches, Right
<1>3. CASE Remove
  <2>1. PICK gone \in SUBSET shown :
            /\ shown' = shown \ gone /\ unresolved' = unresolved \ gone
            /\ size' = [d \in Dirs |-> IF d \in gone THEN None ELSE size[d]]
            /\ SlotItemsRemoved(shown \ gone)
            /\ UNCHANGED disk
    BY <1>3 DEF Remove, RemoveItems
  <2>2. ASSUME NEW e \in shown' PROVE Watches(e)' /\ Right(e)'
    <3>1. e \in shown /\ e \notin gone /\ e \in Dirs
      BY <2>1 DEF TypeOK, FolderTypeOK
    <3>2. queue' = queue /\ UNCHANGED <<requests, results, missed>>
      BY <2>1, <3>1 DEF SlotItemsRemoved
    <3>3. size'[e] = size[e] /\ (e \in watched => e \in watched') /\ (e \in dirty => e \in dirty')
      BY <2>1, <3>1 DEF SlotItemsRemoved
    <3>4. Recount(e) => Recount(e)'
      BY <2>1, <3>1, <3>2, <3>3 DEF Recount
    <3>. QED BY <2>1, <3>1, <3>2, <3>3, <3>4, SameKnown DEF SizesKnown
  <2>. QED BY <2>2 DEF SizesKnown
<1>4. ASSUME NEW d \in Dirs, DiskChanges(d) PROVE SizesKnown'
  <2>1. /\ UNCHANGED <<shown, unresolved, size, queue, watched, requests, results>>
        /\ dirty' = dirty \cup ({d} \cap watched)
        /\ missed' = IF d \notin watched /\ Returned(d) THEN missed \cup {d} ELSE missed
        /\ \A e \in Dirs \ {d} : disk'[e] = disk[e]
    BY <1>4 DEF DiskChanges, ChangeDirectory, modelVars, TypeOK, FolderTypeOK
  <2>2. ASSUME NEW e \in shown PROVE Watches(e)' /\ Right(e)'
    <3>1. Recount(e) => Recount(e)'
      BY <2>1 DEF Recount
    <3>2. Watches(e)'
      BY <2>1, <3>1 DEF SizesKnown, Watches, Returned
    <3>3. CASE e # d
      <4>1. disk'[e] = disk[e] /\ (e \in missed => e \in missed')
        BY <2>1, <3>3 DEF TypeOK, FolderTypeOK
      <4>. QED BY <2>1, <3>1, <3>2, <4>1 DEF SizesKnown, Right, Returned
    <3>4. CASE e = d /\ d \in watched
      <4>1. Recount(e)'
        BY <2>1, <3>4 DEF Recount
      <4>. QED BY <3>2, <4>1 DEF Right
    <3>5. CASE e = d /\ d \notin watched
      BY <2>1, <3>1, <3>2, <3>5 DEF SizesKnown, Watches, Right
    <3>. QED BY <3>3, <3>4, <3>5
  <2>. QED BY <2>1, <2>2 DEF SizesKnown
<1>5. ASSUME NEW d \in Dirs, SortRole(d) PROVE SizesKnown'
  <2>1. /\ d \in shown
        /\ UNCHANGED <<shown, unresolved, disk, queue, requests, results, dirty>>
        /\ watched' = watched \cup {d}
        /\ missed' = IF Returned(d) THEN missed ELSE missed \ {d}
        /\ size' = [size EXCEPT ![d] = disk[d]]
    BY <1>5 DEF SortRole, ApplySortRole, SetData
  <2>2. ASSUME NEW e \in shown PROVE Watches(e)' /\ Right(e)'
    <3>1. Recount(e)' = Recount(e) /\ Returned(e)' = Returned(e)
      BY <2>1 DEF Recount, Returned
    <3>2. Watches(e)'
      BY <2>1, <3>1 DEF SizesKnown, Watches
    <3>3. CASE e # d
      <4>1. size'[e] = size[e] /\ (e \in missed' <=> e \in missed)
        BY <2>1, <3>3 DEF TypeOK, FolderTypeOK
      <4>. QED BY <2>1, <3>1, <3>2, <4>1 DEF SizesKnown, Right
    <3>4. CASE e = d
      <4>1. size'[e] = disk'[e]
        BY <2>1, <3>4 DEF TypeOK, FolderTypeOK
      <4>2. CASE Returned(d)
        BY <2>1, <3>1, <3>2, <3>4, <4>1, <4>2 DEF SizesKnown, Right
      <4>3. CASE ~Returned(d)
        BY <2>1, <3>1, <3>2, <3>4, <4>1, <4>3 DEF Right, Returned
      <4>. QED BY <4>2, <4>3
    <3>. QED BY <3>3, <3>4
  <2>. QED BY <2>1, <2>2 DEF SizesKnown
<1>6. CASE Count
  <2>1. /\ Head(requests) \in Dirs /\ results = <<>>
        /\ In(requests) = {Head(requests)} /\ In(requests') = {}
        /\ In(results') = {<<Head(requests), disk[Head(requests)]>>}
    BY <1>6, CountOne DEF Count
  <2>2. /\ UNCHANGED <<shown, unresolved, size, disk, queue, watched, dirty>>
        /\ missed' = missed \ {Head(requests)}
    BY <1>6 DEF Count, CountDirectoryContents, modelVars, worldVars
  <2>3. ASSUME NEW e \in shown PROVE Watches(e)' /\ Right(e)'
    <3>1. CASE e = Head(requests)
      <4>1. Returned(e)'
        BY <2>1, <3>1 DEF Returned
      <4>2. \A r \in In(results') : r[2] = disk'[e]
        BY <2>1, <2>2, <3>1
      <4>. QED BY <4>1, <4>2 DEF Watches, Right
    <3>2. CASE e # Head(requests)
      <4>1. ~Returned(e) /\ ~Returned(e)'
        BY <2>1, <3>2, EmptyFacts DEF Returned
      <4>2. Recount(e)' = Recount(e) /\ (e \in missed' <=> e \in missed)
        BY <2>1, <2>2, <3>2 DEF Recount
      <4>3. \A r \in In(results') : r[1] # e
        BY <4>1 DEF Returned
      <4>. QED BY <2>2, <4>1, <4>2, <4>3 DEF SizesKnown, Watches, Right
    <3>. QED BY <3>1, <3>2
  <2>. QED BY <2>2, <2>3 DEF SizesKnown
<1>7. CASE Result
  <2>. DEFINE r == Head(results)
  <2>1. /\ r \in Dirs \X Counts
        /\ In(results) = {r} /\ In(results') = {}
        /\ In(queue') \cup In(requests') = In(queue) \cup In(requests)
    BY <1>7, ResultOne DEF Result
  <2>2. /\ UNCHANGED <<shown, unresolved, disk, dirty, missed>>
        /\ watched' = watched \cup {r[1]}
        /\ size' = SetData(size, r[1], r[2])
    BY <1>7 DEF Result, SlotResult, worldVars
  <2>3. ASSUME NEW e \in shown PROVE Watches(e)' /\ Right(e)'
    <3>1. Recount(e)' = Recount(e)
      BY <2>1, <2>2 DEF Recount
    <3>2. CASE e = r[1]
      <4>1. size'[e] = r[2]
        BY <2>2, <3>2 DEF SetData, TypeOK, FolderTypeOK
      <4>2. e \notin missed /\ ~Recount(e) => r[2] = disk[e]
        BY <2>1, <3>2 DEF SizesKnown, Right
      <4>. QED BY <2>1, <2>2, <3>1, <3>2, <4>1, <4>2 DEF Watches, Right
    <3>3. CASE e # r[1]
      <4>1. ~Returned(e) /\ size'[e] = size[e]
        BY <2>1, <2>2, <3>3 DEF Returned, SetData, TypeOK, FolderTypeOK
      <4>. QED BY <2>1, <2>2, <3>1, <4>1 DEF SizesKnown, Watches, Right
    <3>. QED BY <3>2, <3>3
  <2>. QED BY <2>2, <2>3 DEF SizesKnown
<1>8. ASSUME NEW d \in Dirs, Resolve(d) PROVE SizesKnown'
  <2>1. /\ StartWorker(d) /\ unresolved' = unresolved \ {d}
        /\ UNCHANGED <<shown, size, disk, dirty, watched, results, missed>>
    BY <1>8 DEF Resolve, AddDirectory, worldVars
  <2>. QED BY <2>1, StartWorkerKnown
<1>9. ASSUME NEW d \in Dirs, Dirty(d) PROVE SizesKnown'
  <2>1. /\ dirty' = dirty \ {d}
        /\ UNCHANGED <<shown, unresolved, size, disk, watched, results, missed>>
    BY <1>9 DEF Dirty, SlotDirWatchDirty, modelVars, worldVars
  <2>2. CASE d \in shown
    <3>1. StartWorker(d)
      BY <1>9, <2>2 DEF Dirty, SlotDirWatchDirty
    <3>. QED BY <2>1, <3>1, StartWorkerKnown
  <2>3. CASE d \notin shown
    <3>1. UNCHANGED <<queue, requests>>
      BY <1>9, <2>3 DEF Dirty, SlotDirWatchDirty
    <3>2. ASSUME NEW e \in shown PROVE Recount(e) => Recount(e)'
      BY <2>1, <2>3, <3>1 DEF Recount
    <3>. QED BY <2>1, <3>2, SameKnown DEF SizesKnown
  <2>. QED BY <2>2, <2>3
<1>10. CASE Finished
  <2>1. unresolved \subseteq unresolved' /\ UNCHANGED <<shown, size, disk, counterVars>>
    BY <1>10 DEF Finished, SlotThreadFinished, worldVars
  <2>2. ASSUME NEW e \in shown PROVE Recount(e) => Recount(e)'
    BY <2>1 DEF Recount, counterVars
  <2>. QED BY <2>1, <2>2, SameKnown DEF SizesKnown, counterVars
<1>11. CASE Open
  <2>1. shown' = {}
    BY <1>11 DEF Open, OpenFolder
  <2>. QED BY <2>1 DEF SizesKnown
<1>12. CASE \/ \E d \in Dirs : StatusChanges(d) \/ Read(d)
            \/ Verify \/ Text \/ UNCHANGED vars
  <2>1. UNCHANGED <<shown, unresolved, size, disk, counterVars>>
    BY <1>12 DEF StatusChanges, Read, Verify, Text, vars, modelVars, worldVars
  <2>. QED BY <1>1, <2>1
<1>. QED
  BY <1>2, <1>3, <1>4, <1>5, <1>6, <1>7, <1>8, <1>9, <1>10, <1>11, <1>12 DEF Next, Outside, Inside

\* Every size shown is right or about to be corrected, for any number of
\* directories, changes and removals, but for the changes that are missed while
\* the worker's result is on its way.
THEOREM SizesNeverStale == Spec => []SizesFresh
<1>1. Init => SizesKnown
  BY DEF Init, FolderInit, SizesKnown
<1>2. Spec => [](TypeOK /\ OneInFlight /\ SizesKnown)
  BY <1>1, FolderTypeCorrect, QueueServed, NextKnown, PTL DEF Spec
<1>. QED BY <1>2, KnownFresh, PTL

------------------------------------------------------------------------------
(* The versions                                                             *)

\* Unless a verification is due, the plugin is the one of the folder; and the
\* version of an item is right, or will be asked for, or has been read right by
\* the thread.
Known(d) ==
    \/ ~thread.runs /\ version[d] = status[d]
    \/ thread.runs /\ pending
    \/ thread.runs /\ d \in thread.items /\ thread.read[d] \in {None, status[d]}
VersionsKnown ==
    ~timer /\ shown # {} /\ root \notin Remote =>
        /\ plugin <=> root \in Versioned
        /\ plugin => \A d \in shown : Known(d)

LEMMA KnownRight == VersionsKnown => VersionsRight
  BY DEF VersionsKnown, VersionsRight, ObserverIdle, Known

LEMMA UpdateKnows ==
    ASSUME TypeOK, NEW s, NEW p, NEW t, NEW b, UpdateItemStates(s, p, t, b), NEW d \in shown
    PROVE  Known(d)'
<1>1. CASE t.runs
  BY <1>1 DEF UpdateItemStates, Known
<1>2. CASE ~t.runs
  <2>1. thread' = Thread(shown) /\ d \in Dirs
    BY <1>2 DEF UpdateItemStates, TypeOK, FolderTypeOK
  <2>. QED BY <2>1 DEF Thread, NoRole, Known
<1>. QED BY <1>1, <1>2

LEMMA NextVersions == TypeOK /\ VersionsKnown /\ [Next]_vars => VersionsKnown'
<1>. SUFFICES ASSUME TypeOK, VersionsKnown, [Next]_vars PROVE VersionsKnown'
  OBVIOUS
<1>1. CASE UNCHANGED <<root, shown, version, status, plugin, pending, timer, thread>>
  BY <1>1 DEF VersionsKnown, Known
<1>2. ASSUME timer' PROVE VersionsKnown'
  BY <1>2 DEF VersionsKnown
<1>3. ASSUME ItemsChanged, UNCHANGED <<root, shown, version, status>> PROVE VersionsKnown'
  BY <1>1, <1>2, <1>3 DEF ItemsChanged, DelayedDirectoryVerification, observerVars
<1>4. ASSUME NEW d \in Dirs, Insert(d) PROVE VersionsKnown'
  BY <1>2, <1>4 DEF Insert, DelayedDirectoryVerification
<1>5. CASE Remove
  <2>1. PICK gone \in SUBSET shown, to \in Folders :
            RemoveItems(gone, to) /\ UNCHANGED observerVars
    BY <1>5 DEF Remove
  <2>2. CASE shown' = {}
    BY <2>2 DEF VersionsKnown
  <2>3. CASE shown' # {}
    <3>1. root' = root /\ shown' \subseteq shown /\ UNCHANGED status
      BY <2>1, <2>3 DEF RemoveItems
    <3>2. \A d \in shown' : version'[d] = version[d]
      BY <2>1 DEF RemoveItems, TypeOK, FolderTypeOK
    <3>. QED BY <2>1, <3>1, <3>2 DEF observerVars, VersionsKnown, Known
  <2>. QED BY <2>2, <2>3
<1>6. CASE Open
  BY <1>6 DEF Open, OpenFolder, VersionsKnown
<1>7. ASSUME NEW d \in Dirs, StatusChanges(d) PROVE VersionsKnown'
  <2>1. CASE plugin
    BY <1>2, <1>7, <2>1 DEF StatusChanges, ChangeStatus
  <2>2. CASE ~plugin
    BY <1>7, <2>2 DEF StatusChanges, ChangeStatus, modelVars, VersionsKnown
  <2>. QED BY <2>1, <2>2
<1>8. CASE Verify
  <2>1. UNCHANGED <<root, shown>>
    BY <1>8 DEF Verify, modelVars
  <2>2. CASE root \in Remote
    BY <2>1, <2>2 DEF VersionsKnown
  <2>3. CASE root \notin Remote
    <3>1. plugin' = (root \in Versioned)
      BY <1>8, <2>3 DEF Verify, VerifyDirectory
    <3>2. ASSUME plugin', NEW d \in shown PROVE Known(d)'
      <4>1. UpdateItemStates(silent, pending, thread, bar)
        BY <1>8, <2>3, <3>2 DEF Verify, VerifyDirectory
      <4>. QED BY <4>1, UpdateKnows
    <3>. QED BY <2>1, <3>1, <3>2 DEF VersionsKnown
  <2>. QED BY <2>2, <2>3
<1>9. ASSUME NEW d \in Dirs, Read(d) PROVE VersionsKnown'
  <2>1. /\ thread.runs /\ thread' = [thread EXCEPT !.read[d] = status[d]]
        /\ UNCHANGED <<root, shown, version, status, plugin, pending, timer>>
    BY <1>9 DEF Read, ThreadReads, modelVars, worldVars
  <2>2. ASSUME NEW e \in Dirs, Known(e) PROVE Known(e)'
    <3>1. /\ thread'.runs /\ thread'.items = thread.items
          /\ thread'.read[e] = IF e = d THEN status[e] ELSE thread.read[e]
      BY <2>1 DEF TypeOK, ObserverTypeOK
    <3>. QED BY <2>1, <2>2, <3>1 DEF Known
  <2>. QED BY <2>1, <2>2 DEF VersionsKnown, TypeOK, FolderTypeOK
<1>10. CASE Finished
  <2>1. /\ thread.runs /\ (\A d \in thread.items : thread.read[d] # None)
        /\ UNCHANGED <<root, shown, status, plugin>>
    BY <1>10 DEF Finished, SlotThreadFinished, worldVars
  <2>2. CASE ~plugin
    <3>1. UNCHANGED timer
      BY <1>10, <2>2 DEF Finished, SlotThreadFinished
    <3>. QED BY <2>1, <2>2, <3>1 DEF VersionsKnown
  <2>3. CASE plugin /\ pending
    <3>1. PICK s, b : UpdateItemStates(s, FALSE, NoThread, b)
      BY <1>10, <2>3 DEF Finished, SlotThreadFinished
    <3>2. \A d \in shown : Known(d)'
      BY <3>1, UpdateKnows
    <3>3. timer' \/ ~timer
      BY <1>10, <2>3 DEF Finished, SlotThreadFinished
    <3>. QED BY <2>1, <2>3, <3>2, <3>3 DEF VersionsKnown
  <2>4. CASE plugin /\ ~pending
    <3>1. /\ thread' = NoThread /\ timer' = (timer \/ Differing # {})
          /\ version' = [d \in Dirs |-> IF d \in Differing THEN thread.read[d] ELSE version[d]]
      BY <1>10, <2>4 DEF Finished, SlotThreadFinished
    <3>2. ASSUME ~timer', NEW d \in shown, Known(d) PROVE Known(d)'
      <4>1. version'[d] = version[d] /\ d \notin Differing
        BY <3>1, <3>2 DEF TypeOK, FolderTypeOK
      <4>2. d \in thread.items /\ thread.read[d] = status[d]
        BY <2>1, <2>4, <3>2 DEF Known
      <4>3. version[d] = status[d]
        BY <4>1, <4>2 DEF Differing
      <4>. QED BY <2>1, <3>1, <4>1, <4>3 DEF Known, NoThread
    <3>3. timer' \/ ~timer
      BY <3>1
    <3>. QED BY <2>1, <2>4, <3>2, <3>3 DEF VersionsKnown
  <2>. QED BY <2>2, <2>3, <2>4
<1>11. ASSUME NEW d \in Dirs, SortRole(d) PROVE VersionsKnown'
  BY <1>3, <1>11 DEF SortRole
<1>12. CASE Result
  BY <1>3, <1>12 DEF Result, worldVars
<1>13. CASE \/ \E d \in Dirs : DiskChanges(d) \/ Dirty(d)
            \/ Count \/ Text \/ UNCHANGED vars
  <2>1. UNCHANGED <<root, shown, version, status, plugin, pending, timer, thread>>
    BY <1>13 DEF DiskChanges, Dirty, Count, Text, ShowText, vars,
                 modelVars, worldVars, observerVars
  <2>. QED BY <1>1, <2>1
<1>14. ASSUME NEW d \in Dirs, Resolve(d) PROVE VersionsKnown'
  BY <1>1, <1>2, <1>14 DEF Resolve, DelayedDirectoryVerification, worldVars, observerVars
<1>. QED
  BY <1>4, <1>5, <1>6, <1>7, <1>8, <1>9, <1>10, <1>11, <1>12, <1>13, <1>14 DEF Next, Outside, Inside

\* When neither timer nor thread are active the emblems are right, for any number
\* of folders and items and whatever happened while they were.
THEOREM VersionsSettleRight == Spec => []VersionsRight
<1>1. Init => VersionsKnown
  BY DEF Init, FolderInit, VersionsKnown
<1>2. Spec => []VersionsKnown
  BY <1>1, FolderTypeCorrect, NextVersions, PTL DEF Spec
<1>. QED BY <1>2, KnownRight, PTL

------------------------------------------------------------------------------
(* The message in the status bar                                            *)

LEMMA UpdateRuns ==
    ASSUME NEW s, NEW p, NEW t, NEW b, UpdateItemStates(s, p, t, b), shown # {}
    PROVE  thread'.runs
  BY DEF UpdateItemStates, Thread

LEMMA NextMessage == TypeOK /\ MessageCleared /\ [Next]_vars => MessageCleared'
<1>. SUFFICES ASSUME TypeOK, MessageCleared, [Next]_vars PROVE MessageCleared'
  OBVIOUS
<1>1. CASE UNCHANGED <<root, shown, plugin, silent, timer, thread>> /\ bar' \in {bar, "default", "other"}
  BY <1>1 DEF MessageCleared, ObserverIdle
<1>2. ASSUME timer' PROVE MessageCleared'
  BY <1>2 DEF MessageCleared, ObserverIdle
<1>3. ASSUME ItemsChanged, UNCHANGED <<root, shown>> PROVE MessageCleared'
  BY <1>1, <1>2, <1>3 DEF ItemsChanged, DelayedDirectoryVerification, observerVars
<1>4. ASSUME NEW d \in Dirs, Insert(d) PROVE MessageCleared'
  BY <1>2, <1>4 DEF Insert, DelayedDirectoryVerification
<1>5. CASE Remove
  BY <1>5 DEF Remove, RemoveItems, observerVars, MessageCleared, ObserverIdle
<1>6. CASE Open
  BY <1>6 DEF Open, OpenFolder, MessageCleared
<1>7. ASSUME NEW d \in Dirs, StatusChanges(d) PROVE MessageCleared'
  <2>1. CASE plugin
    BY <1>2, <1>7, <2>1 DEF StatusChanges, ChangeStatus
  <2>2. CASE ~plugin
    BY <1>7, <2>2 DEF StatusChanges, ChangeStatus, MessageCleared
  <2>. QED BY <2>1, <2>2
<1>8. CASE Verify
  <2>1. UNCHANGED <<root, shown>>
    BY <1>8 DEF Verify, modelVars
  <2>2. CASE root \in Remote
    BY <2>1, <2>2 DEF MessageCleared
  <2>3. ASSUME root \notin Remote, plugin', shown # {} PROVE thread'.runs
    BY <1>8, <2>3, UpdateRuns DEF Verify, VerifyDirectory
  <2>. QED BY <2>1, <2>2, <2>3 DEF MessageCleared, ObserverIdle
<1>9. ASSUME NEW d \in Dirs, Read(d) PROVE MessageCleared'
  <2>1. thread'.runs
    BY <1>9 DEF Read, ThreadReads, TypeOK, ObserverTypeOK
  <2>. QED BY <2>1 DEF MessageCleared, ObserverIdle
<1>10. CASE Finished
  <2>1. UNCHANGED <<shown, plugin>>
    BY <1>10 DEF Finished, SlotThreadFinished
  <2>2. CASE ~plugin
    BY <2>1, <2>2 DEF MessageCleared
  <2>3. CASE plugin /\ pending
    <3>1. PICK s, b : UpdateItemStates(s, FALSE, NoThread, b)
      BY <1>10, <2>3 DEF Finished, SlotThreadFinished
    <3>. QED BY <2>1, <3>1, UpdateRuns DEF MessageCleared, ObserverIdle
  <2>4. CASE plugin /\ ~pending
    <3>1. bar' = IF silent' THEN bar ELSE "default"
      BY <1>10, <2>4 DEF Finished, SlotThreadFinished
    <3>. QED BY <3>1 DEF MessageCleared
  <2>. QED BY <2>2, <2>3, <2>4
<1>11. ASSUME NEW d \in Dirs, SortRole(d) PROVE MessageCleared'
  BY <1>3, <1>11 DEF SortRole
<1>12. CASE Result
  BY <1>3, <1>12 DEF Result
<1>13. CASE \/ \E d \in Dirs : DiskChanges(d) \/ Dirty(d)
            \/ Count \/ Text \/ UNCHANGED vars
  <2>1. UNCHANGED <<root, shown, plugin, silent, timer, thread>> /\ bar' \in {bar, "default", "other"}
    BY <1>13 DEF DiskChanges, Dirty, Count, Text, ShowText, vars,
                 modelVars, observerVars
  <2>. QED BY <1>1, <2>1
<1>14. ASSUME NEW d \in Dirs, Resolve(d) PROVE MessageCleared'
  BY <1>1, <1>2, <1>14 DEF Resolve, DelayedDirectoryVerification, observerVars
<1>. QED
  BY <1>4, <1>5, <1>6, <1>7, <1>8, <1>9, <1>10, <1>11, <1>12, <1>13, <1>14 DEF Next, Outside, Inside

\* The observer's message goes when it has nothing left to do, but for the two
\* orders of events that MessageCleared names.
THEOREM MessageNotLeft == Spec => []MessageCleared
<1>1. Init => MessageCleared
  BY DEF Init, FolderInit, MessageCleared
<1>. QED BY <1>1, FolderTypeCorrect, NextMessage, PTL DEF Spec

==============================================================================
