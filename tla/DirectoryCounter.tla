---------------------------- MODULE DirectoryCounter ----------------------------
(****************************************************************************)
(* dolphin's KDirectoryContentsCounter with its worker in another thread,   *)
(* and KDirWatch, which tells of changes in the directories it watches.     *)
(*                                                                          *)
(* Signals between the threads are queued: `requests' are on their way to   *)
(* the worker, `results' on their way back.  The worker reads a directory   *)
(* in one step.  KDirWatch is modelled from its use: a change in a watched  *)
(* directory is signalled some time later, unless it is watched no longer.  *)
(* The options of a count (hidden files, directories only) do not change.   *)
(****************************************************************************)
EXTENDS FolderModel

VARIABLES
    queue,      \* m_queue
    busy,       \* m_workerIsBusy
    watched,    \* m_watchedDirs, and what m_dirWatcher contains
    requests,   \* requestDirectoryContentsCount()
    results,    \* KDirectoryContentsCounterWorker::result()
    dirty,      \* KDirWatch::dirty()
    missed      \* history: directories that changed, unwatched, after the worker's last look

counterVars == <<queue, busy, watched, requests, results, dirty, missed>>

CounterInit ==
    /\ queue = <<>> /\ requests = <<>> /\ results = <<>>
    /\ busy = FALSE
    /\ watched = {} /\ dirty = {} /\ missed = {}

CounterTypeOK ==
    /\ queue \in Seq(Dirs) /\ requests \in Seq(Dirs) /\ results \in Seq(Dirs \X Counts)
    /\ busy \in BOOLEAN
    /\ watched \subseteq Dirs /\ dirty \subseteq watched /\ missed \subseteq Dirs

In(s) == {s[k] : k \in DOMAIN s}
Returned(d) == \E r \in In(results) : r[1] = d

----------------------------------------------------------------------------

\* Bug: m_workerIsBusy is not set.
StartWorkerFree(d) ==
    IF busy THEN queue' = Append(queue, d) /\ UNCHANGED <<requests, busy>>
    ELSE requests' = Append(requests, d) /\ UNCHANGED <<queue, busy>>

StartWorker(d) ==
    IF busy THEN queue' = Append(queue, d) /\ UNCHANGED <<requests, busy>>
    ELSE requests' = Append(requests, d) /\ busy' = TRUE /\ UNCHANGED queue

\* countDirectoryContents(), in the worker's thread
CountDirectoryContents ==
    /\ requests # <<>>
    /\ requests' = Tail(requests)
    /\ results' = Append(results, <<Head(requests), disk[Head(requests)]>>)
    /\ missed' = missed \ {Head(requests)}
    /\ UNCHANGED <<queue, busy, watched, dirty>>

\* slotResult(), with KFileItemModelRolesUpdater::slotDirectoryContentsCountReceived()
SlotResult ==
    LET d == Head(results)[1]
    IN /\ results # <<>>
       /\ results' = Tail(results)
       /\ watched' = watched \cup {d}
       /\ IF queue # <<>>
          THEN requests' = Append(requests, Head(queue)) /\ queue' = Tail(queue) /\ busy' = TRUE
          ELSE busy' = FALSE /\ UNCHANGED <<requests, queue>>
       /\ size' = SetData(size, d, Head(results)[2])
       /\ UNCHANGED <<dirty, missed>>

\* KFileItemModelRolesUpdater::rolesData() calls addDirectory().
AddDirectory(d) ==
    /\ d \in unresolved
    /\ unresolved' = unresolved \ {d}
    /\ StartWorker(d)
    /\ UNCHANGED <<watched, results, dirty, missed>>

\* KFileItemModelRolesUpdater::applySortRole() for the sort role "size", with
\* countDirectoryContentsSynchronously()
ApplySortRole(d) ==
    /\ d \in shown
    /\ watched' = watched \cup {d}
    /\ size' = SetData(size, d, disk[d])
    /\ missed' = IF Returned(d) THEN missed ELSE missed \ {d}
    /\ UNCHANGED <<queue, busy, requests, results, dirty>>

SlotDirWatchDirty(d) ==
    /\ d \in dirty
    /\ dirty' = dirty \ {d}
    /\ IF d \in shown THEN StartWorker(d) ELSE UNCHANGED <<queue, busy, requests>>
    /\ UNCHANGED <<watched, results, missed>>

\* Bug: the queue is cleared although items are left.
SlotItemsRemovedClear(left) ==
    /\ watched' = watched \cap left
    /\ queue' = <<>>
    /\ dirty' = dirty \cap left
    /\ UNCHANGED <<busy, requests, results, missed>>

\* slotItemsRemoved(); `left' are the items that the model still has.
SlotItemsRemoved(left) ==
    /\ watched' = watched \cap left
    /\ queue' = IF watched # {} /\ left = {} THEN <<>> ELSE queue
    /\ dirty' = dirty \cap left
    /\ UNCHANGED <<busy, requests, results, missed>>

\* A directory on disk changes.
ChangeDirectory(d) ==
    /\ \E c \in Counts \ {disk[d]} : disk' = [disk EXCEPT ![d] = c]
    /\ dirty' = dirty \cup ({d} \cap watched)
    /\ missed' = IF d \notin watched /\ Returned(d) THEN missed \cup {d} ELSE missed
    /\ UNCHANGED <<queue, busy, watched, requests, results>>

----------------------------------------------------------------------------
\* The worker is never asked twice and never forgotten: m_workerIsBusy says
\* whether one request or its result is on its way, and a directory waits in
\* m_queue only while there is one, so every queued directory has its turn.
OneInFlight ==
    /\ Len(requests) + Len(results) = IF busy THEN 1 ELSE 0
    /\ queue # <<>> => busy

\* A size shown that the disk no longer agrees with is about to be corrected:
\* the directory has yet to be resolved, waits, is being counted or has been
\* counted right, or its change is being signalled.  Only a change between the
\* worker's look at a directory and the call that begins to watch it is missed.
Recount(d) == d \in unresolved \cup dirty \cup In(queue) \cup In(requests)
SizesFresh ==
    \A d \in shown \ missed : size[d] # disk[d] => Recount(d) \/ <<d, disk[d]>> \in In(results)

=============================================================================
