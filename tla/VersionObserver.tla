----------------------------- MODULE VersionObserver -----------------------------
(****************************************************************************)
(* dolphin's VersionControlObserver and UpdateItemStatesThread.             *)
(*                                                                          *)
(* The plugin is modelled from its use: it answers for one item at a time   *)
(* in the thread, and emits itemVersionsChanged() when an answer of its     *)
(* changes.  m_versionedDirectory is set exactly when m_plugin is; the      *)
(* interval of the timer is left out with it.  beginRetrieval() succeeds.   *)
(* The status bar takes an empty message for its default text, a moment     *)
(* later; `bar' is what it shows when that moment has passed.               *)
(****************************************************************************)
EXTENDS FolderModel

VARIABLES
    plugin,    \* m_plugin # 0
    silent,    \* m_silentUpdate
    pending,   \* m_pendingItemStatesUpdate
    timer,     \* m_dirVerificationTimer->isActive()
    thread,    \* m_updateItemStatesThread: its items, and what it read of them
    bar        \* what the status bar shows: the observer's message, the default
               \* text, or another

observerVars == <<plugin, silent, pending, timer, thread, bar>>

Thread(items) == [runs |-> TRUE, items |-> items, read |-> NoRole]
NoThread == [runs |-> FALSE, items |-> {}, read |-> NoRole]

ObserverInit ==
    /\ plugin = FALSE /\ silent = FALSE /\ pending = FALSE /\ timer = FALSE
    /\ thread = NoThread
    /\ bar = "default"

ObserverTypeOK ==
    /\ {plugin, silent, pending, timer} \subseteq BOOLEAN
    /\ thread \in [runs : BOOLEAN, items : SUBSET Dirs, read : [Dirs -> Versions \cup {None}]]
    /\ bar \in {"default", "updating", "other"}

----------------------------------------------------------------------------

\* The slot of itemsInserted() and itemsChanged().
DelayedDirectoryVerification ==
    /\ silent' = FALSE /\ timer' = TRUE
    /\ UNCHANGED <<plugin, pending, thread, bar>>

\* Bug: an update that finds the thread running is dropped.
UpdateItemStatesDrop(s, p, t, b) ==
    /\ pending' = p
    /\ thread' = IF ~t.runs /\ shown # {} THEN Thread(shown) ELSE t
    /\ bar' = IF ~t.runs /\ shown # {} /\ ~s THEN "updating" ELSE b

\* updateItemStates(), called when silent has the value s and pending the value
\* p, while thread t is there, and with b in the status bar.
UpdateItemStates(s, p, t, b) ==
    IF t.runs THEN pending' = TRUE /\ thread' = t /\ bar' = b
    ELSE /\ pending' = p
         /\ thread' = IF shown # {} THEN Thread(shown) ELSE t
         /\ bar' = IF shown # {} /\ ~s THEN "updating" ELSE b

\* timeout() of the timer
VerifyDirectory ==
    /\ timer /\ timer' = FALSE
    /\ UNCHANGED silent
    /\ IF root \in Remote THEN UNCHANGED <<plugin, pending, thread, bar>>
       ELSE /\ plugin' = (root \in Versioned)
            /\ IF plugin' THEN UpdateItemStates(silent, pending, thread, bar)
               ELSE UNCHANGED <<pending, thread, bar>>

\* UpdateItemStatesThread::run(): itemVersion() of one item
ThreadReads(d) ==
    /\ thread.runs /\ d \in thread.items /\ thread.read[d] = None
    /\ thread' = [thread EXCEPT !.read[d] = status[d]]
    /\ UNCHANGED <<plugin, silent, pending, timer, bar>>

\* Bug: setData() takes every version for a new one.
DifferingAll == thread.items \cap shown
\* The items for which the thread found another version than the one shown.
Differing == {d \in thread.items \cap shown : version[d] # thread.read[d]}

\* Bug: nothing is said when nothing has changed.
SlotThreadFinishedMute ==
    /\ thread.runs /\ \A d \in thread.items : thread.read[d] # None
    /\ UNCHANGED plugin
    /\ IF ~plugin
       THEN thread' = NoThread /\ UNCHANGED <<silent, pending, timer, bar, version, unresolved>>
       ELSE LET s == silent /\ Differing = {}
                b == IF Differing = {} THEN bar ELSE "default"
            IN /\ version' = [d \in Dirs |-> IF d \in Differing THEN thread.read[d] ELSE version[d]]
               /\ unresolved' = unresolved \cup Differing
               /\ silent' = s
               /\ timer' = (timer \/ Differing # {})
               /\ IF pending THEN UpdateItemStates(s, FALSE, NoThread, b)
                  ELSE thread' = NoThread /\ bar' = b /\ UNCHANGED pending

SlotThreadFinished ==
    /\ thread.runs /\ \A d \in thread.items : thread.read[d] # None
    /\ UNCHANGED plugin
    /\ IF ~plugin
       THEN thread' = NoThread /\ UNCHANGED <<silent, pending, timer, bar, version, unresolved>>
       ELSE LET \* after setData(), whose itemsChanged() came to DelayedDirectoryVerification
                s == silent /\ Differing = {}
                b == IF s THEN bar ELSE "default"
            IN /\ version' = [d \in Dirs |-> IF d \in Differing THEN thread.read[d] ELSE version[d]]
               /\ unresolved' = unresolved \cup Differing
               /\ silent' = s
               /\ timer' = (timer \/ Differing # {})
               /\ IF pending THEN UpdateItemStates(s, FALSE, NoThread, b)
                  ELSE thread' = NoThread /\ bar' = b /\ UNCHANGED pending

\* The plugin's answer for an item changes; itemVersionsChanged() comes to
\* silentDirectoryVerification() if verifyDirectory() has connected it.
ChangeStatus(d) ==
    /\ \E v \in Versions \ {status[d]} : status' = [status EXCEPT ![d] = v]
    /\ IF plugin THEN silent' = TRUE /\ timer' = TRUE ELSE UNCHANGED <<silent, timer>>
    /\ UNCHANGED <<plugin, pending, thread, bar>>

\* DolphinViewContainer::showItemInfo(): the item under the mouse, or none.
ShowText ==
    /\ bar' \in {"default", "other"} \ {bar}
    /\ UNCHANGED <<plugin, silent, pending, timer, thread>>

----------------------------------------------------------------------------
ObserverIdle == ~timer /\ ~thread.runs

\* Once nothing is left to be done, the emblems are those of the items that are
\* shown: whatever was inserted, removed or changed, and whichever folder was
\* opened, while the timer or the thread ran.  (The plugin of a folder that is
\* not local is not looked for.)
VersionsRight ==
    ObserverIdle /\ shown # {} /\ root \notin Remote =>
        /\ plugin <=> root \in Versioned
        /\ plugin => \A d \in shown : version[d] = status[d]

\* Over a local folder with items, "Updating version information..." stays in the
\* status bar only when an update that announced itself was overtaken by a silent
\* one, or found no plugin at its end.
MessageCleared ==
    ObserverIdle /\ shown # {} /\ root \notin Remote /\ bar = "updating" => silent \/ ~plugin

==============================================================================
