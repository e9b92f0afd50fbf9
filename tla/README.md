# A verification project for the Katana desktop workspace

Katana is a fork of the KDE 4 workspace: a window manager (kwin), a desktop shell
(plasma), a file manager (dolphin), an editor (kate), a terminal (konsole), a system
monitor (ksysguard), KIO slaves and many small tools, some 350 000 lines of C++ over
kdelibs and Qt.  Most of it draws, lays out and forwards.  This project models the parts
that keep state of their own, share it with other processes or with call backs, and can
lose a user's data or mix up answers when a step comes at the wrong time.

| Part of the code | Modules | Model-checked | Proved for all constants |
|---|---|---|---|
| `kioslave/trash` | `Trash`, `TrashProofs`, `MCTrash` | yes | yes |
| `libs/ksysguard/ksgrd` with `ksysguardd` | `SensorAgent`, `SensorProofs`, `MCSensor` | yes | yes |
| `kate/part/undo` with the document that drives it | `History`, `UndoManager`, `UndoProofs`, `MCUndo` | yes | yes |
| `kate/part/swapfile` with the document that drives it | `SwapFile`, `SwapProofs`, `MCSwap` | yes | yes |
| `dolphin`: selection manager, sets of items, the keys and clicks that select | `ItemSet`, `Selection`, `ItemSetProofs`, `SelectionProofs`, `MCSelection` | yes | yes |
| `dolphin`: contents counter and version control observer over one model | `FolderModel`, `DirectoryCounter`, `VersionObserver`, `Folder`, `FolderProofs`, `MCFolder` | yes | yes |
| `kwin`: focus chains, virtual desktops and their callers | `FocusChain`, `FocusProofs`, `MCFocus` | yes | yes |

Each module begins with what it abstracts.  `PROJECT.json` names, for every definition,
the lines it translates, and lists the runs, the properties with a bug that breaks each,
the hazards, the theorems and the disagreements found between code and comments.

Check a run with `tlc -config MCTrashPair.cfg MCTrash`, the proofs with
`tlapm TrashProofs.tla`.

## 1. Inventory

### kioslave/trash: the trash

*State.*  On disk and shared by every `kio_trash` process: pairs of directory entries
`info/<id>.trashinfo` and `files/<id>`, the `metadata` file with the cached size of
`files/`, and `Status/Empty` in `trashrc`, which chooses the icon on the desktop.  In each
process: the request it serves.
*Operations.*  `createInfo`, `moveToTrash`, `copyToTrash`, `moveFromTrash`,
`copyFromTrash`, `del`, `emptyTrash`, `adaptTrashSize` (age and size limits), the size
cache's `add`, `remove`, `clear`, `initialize`, and `fileAdded`/`fileRemoved` for the flag.
*Interaction.*  KIO starts as many slaves as there are jobs; they meet only on disk.
*Hard.*  Interleavings of system calls; a slave killed between two of them; moves between
file systems that fail half way; limits that delete while something is added.
*Correct means.*  Nothing is lost that nobody asked to destroy; what is in `files/` can be
found and restored; no move replaces an item; size and flag say the truth.

### libs/ksysguard/ksgrd: sensors

*State.*  `SensorManager`: the agents by host.  `SensorAgent`: FIFOs of requests to be
written and to be answered, the answer being collected, left over bytes.  The daemon: its
input and output.
*Operations.*  `sendRequest`, `executeCommand`, `processAnswer`, `engage`, `disengage`,
`disconnectClient`, `daemonExited`; `ksysguardd`'s command loop.
*Interaction.*  Displays (clients) are called back from `processAnswer` and send from there;
they are destroyed at any time; the daemon is another process behind a pipe or a socket.
*Hard.*  Answers carry no id, only their order says whose they are; re-entrancy; destroyed
clients; chunks cut anywhere; a dying connection.
*Correct means.*  Each answer reaches its request; each request is answered; no destroyed
client is called; timers do not pile up requests.

### kate/part/undo: the undo history

*State.*  Two lists of owned raw pointers to groups, a group being made, merge modes, and
six variables that remember where the document was saved.
*Operations.*  `editStart`, `editEnd`, `addUndoItem`, `undo`, `redo`, `undoSafePoint`,
`setModified`, `updateModified`, `clearUndo`, `clearRedo`; driven by `KateDocument`'s edits,
`saveFile` and `closeUrl`.
*Hard.*  Long sequences: undo, branch, merge, save, undo past the save, redo.
*Correct means.*  Undo and redo apply each group to the text it was made for; they stop at
the saved text; the modified flag, which decides whether closing asks, is exact.

### kate/part/swapfile: the log of edits

*State.*  Beside each edited file a hidden log: version, digest of the file, then the records
of edits.  In the editor: the log's name, whether it is open, what is not flushed, whether
this document has recovered (`m_recovered`), whether the question is shown.
*Operations.*  `fileLoaded`, `startEditing`, the four kinds of changes, `finishEditing`,
`modifiedChanged`, `fileSaved`, `fileClosed`, `recover`, `discard`.
*Interaction.*  Signals of the text buffer and of the document drive it in the order in which
these emit them; the next start of the editor reads what the last one left.
*Hard.*  A kill at any moment, also during a save or a second run; save as, undo to the saved
text and recovery each end one log and begin or continue another; the same log is read on
another content than it was made on.
*Correct means.*  The log on disk leads from the file on disk to what the user saw; it is
removed as soon, and only when, nothing can be lost; it is never applied elsewhere.

### dolphin: the selection

*State.*  The manager: current item, anchor, whether an anchored selection is active, and
the selection, a `KItemSet`, which is a list of ranges of indexes.  The controller: the
pressed index, what a release will do, the rubber band and the selection of before.
*Operations.*  `setSelected`, `setSelectedItems`, `setCurrentItem`, `begin-` and
`endAnchoredSelection`, `itemsInserted`, `itemsRemoved`, `itemsMoved`; the keys, clicks,
drags, the rubber band; the view's select all, invert and restore.
*Interaction.*  The model announces what it did to its items; listeners hear of changes.
*Hard.*  Index arithmetic over several ranges; items that change under a gesture.
*Correct means.*  The selection stays with the items, everybody knows it, lists are sets.

### dolphin: the folder's helpers

*State.*  The model's items with a size and a version each.  The counter: a queue, a busy
flag, watched directories; its worker in a thread.  The observer: plug-in, timer, a thread at
a time, a pending and a silent flag, its message in the status bar.
*Operations.*  `addDirectory`, `slotResult`, `slotDirWatchDirty`, `slotItemsRemoved`;
`verifyDirectory`, `updateItemStates`, `slotThreadFinished`, the two delayed verifications.
*Interaction.*  Each writes roles into the model, whose signals start the other.
*Hard.*  Threads and queued signals; folders and items that change meanwhile.
*Correct means.*  What is shown is true or about to be corrected; nothing waits for ever,
and nothing goes round for ever.

### kwin: the focus chain

*State.*  A list of windows for each virtual desktop and one of all, the active window, the
current desktop, who was told to take the focus.
*Operations.*  `update`, `moveAfterClient`, `remove`, `resize`, `nextForDesktop`; a dozen
callers from X events and from the user.
*Hard.*  Many callers keep several lists in step with the state of the windows, before or
after they change it.
*Correct means.*  The lists name the windows that exist and are there; the active window is
first; when it goes, a window that can be seen gets the focus.

### The rest

| Part | State and what is hard | Plan |
|---|---|---|
| kate line modification marks | marks per line, moved by wraps, recomputed at save | planned |
| kate text history | transformation of positions between revisions, a pure algorithm | planned |
| dolphin roles updater | previews and roles resolved in the background for what is visible | planned |
| kwin tab groups | who of a group is shown, kept in step with the windows | planned |
| kscreensaver | inhibition cookies and a two-second timer | planned |
| everything else | user interface over libraries, byte parsers, forms over configuration | not modelled |

`PROJECT.json` lists each of these with its reason.

## 2. The modules

### Trash

A step of a slave is one access to shared state: a system call, a section under the size
cache's `KLockFile`, or a KIO sub-job.  `pc[s]` says what the slave does next; each action
is one place of the code (`CreateInfo`, `WriteInfo`, `Transfer`, `AddSize`, `DelFile`, …)
and `Serve(s)` is their disjunction.  `Request(s)` chooses among the constants `Requests`;
`Crash(s)` kills a slave anywhere and a new one starts idle.  A failure is a disjunct: a
`.trashinfo` may be lost in the `fclose()` that `createInfo` does not check (`Unsaved`, an empty file
behind which the item is moved in all the same), a cross-device move may leave a part, an item in
`Stubborn` cannot be removed and a directory not by `QFile::remove` (`Resists`), a full trash
warns or deletes.  Abstracted: every item has size 1, there is one trash directory, no
sub-paths are requested, ages are nondeterministic, reading a directory is one step, a copy
job is one step that succeeds or leaves `Part`.

### SensorAgent

One GUI thread and the daemons.  Handlers are actions; `processAnswer` is one action per
token of its buffer with the states `parse` and `callback`, because a client that is called
back may send (`SendRequest` is enabled there).  An agent that lost its daemon is *doomed*
until the event loop deletes it; it reads nothing more, since Qt handles the deferred
deletion before new input.  A query stands for request string and id, the lines of an
answer for one line; a prompt remembers which command it ends, so that `Routed` can say
whether the right client was called.  External, modelled from its use: `QTcpSocket::flush`
emits `bytesWritten` synchronously, not recursively (`WriteNested`).  `resynchronize` is
left out, because nothing calls it.

### History and UndoManager

`History` is what a user is promised: a line of texts with a cursor; an edit replaces what
is ahead, or is merged into the last step unless that step ends at a text that was saved; undo and
redo walk.  `UndoManager` is the code: groups by address in two lists, `current`, the safe
point of a group, and the saved pointers with the thirteen bit patterns of
`updateModified()`.  A text is a number, an edit makes a text never seen before, and a group
knows the texts before and after it; the property `Chained` says that those are right when a
group is applied.  Addresses are reused only if `Reuse` holds: then a new group may be where
one that the saved pointers remember has been deleted.  `HistoryKept` is the refinement,
`INSTANCE History WITH past, now, future`.

### SwapFile

The disk (`file`, `swap`), which a kill leaves, and one editor with one document, which a kill
replaces by a new one.  Actions are the document's operations with every slot of `SwapFile`
that their signals reach: `EditStart`, `Change` and `EditEnd` with the slots of the buffer,
`EditEnd(TRUE)` for an undo or redo at whose end the undo manager finds the saved text
(that it does so exactly there is `ModifiedFlagExact` of `UndoProofs`), `Open` with
`fileLoaded`, `Close` with `modifiedChanged` and `fileClosed`.  A save is two actions,
because the new file is renamed into place before the log goes: `SaveFile` and `FileSaved`.
A log is a sequence of records; a change record knows the text it was made on, so a replay
elsewhere (`Apply`) gives `Wrong`.  `lost` and `done` are history: what the user had when the
editor was killed.  Two constants say which user and which edits there are: with `Careful`
the user answers the question about a log before editing, does not save a document over a
file with a log, and closes a document that recovered for good; without `Long`, what an edit
writes fits in QFile's buffer, so a kill leaves all of it or nothing.  Open, close and
`recover` have no other action between their own steps: they run in one event.

### ItemSet and Selection

`ItemSet` is `KItemSet`: ranges in ascending order with `Insert`, `RemoveItem`, `Plus`, `Xor`,
each as its code walks and merges the ranges; `SetsBehave` compares them with sets.  A walk is
a recursive function of the rounds it has made, so that it can be proved about; `MoveAll`
is the loop by which the three slots of the model's signals make a selection anew.
`Selection` has the manager's functions as operators on its state and three groups of
actions: the model's signals (`InsertItems`, `RemoveItems`, `ResortAllItems`), keys and
view actions (`Keys`), and the left mouse button from `Press` through `Drag` or `MoveBand`
to `Release`.  `told` is the selection that `selectionChanged` was last emitted with.  With
`Careful`, items and keys rest while a button is held, and no rubber band begins with Shift
while an anchored selection has a range.

### FolderModel, DirectoryCounter, VersionObserver, Folder

`FolderModel` is what the two helpers share: the folder, its directories, their roles, what
the disk and the plug-in would say.  `DirectoryCounter` and `VersionObserver` have one
action per slot and per step of their threads; signals between threads are queues.
`Folder` composes them: an action is a slot of one helper with the slots of the other that
the model's signals reach.  `missed` is history, the directories that changed after the
worker looked and before `slotResult` began to watch them.  External: `KDirWatch`, and the
plug-ins, of which the repository has none.

### FocusChain

One action per event of the X server or call of the user, with everything that is called:
`Manage` with `addClient`, `Release` with `removeClient` and `clientHidden`, `SetDesktop`
with `sendClientToDesktop`, `SetCount` with `moveClientsFromRemovedDesktops`.  The last
element of a chain is what the code calls its first window.  Where layers and stacking
decide, the model chooses, for each window that `setCount()` sends on its own.  `stale` is history: windows whose wish for the focus, or whose
desktops, changed since `update()` last saw them.

## 3. The runs

| Run | What it asks | States |
|---|---|---|
| `MCTrashSingle` | one slave, every request, undeletable directory, EXDEV, a full disk at `fclose`, one kill | 670 000 |
| `MCTrashPair` | two slaves, trash, restore, delete under the deleting limit, one kill | 7 700 000 |
| `MCTrashAdd` | two slaves trash and copy, one kill: the cached size | 210 000 |
| `MCTrashOrphanRace` | violation, see section 5 | |
| `MCSensor` | two clients, two queries, two connections, three requests | 5 500 000 |
| `MCSensorLive` | a remote host, fairness: every request is answered | 26 000 |
| `MCUndo` | five texts, six groups, two types | 490 000 |
| `MCSwap` | two files, three texts, kills, a careful user: what is logged, lost and recovered | 2 200 000 |
| `MCSwapWaiting` | violation: a user who is not careful | |
| `MCSelection` | four items, insertions of two, every key, click, drag and band | 26 000 |
| `MCFolder` | three folders, three directories, four acts of others: roles, queues, coming to rest | 3 900 000 |
| `MCFocus` | three windows, two applications, one or two desktops | 1 600 000 |

*Bounds and why they are enough.*  Trash: a clash needs two slaves and two items that want
one name; a third name shows that the loop of `createInfo` goes on.  A second kill would
only shorten another request.  `Wrap` = 8 stands for 2^64: two items never reach it, so a
value near it is a subtraction below zero.  Sensor: swapping answers needs two queries and
two clients; three requests give one being answered, one written and one waiting; two
connections are an old agent beside its successor.  Undo: five texts are a saved one with
two edits on either side, or two branches; six groups let every address stay unused after a
deletion; merging needs equal and different types.  Swap file: save as and reuse of a document
need two files; three texts are the file's, the user's and another; `MaxLog` = 5 lets a log
with two edits be recovered and continued.  `MaxLog` is tested before an edit begins.
Selection: four items give two ranges with a gap, and removals before, in, between and
behind them; insertions of two go to one place or to two.  Folder: two directories that are
shown let one wait while the other is counted; a folder under version control, one not and one
that is not local are all the cases of `verifyDirectory`; four acts are an insertion, a change
during the update, one during its repetition, and leaving.  Focus: two windows of one
application and one of another are all cases of `moveAfterClientInChain`; one window that may
be a hidden tab and may refuse the focus (`Tabs`, `Fickle`) goes between the other two;
two desktops let one be added, left and removed.  `MaxCrashes`, `MaxAgents`, `MaxSends`,
`MaxText`, `MaxEvents` and `MaxLog` (with three unflushed records in `Change`) are the only
counters, all bounded in guards; `Batch` and `MaxDesktops` bound what one act brings.

`CHECK_DEADLOCK FALSE` is said everywhere but for the swap file and the selection, since the
systems may stop: everybody idle with all requests made, all clients gone, all texts made,
all acts of others done, or no window left.

*Fairness.*  `Trash!FairSpec`: weak fairness of `Serve(s)`, a process that runs goes on
(a request itself is never forced).  `SensorAgent!FairSpec`: weak fairness of the parser
(a handler runs to its end) and of the daemon's answers; strong fairness of reading a
chunk, of a deferred deletion and of noticing the end of the daemon, because the event loop
serves each source although other events come between.  Nothing makes a client send, a
connection die or anybody disconnect.  `Folder!FairSpec`: weak fairness of `Inside`, what the
program does by itself: threads run, queued signals arrive, timers fire.  `Settles` says that
this ends.  Others act only `MaxEvents` times, so it is about what the helpers do to each
other: each writes roles, whose signals start the other again.

Every property has a mutant in `PROJECT.json`, a plausible bug in a mapped definition that
breaks it in the same run: no `O_EXCL` in the naming loop, the signed subtraction, an orphan
of the FIFO left by a destructor, a redo list that is deleted but not emptied, a save that
forgets the safe point, and so on.

## 4. The proofs

All are of the form *invariant for every value of the constants* and are checked to the last
leaf.

**Trash** (`TrashProofs`).  `TypeCorrect`: the types are inductive only with what `SlaveOK`
adds, that a slave past certain points has a path, a name or a victim (`WithItem`,
`WithVictim`, `ret`).  `HolderInvariant`, `MoveNeverClobbers`, `FilesStayListed`: from
`OneHolder`, which says who holds a name, from `O_EXCL` until the file has arrived and from
the removal of a file until its `.trashinfo` is gone; two holders never share a name, and
what a holder has is listed and has no file.  *Listed* is that there is a `.trashinfo`; it can be
read unless it is `Unsaved`.  Assumption `NoEmptying`: nobody empties the
trash and moves stay on one device; without it the statements are false, as
`MCTrashOrphanRace` shows for emptying.

What several slaves can break is proved for one (`OneSlave`), with every request, failure, kill
and file system: `AloneNothingLost`, `AloneFilesListed`, `AloneFlagExact` and the action property
`AloneEmptied`.  `AloneInv` says phase by phase what the slave may rely on: the new entry is
listed and del() keeps away from it (`Makes`), what a restore replaces or a deletion removes was
asked for and its `.trashinfo` goes last (`Leaves`, `Deletes`), what is listed is still to be emptied or
stubborn (`Empties`), and the flag is never set while there is an entry but the one that is being made
(`Flags`).  Assumption `NoLeftovers`: under the deleting size limit no directories are copied; without
it `NoLoss` and `FilesListed` are false (section 5).  `CacheStaysExact` is about any number of slaves
again, which trash and copy (`OnlyAdding`): names have one owner each (`Owners`), so each step adds or takes
one file and one slave of the sum, and a slave that is to add its size has measured 1 (`Adder`); a kill
takes one slave, so the size is short by at most one for each kill (`CrashAdds`).

**Sensors** (`SensorProofs`).  `SensorTypeCorrect`; `InputNeverStuck` (a request is unwritten
only behind one that is being answered, for all interleavings of call backs, nested writes,
disconnects); `NeverSentTwice`; `GoneClientsForgotten` for clients that disconnect.  The
strengthenings say that agents not yet made have empty queues (`Started`), that only the agent
in `processAnswer` may have more input than it is owed (`OthersWait`), and how each step
changes the concatenation of the two FIFOs (`FifoStep`: it stays, loses its head, gains an end, exchanges
two neighbours, or has clients blanked).  `AnswersRouted` and `PipelineAligned`: under every
interleaving of call backs, nested writes, disconnects and dying connections an answer goes to the
client whose request it answers.  The invariant is `Piped`, one line for each agent: what
goes down to the daemon and comes up from it are tokens that requests and prompts number, and the
*n*-th of them belongs to the *n*-th request that is in flight (`Flows`); what the agent has collected
since the last prompt is all of one request, the one at the head of the FIFO (`Collects`, `Held`).
A step of a pipeline writes at one end, answers in the middle or takes from the other end (lemmas
`WrittenPipeline`, `AnsweredPipeline`, `DropPrompt`, `DropOther`), and each keeps the
numbering.  Assumptions: the daemon's host is reached by a pipe (`~Socket`) and no command line is
longer than the daemon's buffer (`Long = {}`); without either the statements are false (section 5).

**Undo** (`UndoProofs`).  `UndoTypeCorrect` and `GroupsNeverLost` are one
induction: a list holds existing groups because every existing group is in exactly one place.
`HistoryChained` needs `Untouched` (a group without items starts at the present text).
`ModifiedFlagExact`: if no address is reused, the flag is set exactly when the text differs
from the one on disk.  Its invariant: texts grow along the history (`Ordered`); the saved
text is at one place of the history or nowhere, and the saved pointers name that place
(`SavedPlace`, with `Base`, the text before the first group); `Pointers` says which
combinations of the pointers and the empty-flags occur, by the ends `First` and `Final` of
the history, which undo and redo do not change.  From `Pointers` alone, `PatternFacts` reduces the
256 patterns to those that occur and shows that the thirteen in the code are the ones that mean
*here*.  `UndoImplementsHistory` is the refinement `HistoryKept`, step by step and without the
assumption about addresses: the start of an edit, an edit without items and a safe point
stutter, an item is `Forget`, the end of an edit `Edit`.  What the implementation must
know for `Edit` is `SafeStop`: the group that ends at the text on disk is safe, so a group
that grows ends elsewhere; it holds because texts grow along the history (`Ordered`), so at most
one group ends at a given text.

**Folder** (`FolderProofs`).  `FolderTypeCorrect`.  `QueueServed` (`OneInFlight`, inductive with
the types).  `SizesNeverStale` needs to know more of each directory that is shown
(`SizesKnown`): until it is watched, a look at it lies ahead or has just been taken
(`Watches`); and when no look lies ahead and no change was missed, the size that is shown or
on its way is right (`Right`).  It uses `QueueServed`: while a result is on its way there is no
second one.  `VersionsSettleRight` strengthens the claim from the moment when the observer is
idle to all moments when its timer rests (`VersionsKnown`): then an item's emblem is right, or
the thread will read it, or an update is pending.  `MessageNotLeft` is inductive with the
types.  No assumption on the constants beyond those the modules name.

**Swap file** (`SwapProofs`).  All five properties of `MCSwap`, from one invariant (`SwapInv`).  A log
that no document writes is `Kept`: it leads from the file to what was lost; and when nothing was
lost it is not valid, or has no change.  The document's own log is one of three things: a
question about it is shown and the document is as it was loaded (`Asked`), the file did not
exist when it was opened (`Unlogged`), or the log leads to the text after the last edit
(`Logged`), from the content with the document's digest, which between the two halves of a save
may be no longer the file's.  During an edit it is what was flushed with what was not that leads
to the text (`Editing`).  `HasChange` is part of it because `modified` after a recovery is what the
replay says.  Each action adds at most two records at the end of a log, so the lemma
`StatesAppend`, that a replay of a log with one more record is the replay of the log and a step, is
enough.  It needs that the recursive function `States` is what its definition says (`RunsAgree`,
`RunExists`), by a least counterexample (`Least`) since an induction theorem cannot be cited.  Assumption
`CarefulUser`: `Careful` holds and `Long` does not; without it the statements are false, as
`MCSwapWaiting` and section 5 show.

**Focus chain** (`FocusProofs`).  All four properties of `MCFocus`, for any windows, applications
and number of desktops.  The invariant `FocusInv` is the types, `ChainsAgree`, and that finitely many
windows exist: `setCount()` sends the windows of removed desktops away one by one, and only
because its order is a finite list does it reach each of them (`OrderReachesAll`).  Each operation on
one chain gets a lemma that says which windows it leaves in it and that none is there twice
(`RemovedOrder`, `InsertedOrder`, `MoveAfterOrder`, `UpdateOrder`); the lemmas on all chains
(`UpdateChains`, `MoveAfterChains`, `RemoveChains`, `SentChains`) follow from these, so the step of a
window only has to compare what it changed in `desk` and `input` with what the chains then hold.
`FocusIsPassedOn` is about the state *during* the step: the window has hidden, and is still in the chain
when the next one is chosen (`NextFound`).  `ActiveRemainsFirst` shows of each operation that a chain
that begins with the active window still does (`UpdateKeepsFirst`, `MoveKeepsFirst`), or that only the
active window itself was moved in it or taken from it (`PutBack`), or that only windows which this step sends to a
desktop or shows are before it (`Ahead`); the last is kept through all rounds of `setCount()`
(`SentAhead`).  `ChainsAgree` and so `ChainsStayInStep` say which windows a chain names only for
those that are not `stale`; of a stale one they say that no chain of another desktop holds it.  What
`Removed`, `Above` and `SetCount` compute is a recursive function or a least place; that it is what
its definition says is shown by a least counterexample (`Least`, `Climb`, `Iterated`).  The proof of
`MoveAfterOrder` showed that an earlier form of `MoveAfterClientInChain` left two arms of a `CASE`
open for a reference that is not in the chain; it has the order of the early returns now.
Assumptions: those the module names.

**Selection** (`ItemSetProofs`, `SelectionProofs`).  First the data structure: for *any* list of
ranges in order and any index, `insert()`, `remove()`, `operator+`, `operator^`, iteration and
`fromSortedContainer()` do what the operation does on the set that the list stands for
(`InsertCorrect`, `RemoveCorrect`, `PlusCorrect`, `XorCorrect`, `AscendingCorrect`,
`RangesOfCorrect`, `MoveAllCorrect`), and a set has one such list (`Canonical`), so comparing
lists compares sets.  Each `insert()` and `erase()` puts one range into the list, takes one out, or
does both (`Spliced`, `RangeRemoved`), which says what the list then covers.  `operator+` is
proved by what holds after each round of its walk: what was read is covered by the sum, the sum is in
order, and only its last range may still grow (`SumParts`, `RoundStep`).  `operator^` follows from a
fact about sorted bounds: going up through the naturals, membership changes exactly at a begin or an end
(`BoundsFlip`), so each two bounds that do not cancel hold a range between them (`PairsBound`).

On these rest all five properties of `MCSelection`, for any items and any number of ranges in one
signal.  The invariant is `SelectionInv`: the items are different ones (`Arranged`); current item,
anchor and selection are within the model, an active anchor exists, and `told` is the selection
(`Sound`); a rubber band is only there while the button is held beside the items, with the old
selection within the model and no anchored range, and an item that is held is the current one
(`Presses`).  The last part is what the types alone lack: `setSelectedItems()`, by which a band
selects, compares with `m_selectedItems`, not with `selectedItems()`, and tells listeners the new
`m_selectedItems`, which is right only while no range is anchored.  `SelectionFollows` and `CurrentFollows` compare items, the code computes
indexes; between them stand `Moves(l, u, K, g)`, the items of `l` at the indexes `K` are in `u` at the
indexes that `g` gives, and `Climbs`, that `g` keeps their order.  `InsertedPlace` and `RemovedPlace` prove
that the sums over ranges of `itemsInserted()` and `indexAfterRangesRemoving()` are this `g`,
`RemovedTo` that a removed current item goes where the next one that is left is; from there on it is one argument
for insertions, removals and moves (`ItemsFollow`, `BetweenFollows`, `ChangeFollows`).  Loops over ranges are
proved step by step with `Climb`, in place of an induction theorem.  Assumption:
`Careful`; without it a button is held while items change, and the statements but two are false (section 5).

Every invariant and every action property of a passing run is stated by a theorem now.

*Only model-checked:* liveness (`RequestsEnd`, `Answered`, `Settles`), since fairness and
`ENABLED` are out of the prover's reach; the two violations, and those of section 5 that come with
constants which the theorems' assumptions exclude.

## 5. What the runs found

1. `MCTrashOrphanRace`: `emptyTrash` removes an item that another slave trashes meanwhile.
   Its orphan cleanup deletes what is in `files/` but was not in its earlier listing, without
   looking for a `.trashinfo`.
2. `MCSwapWaiting`: killed, started again, the user types while the question is shown (the
   read-only mode that `fileLoaded` sets is undone by `slotCompleted`) and is killed again: the
   log now has edits of two texts, its digest fits, and `recover` replays all of them.

Also seen, with other constants in the cfg of a passing run:

- Trash, `LimitAction = "delete"` with the constants of `MCTrashSingle`: a failed copy of a directory
  leaves a part of it in `files/`; the next item of that name is trashed, `adaptTrashSize` deletes the
  part with the new `.trashinfo`, and the item is moved in without one (`FilesListed`), where
  the next emptying or the next item of that name destroys it (`NoLoss`).
- Sensors, `Socket = TRUE`: `executeCommand` enqueues a request after the write, and the write
  may run `executeCommand` again first; two clients get each other's answers (`Routed`).  A
  client in `Careless` (`LogSensor`, whose destructor does not disconnect) violates
  `KnownClients`; a query in `Long` (a command line over 128 bytes is two commands for the
  daemon) violates `Routed`.
- Undo, `Reuse = TRUE`: type A, save, undo, type B and C: if C's group is allocated where A's
  was, undo and redo declare the document unmodified (`ModifiedExact`).
- Swap file, `Long = TRUE`: a kill in the middle of a large edit leaves a start of an edit
  without its end; recovered, the document stays in an edit session for ever (`TypeOK`).  With
  `Careful = FALSE` a log whose question is open is continued by a document saved over the file
  (`Covered`), or removed by a document that recovered another file (`Recoverable`).
- Selection, `Careful = FALSE`: after a press with Shift beside the items the anchored range
  stays selected, but `selectionChanged` tells only what the rubber band covers
  (`ListenersKnow`); items that come or go while a button is held leave `m_pressedIndex` and
  the band's old selection as they were (all properties but `SetsBehave` and `CurrentFollows`).

Also seen, in writing a model down, where a property's wording makes room for it:

- `createInfo` does not look at what `fclose` returns, which is when the hundred bytes are written.  On
  a full disk the `.trashinfo` stays empty and the item is moved in: it is not listed, cannot be restored,
  and the next `emptyTrash` that is asked for removes it as an orphan; the empty `.trashinfo` stays, so
  `isEmpty` is never true again (`Unsaved` in `FilesListed`, `NoLoss`, `FlagExact`).
- `FlagExact` is false for two slaves: `fileRemoved` finds the trash empty, another slave's `fileAdded`
  clears the flag, and the first one sets it; or the other way round.
- `SensorShellAgent::errMsgRcvd`, the slot for the daemon's stderr, reads its standard output: answers that
  have come meanwhile are thrown away, and later ones go to the wrong requests.
- A directory without `.trashinfo` survives `emptyTrash`, which uses `QFile::remove`.
- Two editors of one file share one log.  `slotModOnHdDirty` puts the digest of content that
  another program wrote into a log that was made on the old content.
- A removed current item is replaced by the next one, which joins an active anchored
  selection; a removed anchor drops the range (`SelectionFollows` speaks of both ends).
- `KDirectoryContentsCounter` watches a directory only when `slotResult` runs: a change since
  the worker's look is missed (`missed`), although the header says "The directory \a path is
  watched for changes, and the signal is emitted again if a change occurs."
- A silent update that finds another version announces the next one, because `setData` comes
  back through `itemsChanged`; "Updating version information..." stays when an announced
  update is overtaken by a silent one, or its plug-in is lost (`MessageCleared`), or all items go, or
  a remote folder is opened, where the old plug-in stays as well (`VersionsRight`).
- `FocusChain::getForActivation` has no answer but null, so a switch of desktops leaves no
  window active unless one is being moved (`SetCurrent`), where the header promises "the best
  Client to become the new active Client".
- Windows on all desktops are missing from the chain of a desktop that is added, and changed
  `WM_HINTS` tell the chain nothing, until something else calls `update` (`stale`).
- `restackWindow` of a window that is to be above the one it is directly above already calls
  `restack(this, this)`: it goes to the bottom of the stack and to the end of the chains.

## 6. Not modelled

Trash: several trash directories, sub-paths of a trashed directory, the creation of trash
directories, `stat`, `listDir` and `get`.  Sensors: several hosts (their agents share nothing),
the tokenizers and the translation of names, the monitors of the daemon and its server mode,
a `writeMsg` that fails (only logged; the request is enqueued as if written), text on the
daemon's stderr (`errMsgRcvd`, whose comment says that there is none), bytes below a token.  Undo: the text itself and the inverse of each item, cursors and selections, input
method editing (nothing calls it), uploads of remote files that finish later, line
modification marks.  Swap file: two editors of one file, files and logs that other programs
change or that cannot be read or written, remote files, a log cut inside a record, the machine's
crash (`fdatasync` every 15 seconds), the view of the changes.  Selection: single and no
selection, which only dialogs of other programs use, the right and middle buttons, dropping.
Folder: a `beginRetrieval` that fails, a change of what is counted (hidden files, directories
only), the worker thread shared by several counters and its end, destruction of the observer
while its thread runs, the previews of the roles updater.  Focus chain: transients and dialogs,
shading, several screens, desktop windows, focus policies other than the default, "show desktop", a desktop that is removed while the
user moves a window, the layout of the desktops, tab groups other than as windows that are hidden and shown.  Everything in the table
at the end of section 1 that is planned or left out.

## 7. Plan

1. The roles updater of dolphin beside `Folder`: what is visible has its previews in the end.
2. `SwapFile` with two editors of one file, and an abstract specification: a store that, after
   a kill, holds the file and at most one text that the user had.
3. The tab groups of kwin over `FocusChain`; the cookies of kscreensaver; line marks and text
   history of kate against reference definitions.
4. Proofs: `FilesListed` of `Trash` for several slaves of which one empties, when no other one
   trashes meanwhile; `SetsBehave` and `CurrentFollows` without `Careful`, from an invariant that
   lets the selection lie beyond the model.
