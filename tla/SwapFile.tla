------------------------------- MODULE SwapFile -------------------------------
(****************************************************************************)
(* kate/part/swapfile: the log of edits that lets a document be recovered   *)
(* after the editor was killed.  SwapFile follows the signals of the buffer *)
(* and of the document, keeps the log beside the file, and when the file is *)
(* opened again offers to replay it.  Here with the calls of KateDocument   *)
(* that drive it: open, edit, undo, save, save as, close.                   *)
(*                                                                          *)
(* Abstracted: a text is a value, and a change leads from one to another;   *)
(* replayed on another text than it was made on it gives Wrong.  A digest   *)
(* stands for the content.  One editor runs at a time, nobody else writes   *)
(* the files or their logs, and these are readable and writable; so         *)
(* m_stream has a device exactly when m_swapfile is open.  Only the program *)
(* is killed, not the machine: what was flushed is on disk, and fdatasync   *)
(* has no part.  The edits of removeTrailingSpaces(), with which a save     *)
(* begins, are edits before it.  A save that fails changes nothing, and a   *)
(* text that is Wrong is not saved any more.                                *)
(****************************************************************************)
EXTENDS Naturals, Sequences

CONSTANTS
    None,
    Files,    \* URLs of local files
    Texts,
    Blank,    \* the empty text
    Wrong,    \* the outcome of a change replayed where it does not belong
    Careful,  \* the user answers the question about a log before anything but
              \* closing, does not save another document over a file that has a
              \* log, and closes a recovered document for good
    Long,     \* an edit may be larger than the buffer of QFile
    MaxLog    \* bound: records in a log before the last edit

\* EA_StartEditing, EA_FinishEditing, the four kinds of changes, and the header
\* with the digest.
Records ==
    [kind : {"head"}, digest : Texts]
    \cup [kind : {"start", "end"}]
    \cup [kind : {"change"}, from : Texts \cup {Wrong}, to : Texts]
Header(d) == [kind |-> "head", digest |-> d]
Start == [kind |-> "start"]
End == [kind |-> "end"]
Changed(t, u) == [kind |-> "change", from |-> t, to |-> u]

ASSUME SwapAssumption ==
    /\ Blank \in Texts /\ Wrong \notin Texts /\ None \notin Texts \cup Files \cup {Wrong}
    /\ None \notin Seq(Records)
    /\ Careful \in BOOLEAN /\ Long \in BOOLEAN /\ MaxLog \in Nat

VARIABLES
    file,      \* what the files hold, None when there is no file
    swap,      \* the logs, None when there is none
    lost,      \* history: what the user had when the editor was killed
    url,       \* KateDocument::url()
    text,      \* the buffer
    done,      \* history: the text after the last edit
    saved,     \* the text that the undo manager takes for unmodified
    digest,    \* KateDocument::digest()
    modified, readWrite,
    session,   \* editSessionNumber and m_editingTransactions, between edits
    phase,     \* "idle" | "edit" | "changed" | "saved"
    name,      \* m_swapfile.fileName()
    open,      \* m_swapfile.isOpen()
    pending,   \* what m_stream has written since the last flush
    recovered, \* m_recovered
    message    \* the question about the log is shown

disk == <<file, swap, lost>>
document == <<url, text, done, saved, digest, modified, readWrite, session, phase>>
log == <<name, open, pending, recovered, message>>
vars == <<disk, document, log>>

\* KateDocument::KateDocument(), SwapFile::SwapFile().
NewDocument ==
    /\ url' = None /\ text' = Blank /\ done' = Blank /\ saved' = Blank /\ digest' = None
    /\ modified' = FALSE /\ readWrite' = TRUE /\ session' = 0 /\ phase' = "idle"
    /\ name' = None /\ open' = FALSE /\ pending' = <<>>
    /\ recovered' = FALSE /\ message' = FALSE

Init ==
    /\ file \in [Files -> {None, Blank}]
    /\ swap = [f \in Files |-> None] /\ lost = [f \in Files |-> None]
    /\ url = None /\ text = Blank /\ done = Blank /\ saved = Blank /\ digest = None
    /\ modified = FALSE /\ readWrite = TRUE /\ session = 0 /\ phase = "idle"
    /\ name = None /\ open = FALSE /\ pending = <<>>
    /\ recovered = FALSE /\ message = FALSE

Put(f, x, v) == [f EXCEPT ![x] = v]

\* Bug: a log is replayed on whatever the file holds.
IsValidAny(records, d) == records # <<>>

\* isValidSwapFile()
IsValid(records, d) == records # <<>> /\ records[1] = Header(d)

ShouldRecover == ~recovered /\ name # None /\ swap[name] # None /\ ~open

\* removeSwapFile(); the handle is closed with it.
RemoveLog(logs, f) == IF f = None THEN logs ELSE Put(logs, f, None)

------------------------------------------------------------------------------
(* Opening and closing                                                      *)

\* openUrl().  fileLoaded() makes the document read-only while the question is
\* shown, and slotCompleted() at once undoes that.  A file that does not exist
\* yet is not loaded, and gets no log before it is saved.
Open(f) ==
    /\ phase = "idle" /\ url = None
    /\ url' = f
    /\ IF file[f] = None
       THEN text' = Blank /\ UNCHANGED <<swap, digest, name, message>>
       ELSE /\ text' = file[f] /\ digest' = file[f] /\ name' = f
            /\ message' = (swap[f] # None /\ IsValid(swap[f], file[f]))
            /\ swap' = IF message' THEN swap ELSE Put(swap, f, None)
    /\ done' = text' /\ saved' = text'
    /\ UNCHANGED <<file, lost, modified, readWrite, session, phase, open, pending, recovered>>

\* Bug: a log that still waits for an answer is removed too.
CloseRemove(keep) ==
    /\ phase = "idle" /\ url # None
    /\ Careful => ~(keep /\ recovered)
    /\ swap' = RemoveLog(swap, name)
    /\ UNCHANGED <<file, lost>>
    /\ IF keep
       THEN /\ url' = None /\ text' = Blank /\ done' = Blank /\ saved' = Blank
            /\ modified' = FALSE /\ readWrite' = (readWrite \/ ShouldRecover)
            /\ name' = None /\ open' = FALSE /\ pending' = <<>> /\ message' = FALSE
            /\ UNCHANGED <<digest, session, phase, recovered>>
       ELSE NewDocument

\* closeUrl(), for which a modified document has asked, with modifiedChanged()
\* and fileClosed(); the document is kept for another file or deleted.
Close(keep) ==
    /\ phase = "idle" /\ url # None
    /\ Careful => ~(keep /\ recovered)
    /\ swap' = IF ShouldRecover THEN swap ELSE RemoveLog(swap, name)
    /\ UNCHANGED <<file, lost>>
    /\ IF keep
       THEN /\ url' = None /\ text' = Blank /\ done' = Blank /\ saved' = Blank
            /\ modified' = FALSE /\ readWrite' = (readWrite \/ ShouldRecover)
            /\ name' = None /\ open' = FALSE /\ pending' = <<>> /\ message' = FALSE
            /\ UNCHANGED <<digest, session, phase, recovered>>
       ELSE NewDocument

\* The editor is killed.  QFile keeps what was written since the last flush, or
\* when it is more than its buffer holds, what follows some point of it.
Kill ==
    /\ url # None
    /\ \E n \in 0 .. Len(pending) :
         /\ n > 0 => Long
         /\ swap' = IF open THEN Put(swap, name, swap[name] \o SubSeq(pending, 1, n)) ELSE swap
    /\ lost' = IF name # None /\ modified /\ ~message /\ digest = file[name]
               THEN Put(lost, name, done)
               ELSE lost
    /\ UNCHANGED file
    /\ NewDocument

------------------------------------------------------------------------------
(* Edits                                                                    *)

\* startEditing()
StartEditing ==
    IF name = None THEN UNCHANGED <<swap, open, pending>>
    ELSE /\ open' = TRUE
         /\ swap' = IF swap[name] = None THEN Put(swap, name, <<>>) ELSE swap
         /\ pending' = IF swap[name] = None THEN <<Header(digest), Start>> ELSE <<Start>>

\* KateDocument::editStart()
EditStart ==
    /\ phase = "idle" /\ url # None /\ readWrite
    /\ Careful => ~message
    /\ name # None /\ swap[name] # None => Len(swap[name]) <= MaxLog
    /\ phase' = "edit" /\ session' = session + 1
    /\ IF session = 0 THEN StartEditing ELSE UNCHANGED <<swap, open, pending>>
    /\ UNCHANGED <<file, lost, url, text, done, saved, digest, modified, readWrite,
                   name, recovered, message>>

\* wrapLine(), unwrapLine(), insertText() and removeText().
Change(to) ==
    /\ phase \in {"edit", "changed"} /\ Len(pending) <= 3
    /\ to # text
    /\ text' = to /\ phase' = "changed"
    /\ pending' = IF open THEN Append(pending, Changed(text, to)) ELSE pending
    /\ UNCHANGED <<disk, url, done, saved, digest, modified, readWrite, session,
                   name, open, recovered, message>>

\* finishEditing(): the record of the end, and the flush.
FinishEditing ==
    IF open /\ session = 1
    THEN Put(swap, name, swap[name] \o Append(pending, End))
    ELSE swap

\* Bug: the log is kept although there is nothing to recover.
EditEndKeep(undone) ==
    /\ phase \in {"edit", "changed"}
    /\ undone => text = saved
    /\ phase' = "idle" /\ session' = session - 1 /\ done' = text
    /\ modified' = (~undone /\ (modified \/ (session = 1 /\ phase = "changed")))
    /\ pending' = IF session = 1 THEN <<>> ELSE pending
    /\ swap' = FinishEditing
    /\ UNCHANGED <<file, lost, url, text, saved, digest, readWrite, name, open, recovered,
                   message>>

\* KateDocument::editEnd(); after undo and redo the undo manager may find that
\* the document is as it was saved, and modifiedChanged() removes the log.
EditEnd(undone) ==
    /\ phase \in {"edit", "changed"}
    /\ undone => text = saved
    /\ phase' = "idle" /\ session' = session - 1 /\ done' = text
    /\ LET set == modified \/ (session = 1 /\ phase = "changed")
           remove == set /\ undone /\ ~ShouldRecover
       IN  /\ modified' = (set /\ ~undone)
           /\ swap' = IF remove THEN RemoveLog(swap, name) ELSE FinishEditing
           /\ open' = (open /\ ~remove)
           /\ pending' = IF session = 1 \/ remove THEN <<>> ELSE pending
    /\ UNCHANGED <<file, lost, url, text, saved, digest, readWrite, name, recovered, message>>

\* KateView::toggleWriteLock()
ToggleWriteLock ==
    /\ phase = "idle" /\ url # None
    /\ readWrite' = ~readWrite
    /\ UNCHANGED <<disk, url, text, done, saved, digest, modified, session, phase, log>>

------------------------------------------------------------------------------
(* Saving                                                                   *)

\* save() and saveAs(): TextBuffer::save() writes a new file and renames it.
SaveFile(f) ==
    /\ phase = "idle" /\ url # None /\ text # Wrong
    /\ Careful => ~message /\ (f = url \/ swap[f] = None)
    /\ file' = Put(file, f, text) /\ lost' = Put(lost, f, None)
    /\ phase' = "saved" /\ url' = f
    /\ UNCHANGED <<swap, text, done, saved, digest, modified, readWrite, session, log>>

\* Bug: the log of the old content goes on.
FileSavedKeep ==
    /\ phase = "saved"
    /\ name' = url
    /\ digest' = file[url] /\ saved' = text /\ modified' = FALSE /\ phase' = "idle"
    /\ UNCHANGED <<disk, url, text, done, readWrite, session, open, pending, recovered, message>>

\* Bug: the digest of the old content stays.
FileSavedStale ==
    /\ phase = "saved"
    /\ name' = url /\ open' = FALSE
    /\ swap' = RemoveLog(swap, name)
    /\ saved' = text /\ modified' = FALSE /\ phase' = "idle" /\ pending' = <<>>
    /\ UNCHANGED <<file, lost, url, text, done, digest, readWrite, session, recovered, message>>

\* fileSaved(), createDigest() and setModified(false) with modifiedChanged().
FileSaved ==
    /\ phase = "saved"
    /\ name' = url /\ open' = FALSE
    /\ LET logs == RemoveLog(swap, name)
       IN  swap' = IF modified /\ (recovered \/ logs[url] = None) THEN RemoveLog(logs, url)
                   ELSE logs
    /\ digest' = file[url] /\ saved' = text /\ modified' = FALSE /\ phase' = "idle"
    /\ pending' = <<>>
    /\ UNCHANGED <<file, lost, url, text, done, readWrite, session, recovered, message>>

------------------------------------------------------------------------------
(* Recovery                                                                 *)

\* What recover() does with one record of the log; it stops at a change that is
\* outside of an edit.
Apply(s, record) ==
    IF s.broken THEN s
    ELSE CASE record.kind = "head" -> s
           [] record.kind = "start" ->
                [s EXCEPT !.session = @ + 1, !.running = TRUE]
           [] record.kind = "end" ->
                [s EXCEPT !.session = @ - 1, !.running = FALSE,
                          !.modified = @ \/ (s.session = 1 /\ s.touched)]
           [] record.kind = "change" /\ ~s.running -> [s EXCEPT !.broken = TRUE]
           [] record.kind = "change" /\ s.running ->
                [s EXCEPT !.text = IF @ = record.from THEN record.to ELSE Wrong,
                          !.touched = TRUE]

Begin(t, n) == [text |-> t, session |-> n, running |-> FALSE, broken |-> FALSE,
                touched |-> FALSE, modified |-> FALSE]

\* The state after each record of the log, beginning with text t in edit session n.
States(records, t, n) ==
    LET after[i \in 0 .. Len(records)] ==
          IF i = 0 THEN Begin(t, n) ELSE Apply(after[i - 1], records[i])
    IN  after

\* recover(): the text and the edit session after the log was replayed, where an
\* edit that is open at the end of the log is ended.
Replay(records, t, n) ==
    LET last == States(records, t, n)[Len(records)]
    IN  IF last.running THEN [Apply(last, End) EXCEPT !.broken = TRUE] ELSE last

Recover ==
    /\ phase = "idle" /\ message
    /\ message' = FALSE /\ readWrite' = TRUE /\ pending' = <<>>
    /\ IF open
       THEN /\ swap' = RemoveLog(swap, name) /\ open' = FALSE
            /\ UNCHANGED <<lost, text, done, modified, session, recovered>>
       ELSE IF swap[name] = None
       THEN UNCHANGED <<swap, lost, text, done, modified, session, open, recovered>>
       ELSE /\ recovered' = TRUE
            /\ LET result == Replay(swap[name], text, session)
               IN  IF IsValid(swap[name], digest)
                   THEN /\ text' = result.text /\ done' = result.text
                        /\ session' = result.session
                        /\ modified' = (modified \/ result.modified)
                        /\ lost' = Put(lost, name, None)
                        /\ UNCHANGED <<swap, open>>
                   ELSE /\ swap' = RemoveLog(swap, name)
                        /\ UNCHANGED <<lost, text, done, modified, session, open>>
    /\ UNCHANGED <<file, url, saved, digest, phase, name>>

Discard ==
    /\ phase = "idle" /\ message
    /\ message' = FALSE /\ readWrite' = TRUE
    /\ swap' = RemoveLog(swap, name) /\ open' = FALSE /\ pending' = <<>>
    /\ lost' = Put(lost, name, None)
    /\ UNCHANGED <<file, url, text, done, saved, digest, modified, session, phase, name,
                   recovered>>

Next ==
    \/ \E f \in Files : Open(f) \/ SaveFile(f)
    \/ \E keep \in BOOLEAN : Close(keep)
    \/ EditStart
    \/ \E to \in Texts : Change(to)
    \/ \E undone \in BOOLEAN : EditEnd(undone)
    \/ ToggleWriteLock \/ FileSaved \/ Recover \/ Discard \/ Kill

Spec == Init /\ [][Next]_vars

------------------------------------------------------------------------------
\* The range of every variable; a log that is open exists; outside an edit no
\* edit session is open ("balanced editStart and editEnd?", SwapFile::recover).
TypeOK ==
    /\ file \in [Files -> Texts \cup {None}]
    /\ swap \in [Files -> {None} \cup Seq(Records)]
    /\ lost \in [Files -> Texts \cup {None}]
    /\ url \in Files \cup {None} /\ name \in Files \cup {None}
    /\ {text, done} \subseteq Texts \cup {Wrong} /\ saved \in Texts
    /\ digest \in Texts \cup {None}
    /\ {modified, readWrite, open, recovered, message} \subseteq BOOLEAN
    /\ session \in Nat /\ phase \in {"idle", "edit", "changed", "saved"}
    /\ phase = "idle" => session = 0
    /\ pending \in Seq(Records)
    /\ open => name # None /\ swap[name] # None
    /\ pending # <<>> => open

\* "In case Kate crashes, this can be used to replay all edit actions to recover
\* the lost data" (kateswapfile.h): at every moment between two edits, through
\* undo, save, save as, recovery and reload, the log leads from what is on disk to
\* what the user sees.
Leads(f, t) ==
    /\ swap[f] # None /\ IsValid(swap[f], file[f])
    /\ LET result == Replay(swap[f], file[f], 0) IN result.text = t /\ ~result.broken
Covered ==
    phase = "idle" /\ name # None /\ ~message /\ text # file[name] => Leads(name, text)

\* What was lost when the editor was killed can be recovered until the user
\* recovers it, discards it or saves something else, also if the editor is killed
\* again or the file is closed without an answer ("only remove swap file after data
\* recovery (bug #304576)").
Recoverable == \A f \in Files : lost[f] # None => Leads(f, lost[f])

\* A log is not replayed "across wrong document content -> certainly wrong"
\* (SwapFile::recover).
ReplayedInPlace == text # Wrong

\* No question is asked about a log of changes that were saved, discarded or
\* undone; an edit without a change is asked about.
NoStaleLog ==
    \A f \in Files :
      /\ url = None /\ swap[f] # None /\ IsValid(swap[f], file[f])
      /\ \E i \in DOMAIN swap[f] : swap[f][i].kind = "change"
      => lost[f] # None

==============================================================================
