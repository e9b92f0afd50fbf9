------------------------------ MODULE SwapProofs ------------------------------
(****************************************************************************)
(* What SwapFile promises, for any number of files, texts and records: for  *)
(* a user who is careful, and edits that fit in the buffer of QFile.        *)
(****************************************************************************)
EXTENDS SwapFile, SequenceTheorems, WellFoundedInduction, TLAPS

(* Replaying a log                                                          *)

IsRun(after, records, t, n) ==
    after = [i \in 0 .. Len(records) |->
                IF i = 0 THEN Begin(t, n) ELSE Apply(after[i - 1], records[i])]

\* What stands for induction: a set of naturals has a least element.
LEMMA Least ==
    ASSUME NEW D \in SUBSET Nat, D # {}
    PROVE  \E i \in D : \A j \in D : i <= j
<1>. DEFINE Less == {p \in Nat \X Nat : p[1] < p[2]}
<1>1. IsWellFoundedOn(Less, Nat)
  BY NatLessThanWellFounded DEF OpToRel
<1>2. PICK i \in D : \A j \in D : <<j, i>> \notin Less
  BY <1>1, WFMin
<1>. SUFFICES ASSUME NEW j \in D PROVE i <= j
  OBVIOUS
<1>3. i \in Nat /\ j \in Nat
  OBVIOUS
<1>4. j < i => <<j, i>> \in Less
  BY <1>3
<1>. QED BY <1>2, <1>3, <1>4

\* There is exactly one run of a log, and States is it.
LEMMA RunsAgree ==
    ASSUME NEW records, Len(records) \in Nat, NEW t, NEW n, NEW a, NEW b,
           IsRun(a, records, t, n), IsRun(b, records, t, n)
    PROVE  a = b
<1>. DEFINE D == {i \in 0 .. Len(records) : a[i] # b[i]}
<1>1. DOMAIN a = 0 .. Len(records) /\ DOMAIN b = 0 .. Len(records)
  BY DEF IsRun
<1>2. D = {}
  <2>. SUFFICES ASSUME D # {} PROVE FALSE
    OBVIOUS
  <2>1. PICK i \in D : \A j \in D : i <= j
    <3>1. D \in SUBSET Nat
      OBVIOUS
    <3>. HIDE DEF D
    <3>. QED BY <3>1, Least
  <2>2. a[0] = b[0]
    BY DEF IsRun
  <2>3. i - 1 \in 0 .. Len(records) /\ i - 1 \notin D /\ i # 0 /\ i \in 0 .. Len(records)
    BY <2>1, <2>2
  <2>4. a[i - 1] = b[i - 1]
    BY <2>3
  <2>5. a[i] = Apply(a[i - 1], records[i]) /\ b[i] = Apply(b[i - 1], records[i])
    BY <2>3 DEF IsRun
  <2>. QED BY <2>1, <2>4, <2>5
<1>3. a = [i \in 0 .. Len(records) |-> a[i]] /\ b = [i \in 0 .. Len(records) |-> b[i]]
  BY <1>1 DEF IsRun
<1>4. \A i \in 0 .. Len(records) : a[i] = b[i]
  BY <1>2
<1>. QED BY <1>3, <1>4

LEMMA RunExists ==
    ASSUME NEW records, Len(records) \in Nat, NEW t, NEW n
    PROVE  \E a : IsRun(a, records, t, n)
<1>. DEFINE Upto(k, a) == a = [i \in 0 .. k |->
                                 IF i = 0 THEN Begin(t, n) ELSE Apply(a[i - 1], records[i])]
            D == {k \in 0 .. Len(records) : ~ \E a : Upto(k, a)}
<1>1. D = {}
  <2>. SUFFICES ASSUME D # {} PROVE FALSE
    OBVIOUS
  <2>1. PICK k \in D : \A j \in D : k <= j
    <3>1. D \in SUBSET Nat
      OBVIOUS
    <3>. HIDE DEF D
    <3>. QED BY <3>1, Least
  <2>2. Upto(0, [i \in 0 .. 0 |-> Begin(t, n)])
    OBVIOUS
  <2>3. k # 0 /\ k - 1 \in 0 .. Len(records) /\ k - 1 \notin D
    <3>1. 0 \notin D
      BY <2>2
    <3>2. k \in 0 .. Len(records) /\ k # 0
      BY <3>1
    <3>. HIDE DEF D
    <3>. QED BY <2>1, <3>2
  <2>4. PICK a : Upto(k - 1, a)
    BY <2>3
  <2>. DEFINE b == [i \in 0 .. k |-> IF i = k THEN Apply(a[k - 1], records[k]) ELSE a[i]]
  <2>5. Upto(k, b)
    <3>1. \A i \in 0 .. k : b[i] = IF i = 0 THEN Begin(t, n) ELSE Apply(b[i - 1], records[i])
      <4>. SUFFICES ASSUME NEW i \in 0 .. k
                    PROVE  b[i] = IF i = 0 THEN Begin(t, n) ELSE Apply(b[i - 1], records[i])
        OBVIOUS
      <4>1. CASE i = k
        BY <2>3, <4>1
      <4>2. CASE i # k
        <5>1. a[i] = IF i = 0 THEN Begin(t, n) ELSE Apply(a[i - 1], records[i])
          BY <2>3, <2>4, <4>2
        <5>2. b[i] = a[i] /\ (i # 0 => b[i - 1] = a[i - 1])
          BY <2>3, <4>2
        <5>. QED BY <5>1, <5>2
      <4>. QED BY <4>1, <4>2
    <3>. QED BY <3>1
  <2>. QED BY <2>1, <2>5
<1>. QED BY <1>1 DEF IsRun

LEMMA StatesRun ==
    ASSUME NEW records, Len(records) \in Nat, NEW t, NEW n
    PROVE  IsRun(States(records, t, n), records, t, n)
<1>1. States(records, t, n) = CHOOSE a : IsRun(a, records, t, n)
  BY DEF States, IsRun
<1>. QED BY <1>1, RunExists

\* A replay of a log with one more record is the replay of the log and one step.
LEMMA StatesAppend ==
    ASSUME NEW S, NEW r \in Seq(S), NEW e \in S, NEW t, NEW n
    PROVE  States(Append(r, e), t, n)[Len(r) + 1] = Apply(States(r, t, n)[Len(r)], e)
<1>. DEFINE a == States(Append(r, e), t, n)
            b == [i \in 0 .. Len(r) |-> a[i]]
<1>1. /\ Len(r) \in Nat /\ Len(Append(r, e)) = Len(r) + 1
      /\ Append(r, e)[Len(r) + 1] = e
      /\ \A i \in 1 .. Len(r) : Append(r, e)[i] = r[i]
  OBVIOUS
<1>2. IsRun(a, Append(r, e), t, n)
  BY <1>1, StatesRun
<1>. HIDE DEF a
<1>3. \A i \in 0 .. Len(r) + 1 :
         a[i] = IF i = 0 THEN Begin(t, n) ELSE Apply(a[i - 1], Append(r, e)[i])
  BY <1>1, <1>2 DEF IsRun
<1>4. \A i \in 0 .. Len(r) : b[i] = IF i = 0 THEN Begin(t, n) ELSE Apply(b[i - 1], r[i])
  BY <1>1, <1>3
<1>5. IsRun(b, r, t, n)
  BY <1>4 DEF IsRun
<1>6. States(r, t, n) = b
  BY <1>1, <1>5, StatesRun, RunsAgree
<1>7. a[Len(r) + 1] = Apply(a[Len(r)], e) /\ b[Len(r)] = a[Len(r)]
  BY <1>1, <1>3
<1>. QED BY <1>6, <1>7 DEF a

LEMMA StatesEmpty == ASSUME NEW t, NEW n PROVE States(<<>>, t, n)[0] = Begin(t, n)
<1>1. Len(<<>>) = 0
  OBVIOUS
<1>. QED BY <1>1, StatesRun DEF IsRun

------------------------------------------------------------------------------
(* The invariant                                                            *)

\* What a log leads to between two edits, and within one.  c: it has a change.
Ended(r, t) == States(r, t, 0)[Len(r)]
HasChange(r) == \E i \in DOMAIN r : r[i].kind = "change"
Log(r, t, u, c) ==
    /\ r \in Seq(Records) /\ r # <<>> /\ r[1] = Header(t)
    /\ HasChange(r) => c
    /\ ~c => u = t
Outside(s, u, c) ==
    /\ DOMAIN s = DOMAIN Begin(u, 0)
    /\ s.text = u /\ s.session = 0 /\ s.running = FALSE /\ s.broken = FALSE
    /\ s.touched = c /\ s.modified = c
Within(s, u, m, c) ==
    /\ DOMAIN s = DOMAIN Begin(u, 0)
    /\ s.text = u /\ s.session = 1 /\ s.running = TRUE /\ s.broken = FALSE
    /\ s.touched = c /\ s.modified = m
LeadsTo(r, t, u, c) == Log(r, t, u, c) /\ Outside(Ended(r, t), u, c)
Editing(r, t, u, m, c) == Log(r, t, u, c) /\ (m => c) /\ Within(Ended(r, t), u, m, c)

\* A log that no document writes: it leads to what was lost, if anything was;
\* if not it is not valid, or has no changes.
Kept(f) ==
    /\ file[f] = None => swap[f] = None
    /\ lost[f] # None => swap[f] # None /\ LeadsTo(swap[f], file[f], lost[f], TRUE)
    /\ lost[f] = None /\ swap[f] # None /\ IsValid(swap[f], file[f])
          => LeadsTo(swap[f], file[f], file[f], FALSE)

Shut ==
    /\ phase = "idle" /\ name = None
    /\ ~modified /\ ~open /\ ~recovered /\ ~message

\* The question is shown.
Asked ==
    /\ phase = "idle" /\ url # None /\ name = url /\ file[name] \in Texts
    /\ ~open /\ ~recovered /\ ~modified
    /\ text = file[name] /\ saved = file[name] /\ digest = file[name]
    /\ swap[name] # None /\ IsValid(swap[name], file[name])

\* The file did not exist when it was opened.
Unlogged ==
    /\ ~open /\ ~recovered /\ pending = <<>>
    /\ swap[url] = None /\ lost[url] = None

Logged ==
    /\ url # None /\ lost[name] = None /\ digest \in Texts /\ file[name] \in Texts
    /\ phase # "saved" => url = name /\ saved = digest
    /\ phase # "saved" \/ url # name => file[name] = digest
    /\ swap[name] # None => open \/ recovered
    /\ \/ swap[name] \in {None, <<>>} /\ ~modified /\ done = digest
       \/ LeadsTo(swap[name], digest, done, modified)
    /\ phase \in {"edit", "changed"} =>
          /\ open /\ swap[name] # None
          /\ Editing(swap[name] \o pending, digest, text, modified, modified \/ phase = "changed")
    /\ phase \in {"idle", "saved"} => swap[name] # <<>>

Phases ==
    /\ {text, done} \subseteq Texts
    /\ session = IF phase \in {"edit", "changed"} THEN 1 ELSE 0
    /\ phase \in {"idle", "saved"} => done = text /\ pending = <<>>
    /\ phase = "saved" =>
          /\ url # None /\ ~message
          /\ file[url] = text /\ lost[url] = None
          /\ url # name => swap[url] = None

SwapInv ==
    /\ TypeOK /\ Phases
    /\ url = None => Shut
    /\ message => Asked
    /\ url # None /\ name = None => Unlogged
    /\ name # None /\ ~message => Logged
    /\ \A f \in Files : f # name \/ message => Kept(f)

------------------------------------------------------------------------------
(* Logs that grow                                                           *)

LEMMA RecordTypes ==
    /\ Start \in Records /\ End \in Records
    /\ \A d \in Texts : Header(d) \in Records
    /\ \A u, v \in Texts : Changed(u, v) \in Records
  BY DEF Records, Start, End, Header, Changed

Fields == {"text", "session", "running", "broken", "touched", "modified"}
LEMMA BeginFields == ASSUME NEW u PROVE DOMAIN Begin(u, 0) = Fields
  BY DEF Begin, Fields

LEMMA StartStep ==
    ASSUME NEW s, NEW u, NEW c, DOMAIN s = Fields, s.text = u, s.session = 0,
           s.broken = FALSE, s.touched = c, s.modified = c
    PROVE  Within(Apply(s, Start), u, c, c)
<1>. DEFINE t == Apply(s, Start)
<1>1. t = [s EXCEPT !.session = @ + 1, !.running = TRUE]
  <2>. Start.kind = "start"
    BY DEF Start
  <2>. QED BY DEF Apply
<1>. HIDE DEF t
<1>2. DOMAIN t = Fields
  BY <1>1 DEF Fields
<1>3. t.session = 1 /\ t.running = TRUE
  BY <1>1 DEF Fields
<1>4. t.text = u /\ t.broken = FALSE /\ t.touched = c /\ t.modified = c
  BY <1>1 DEF Fields
<1>5. Within(t, u, c, c)
  BY <1>2, <1>3, <1>4, BeginFields DEF Within
<1>. QED BY <1>5 DEF t

LEMMA ChangeStep ==
    ASSUME NEW s, NEW u, NEW m, NEW c, Within(s, u, m, c), NEW v
    PROVE  Within(Apply(s, Changed(u, v)), v, m, TRUE)
<1>. DEFINE e == Changed(u, v)
            t == Apply(s, e)
<1>1. e.kind = "change" /\ e.from = u /\ e.to = v
  BY DEF Changed
<1>2. DOMAIN s = Fields /\ s.text = u /\ s.running = TRUE /\ s.broken = FALSE
  BY BeginFields DEF Within
<1>. HIDE DEF e
<1>3. t = [s EXCEPT !.text = v, !.touched = TRUE]
  BY <1>1, <1>2 DEF Apply
<1>. HIDE DEF t
<1>4. DOMAIN t = Fields
  BY <1>2, <1>3 DEF Fields
<1>5. t.text = v /\ t.touched = TRUE
  BY <1>2, <1>3 DEF Fields
<1>6. t.session = 1 /\ t.running = TRUE /\ t.broken = FALSE /\ t.modified = m
  BY <1>2, <1>3 DEF Fields, Within
<1>7. Within(t, v, m, TRUE)
  BY <1>4, <1>5, <1>6, BeginFields DEF Within
<1>. QED BY <1>7 DEF t, e

LEMMA EndStep ==
    ASSUME NEW s, NEW u, NEW m, NEW c, Within(s, u, m, c), (m \/ c) = c
    PROVE  Outside(Apply(s, End), u, c)
<1>. DEFINE t == Apply(s, End)
            d == s.modified \/ (s.session = 1 /\ s.touched)
<1>1. DOMAIN s = Fields /\ s.broken = FALSE
  BY BeginFields DEF Within
<1>2. t = [s EXCEPT !.session = @ - 1, !.running = FALSE, !.modified = d]
  <2>. End.kind = "end"
    BY DEF End
  <2>. QED BY <1>1 DEF Apply
<1>3. d = c
  BY DEF Within
<1>. HIDE DEF t, d
<1>4. DOMAIN t = Fields
  BY <1>1, <1>2 DEF Fields
<1>5. t.session = 0 /\ t.running = FALSE /\ t.modified = c
  BY <1>1, <1>2, <1>3 DEF Fields, Within
<1>6. t.text = u /\ t.broken = FALSE /\ t.touched = c
  BY <1>1, <1>2 DEF Fields, Within
<1>7. Outside(t, u, c)
  BY <1>4, <1>5, <1>6, BeginFields DEF Outside
<1>. QED BY <1>7 DEF t

LEMMA SingleLog == ASSUME NEW e PROVE Append(<<>>, e) = <<e>>
<1>1. /\ Append(<<>>, e) \in Seq({e}) /\ <<e>> \in Seq({e})
      /\ Len(Append(<<>>, e)) = 1 /\ Len(<<e>>) = 1
      /\ Append(<<>>, e)[1] = e /\ <<e>>[1] = e
  BY EmptySeq, AppendProperties
<1>. QED BY <1>1, SeqEqual

LEMMA JoinedLogs ==
    ASSUME NEW S, NEW a \in Seq(S), NEW b \in Seq(S), NEW e \in S
    PROVE  /\ a \o Append(b, e) = Append(a \o b, e)
           /\ a \o <<e>> = Append(a, e)
           /\ a \o <<>> = a /\ <<>> \o a = a
<1>1. /\ Append(b, e) \in Seq(S) /\ <<e>> \in Seq(S) /\ a \o b \in Seq(S)
      /\ Append(b, e) = b \o <<e>> /\ Append(a \o b, e) = (a \o b) \o <<e>>
      /\ Append(a, e) = a \o <<e>>
  BY AppendIsConcat, ConcatProperties, AppendProperties
<1>. QED BY <1>1, ConcatAssociative, ConcatEmptySeq

\* A log with one more record.
LEMMA AppendLog ==
    ASSUME NEW r, NEW t, NEW u, NEW c, Log(r, t, u, c), NEW e \in Records, NEW v, NEW d,
           e.kind = "change" => d, c => d, ~d => v = t
    PROVE  /\ Log(Append(r, e), t, v, d)
           /\ Ended(Append(r, e), t) = Apply(Ended(r, t), e)
<1>1. /\ r \in Seq(Records) /\ r # <<>> /\ Len(r) \in Nat /\ Len(r) > 0
      /\ Append(r, e) \in Seq(Records) /\ Append(r, e) # <<>> /\ Append(r, e)[1] = r[1]
      /\ Len(Append(r, e)) = Len(r) + 1
      /\ \A i \in DOMAIN Append(r, e) :
            (i \in DOMAIN r /\ Append(r, e)[i] = r[i]) \/ Append(r, e)[i] = e
  BY DEF Log
<1>2. HasChange(Append(r, e)) => d
  BY <1>1 DEF Log, HasChange
<1>3. Ended(Append(r, e), t) = Apply(Ended(r, t), e)
  BY <1>1, StatesAppend DEF Ended
<1>. QED BY <1>1, <1>2, <1>3 DEF Log

\* What startEditing() writes to a new log, and to one that goes on.
LEMMA NewLog ==
    ASSUME NEW d \in Texts
    PROVE  Editing(<<Header(d), Start>>, d, d, FALSE, FALSE)
<1>. DEFINE r == <<Header(d)>>
<1>1. /\ r \in Seq(Records) /\ r # <<>> /\ r[1] = Header(d) /\ Len(r) = 1
      /\ r = Append(<<>>, Header(d)) /\ Append(r, Start) = <<Header(d), Start>>
  <2>. Header(d) \in Records
    BY RecordTypes
  <2>. HIDE DEF Records
  <2>1. r \in Seq(Records) /\ r # <<>> /\ r[1] = Header(d) /\ Len(r) = 1
    OBVIOUS
  <2>3. r = Append(<<>>, Header(d))
    BY SingleLog
  <2>4. Append(r, Start) = <<Header(d), Start>>
    <3>1. /\ Append(r, Start) \in Seq(Records) /\ <<Header(d), Start>> \in Seq(Records)
          /\ Len(Append(r, Start)) = 2 /\ Len(<<Header(d), Start>>) = 2
          /\ Append(r, Start)[1] = Header(d) /\ Append(r, Start)[2] = Start
          /\ <<Header(d), Start>>[1] = Header(d) /\ <<Header(d), Start>>[2] = Start
      BY RecordTypes, AppendProperties
    <3>2. \A i \in 1 .. 2 : Append(r, Start)[i] = <<Header(d), Start>>[i]
      BY <3>1
    <3>. QED BY <3>1, <3>2, SeqEqual
  <2>. QED BY <2>1, <2>3, <2>4
<1>2. Log(r, d, d, FALSE)
  BY <1>1 DEF Log, HasChange, Header
<1>3. Ended(r, d) = Begin(d, 0)
  <2>1. /\ <<>> \in Seq(Records) /\ Len(<<>>) = 0 /\ Header(d) \in Records
    BY RecordTypes
  <2>2. States(r, d, 0)[0 + 1] = Apply(Begin(d, 0), Header(d))
    <3>1. States(<<>>, d, 0)[0] = Begin(d, 0)
      BY StatesEmpty
    <3>2. States(Append(<<>>, Header(d)), d, 0)[Len(<<>>) + 1]
            = Apply(States(<<>>, d, 0)[Len(<<>>)], Header(d))
      <4>. HIDE DEF r
      <4>. QED BY <2>1, StatesAppend
    <3>. QED BY <1>1, <2>1, <3>1, <3>2
  <2>3. Begin(d, 0).broken = FALSE
    BY DEF Begin
  <2>4. Apply(Begin(d, 0), Header(d)) = Begin(d, 0)
    BY <2>3 DEF Apply, Header
  <2>. QED BY <1>1, <2>2, <2>4 DEF Ended
<1>4. Log(Append(r, Start), d, d, FALSE) /\ Ended(Append(r, Start), d) = Apply(Begin(d, 0), Start)
  <2>1. Start \in Records /\ Start.kind # "change"
    BY RecordTypes DEF Start
  <2>. QED BY <1>2, <1>3, <2>1, AppendLog
<1>5. Within(Apply(Begin(d, 0), Start), d, FALSE, FALSE)
  <2>. DEFINE s == Begin(d, 0)
  <2>1. /\ DOMAIN s = Fields /\ s.text = d /\ s.session = 0
        /\ s.broken = FALSE /\ s.touched = FALSE /\ s.modified = FALSE
    BY BeginFields DEF Begin
  <2>. HIDE DEF s
  <2>2. Within(Apply(s, Start), d, FALSE, FALSE)
    BY <2>1, StartStep
  <2>. QED BY <2>2 DEF s
<1>. QED BY <1>1, <1>4, <1>5 DEF Editing

LEMMA StartLog ==
    ASSUME NEW r, NEW t, NEW u, NEW c, LeadsTo(r, t, u, c)
    PROVE  Editing(Append(r, Start), t, u, c, c)
<1>1. Log(Append(r, Start), t, u, c) /\ Ended(Append(r, Start), t) = Apply(Ended(r, t), Start)
  <2>1. Log(r, t, u, c) /\ (~c => u = t)
    BY DEF LeadsTo, Log
  <2>. QED BY <2>1, RecordTypes, AppendLog DEF Start
<1>2. Within(Apply(Ended(r, t), Start), u, c, c)
  BY StartStep, BeginFields DEF LeadsTo, Outside
<1>. QED BY <1>1, <1>2 DEF Editing, LeadsTo

LEMMA ChangeLog ==
    ASSUME NEW r, NEW t, NEW u \in Texts, NEW m, NEW c, Editing(r, t, u, m, c), NEW v \in Texts
    PROVE  Editing(Append(r, Changed(u, v)), t, v, m, TRUE)
<1>1. /\ Log(Append(r, Changed(u, v)), t, v, TRUE)
      /\ Ended(Append(r, Changed(u, v)), t) = Apply(Ended(r, t), Changed(u, v))
  <2>1. Log(r, t, u, c) /\ Changed(u, v) \in Records
    BY RecordTypes DEF Editing
  <2>. QED BY <2>1, AppendLog
<1>2. Within(Apply(Ended(r, t), Changed(u, v)), v, m, TRUE)
  BY ChangeStep DEF Editing
<1>. QED BY <1>1, <1>2 DEF Editing

LEMMA EndLog ==
    ASSUME NEW r, NEW t, NEW u, NEW m \in BOOLEAN, NEW c \in BOOLEAN, Editing(r, t, u, m, c)
    PROVE  LeadsTo(Append(r, End), t, u, c)
<1>1. Log(Append(r, End), t, u, c) /\ Ended(Append(r, End), t) = Apply(Ended(r, t), End)
  <2>1. Log(r, t, u, c) /\ (~c => u = t)
    BY DEF Editing, Log
  <2>. QED BY <2>1, RecordTypes, AppendLog DEF End
<1>2. Outside(Apply(Ended(r, t), End), u, c)
  <2>1. Within(Ended(r, t), u, m, c) /\ (m \/ c) = c
    BY DEF Editing
  <2>. QED BY <2>1, EndStep
<1>. QED BY <1>1, <1>2 DEF LeadsTo

\* recover() reaches the text that a log leads to, outside of any edit.
LEMMA ReplayLog ==
    ASSUME NEW r, NEW t, NEW u, NEW c, LeadsTo(r, t, u, c)
    PROVE  Outside(Replay(r, t, 0), u, c)
<1>1. Outside(States(r, t, 0)[Len(r)], u, c)
  BY DEF LeadsTo, Ended
<1>2. Replay(r, t, 0) = States(r, t, 0)[Len(r)]
  BY <1>1 DEF Replay, Outside
<1>. QED BY <1>1, <1>2

------------------------------------------------------------------------------
(* Every step keeps the invariant                                           *)

CarefulUser == Careful /\ ~Long

LEMMA LogFacts ==
    ASSUME NEW r, NEW t, NEW u, NEW c, Log(r, t, u, c)
    PROVE  /\ r \in Seq(Records) /\ r # None /\ r # <<>>
           /\ IsValid(r, t) /\ (\A d : IsValid(r, d) => d = t)
           /\ ~c => u = t
<1>1. \A d : Header(d).digest = d
  BY DEF Header
<1>. QED BY <1>1, SwapAssumption DEF Log, IsValid

LEMMA EmptyLog == <<>> \in Seq(Records) /\ <<>> # None /\ \A d : ~IsValid(<<>>, d)
  BY SwapAssumption, EmptySeq DEF IsValid

LEMMA InitKeeps == Init => SwapInv
<1>. SUFFICES ASSUME Init PROVE SwapInv
  OBVIOUS
<1>. USE SwapAssumption DEF Init
<1>1. TypeOK
  BY EmptySeq DEF TypeOK
<1>2. Phases
  BY DEF Phases
<1>3. \A f \in Files : Kept(f)
  BY DEF Kept
<1>. QED BY <1>1, <1>2, <1>3 DEF SwapInv, Shut

LEMMA ToggleKeeps == SwapInv /\ ToggleWriteLock => SwapInv'
<1>. SUFFICES ASSUME SwapInv, ToggleWriteLock PROVE SwapInv'
  OBVIOUS
<1>1. readWrite' \in BOOLEAN
  BY DEF ToggleWriteLock
<1>. QED BY <1>1 DEF SwapInv, ToggleWriteLock, TypeOK, Phases, Shut, Asked, Unlogged, Logged,
                     Kept, disk, log

LEMMA DiscardKeeps == SwapInv /\ Discard => SwapInv'
<1>. SUFFICES ASSUME SwapInv, Discard PROVE SwapInv'
  OBVIOUS
<1>1. Asked /\ TypeOK /\ Phases /\ name \in Files /\ name # None
  BY SwapAssumption DEF SwapInv, Discard, Asked, TypeOK
<1>2. /\ swap' = [swap EXCEPT ![name] = None] /\ lost' = [lost EXCEPT ![name] = None]
      /\ swap'[name] = None /\ lost'[name] = None
      /\ \A f \in Files : f # name => swap'[f] = swap[f] /\ lost'[f] = lost[f]
  BY <1>1 DEF Discard, RemoveLog, Put, TypeOK
<1>3. TypeOK'
  BY <1>1, <1>2, EmptySeq DEF Discard, TypeOK
<1>4. Phases'
  BY <1>1 DEF Discard, Phases, Asked
<1>5. Logged'
  BY <1>1, <1>2, EmptyLog DEF Discard, Logged, Phases, Asked
<1>6. \A f \in Files : f # name => Kept(f)'
  BY <1>2 DEF Discard, Kept, SwapInv
<1>. QED BY <1>1, <1>3, <1>4, <1>5, <1>6 DEF SwapInv, Discard, Shut, Asked, Unlogged

LEMMA OpenKeeps == ASSUME SwapInv, NEW f \in Files, Open(f) PROVE SwapInv'
<1>. USE SwapAssumption
<1>1. TypeOK /\ Phases /\ Shut /\ \A g \in Files : Kept(g)
  BY DEF SwapInv, Open, Shut
<1>2. url' = f /\ f # None /\ UNCHANGED <<file, lost, phase, pending, open, recovered, modified, session, readWrite>>
      /\ done' = text' /\ saved' = text'
  BY DEF Open
<1>3. CASE file[f] = None
  <2>1. text' = Blank /\ UNCHANGED <<swap, digest, name, message>>
    BY <1>3 DEF Open
  <2>2. swap[f] = None /\ lost[f] = None
    BY <1>1, <1>3 DEF Kept
  <2>3. TypeOK' /\ Phases' /\ Unlogged' /\ \A g \in Files : Kept(g)'
    BY <1>1, <1>2, <2>1, <2>2 DEF TypeOK, Phases, Shut, Unlogged, Kept
  <2>. QED BY <1>1, <1>2, <2>1, <2>3 DEF SwapInv, Shut
<1>4. CASE file[f] # None /\ swap[f] # None /\ IsValid(swap[f], file[f])
  <2>1. text' = file[f] /\ digest' = file[f] /\ name' = f /\ message' = TRUE /\ swap' = swap
    BY <1>4 DEF Open
  <2>2. file[f] \in Texts
    BY <1>1, <1>4 DEF TypeOK
  <2>3. TypeOK' /\ Phases' /\ Asked' /\ \A g \in Files : Kept(g)'
    BY <1>1, <1>2, <1>4, <2>1, <2>2 DEF TypeOK, Phases, Shut, Asked, Kept
  <2>. QED BY <1>2, <2>1, <2>3 DEF SwapInv
<1>5. CASE file[f] # None /\ ~(swap[f] # None /\ IsValid(swap[f], file[f]))
  <2>1. /\ text' = file[f] /\ digest' = file[f] /\ name' = f /\ message' = FALSE
        /\ swap' = [swap EXCEPT ![f] = None]
    BY <1>5 DEF Open, Put
  <2>2. file[f] \in Texts /\ swap'[f] = None /\ \A g \in Files : g # f => swap'[g] = swap[g]
    BY <1>1, <1>5, <2>1 DEF TypeOK
  <2>3. lost[f] = None
    <3>1. lost[f] # None => IsValid(swap[f], file[f]) /\ swap[f] # None
      BY <1>1, LogFacts DEF Kept, LeadsTo
    <3>. QED BY <1>5, <3>1
  <2>4. TypeOK' /\ Phases'
    BY <1>1, <1>2, <2>1, <2>2 DEF TypeOK, Phases, Shut
  <2>5. Logged'
    BY <1>1, <1>2, <2>1, <2>2, <2>3, EmptyLog DEF Logged, Shut
  <2>6. \A g \in Files : g # f => Kept(g)'
    BY <1>1, <1>2, <2>2 DEF Kept
  <2>. QED BY <1>2, <2>1, <2>4, <2>5, <2>6 DEF SwapInv
<1>. QED BY <1>3, <1>4, <1>5

\* A log that stays behind when nobody writes it any more.
LEMMA RemovedKept ==
    ASSUME NEW f \in Files, swap'[f] = None, lost'[f] = None
    PROVE  Kept(f)'
  BY DEF Kept

LEMMA NewShut ==
    ASSUME NewDocument, TypeOK, file' \in [Files -> Texts \cup {None}],
           swap' \in [Files -> {None} \cup Seq(Records)], lost' \in [Files -> Texts \cup {None}]
    PROVE  url' = None /\ Shut' /\ TypeOK' /\ Phases'
<1>1. TypeOK'
  BY SwapAssumption, EmptySeq DEF NewDocument, TypeOK
<1>2. Shut' /\ Phases'
  BY SwapAssumption DEF NewDocument, Phases, Shut
<1>. QED BY <1>1, <1>2 DEF NewDocument

LEMMA CloseKeeps == ASSUME SwapInv, CarefulUser, NEW keep \in BOOLEAN, Close(keep) PROVE SwapInv'
<1>. USE SwapAssumption
<1>1. TypeOK /\ Phases /\ phase = "idle" /\ ~(keep /\ recovered)
      /\ UNCHANGED <<file, lost>>
  BY DEF SwapInv, Close, CarefulUser
<1>2. swap' \in [Files -> {None} \cup Seq(Records)]
  BY <1>1 DEF Close, RemoveLog, Put, TypeOK
<1>3. \A f \in Files : Kept(f)'
  <2>1. CASE message
    <3>1. ShouldRecover
      BY <2>1 DEF SwapInv, Asked, ShouldRecover
    <3>2. UNCHANGED <<file, swap, lost>>
      BY <1>1, <3>1 DEF Close
    <3>. QED BY <2>1, <3>2 DEF SwapInv, Kept
  <2>2. CASE ~message /\ name = None
    <3>1. UNCHANGED <<file, swap, lost>>
      BY <1>1, <2>2 DEF Close, RemoveLog
    <3>. QED BY <2>2, <3>1 DEF SwapInv, Kept
  <2>3. CASE ~message /\ name # None
    <3>1. Logged /\ name \in Files /\ swap \in [Files -> {None} \cup Seq(Records)]
      BY <1>1, <2>3 DEF SwapInv, TypeOK
    <3>2. swap'[name] = None /\ \A f \in Files : f # name => swap'[f] = swap[f]
      BY <2>3, <3>1 DEF Close, RemoveLog, Put, ShouldRecover, Logged
    <3>3. \A f \in Files : f = name => Kept(f)'
      <4>1. lost'[name] = None
        BY <1>1, <3>1 DEF Logged
      <4>. QED BY <3>2, <4>1, RemovedKept
    <3>4. \A f \in Files : f # name => Kept(f)'
      BY <1>1, <3>2 DEF SwapInv, Kept
    <3>. QED BY <3>3, <3>4
  <2>. QED BY <2>1, <2>2, <2>3
<1>4. url' = None /\ Shut' /\ TypeOK' /\ Phases'
  <2>1. CASE keep
    <3>1. TypeOK'
      <4>1. readWrite' \in BOOLEAN
        BY <2>1 DEF Close
      <4>2. /\ url' = None /\ text' = Blank /\ done' = Blank /\ saved' = Blank /\ modified' = FALSE
            /\ name' = None /\ open' = FALSE /\ pending' = <<>> /\ message' = FALSE
            /\ UNCHANGED <<digest, session, phase, recovered>>
        BY <2>1 DEF Close
      <4>. QED BY <1>1, <1>2, <4>1, <4>2, EmptySeq DEF TypeOK
    <3>2. url' = None /\ Shut' /\ Phases'
      BY <1>1, <2>1 DEF Close, Shut, Phases
    <3>. QED BY <3>1, <3>2
  <2>2. CASE ~keep
    <3>1. file' \in [Files -> Texts \cup {None}] /\ lost' \in [Files -> Texts \cup {None}]
      BY <1>1 DEF TypeOK
    <3>. QED BY <1>1, <1>2, <2>2, <3>1, NewShut DEF Close
  <2>. QED BY <2>1, <2>2
<1>. QED BY <1>3, <1>4 DEF SwapInv, Shut

LEMMA KillKeeps == SwapInv /\ CarefulUser /\ Kill => SwapInv'
<1>. SUFFICES ASSUME SwapInv, CarefulUser, Kill PROVE SwapInv'
  OBVIOUS
<1>. USE SwapAssumption
<1>1. TypeOK /\ Phases /\ NewDocument /\ file' = file
  BY DEF SwapInv, Kill
<1>2. swap' \in [Files -> {None} \cup Seq(Records)] /\ \A f \in Files : swap'[f] = swap[f]
  <2>1. swap' = IF open THEN Put(swap, name, swap[name] \o SubSeq(pending, 1, 0)) ELSE swap
    BY DEF Kill, CarefulUser
  <2>2. SubSeq(pending, 1, 0) = <<>>
    BY <1>1 DEF TypeOK
  <2>3. open => name \in Files /\ swap[name] \in Seq(Records)
    BY <1>1 DEF TypeOK
  <2>4. open => swap[name] \o <<>> = swap[name]
    BY <2>3, ConcatEmptySeq
  <2>. QED BY <1>1, <2>1, <2>2, <2>3, <2>4 DEF TypeOK, Put
<1>3. /\ lost' \in [Files -> Texts \cup {None}]
      /\ \A f \in Files : f # name \/ message => lost'[f] = lost[f]
      /\ name # None /\ ~message =>
           lost'[name] = IF modified /\ digest = file[name] THEN done ELSE lost[name]
  BY <1>1 DEF Kill, Put, TypeOK, Phases
<1>4. \A f \in Files : f # name \/ message => Kept(f)'
  BY <1>1, <1>2, <1>3 DEF SwapInv, Kept
<1>5. ASSUME NEW f \in Files, f = name, ~message PROVE Kept(f)'
  <2>1. Logged
    BY <1>5 DEF SwapInv
  <2>2. file'[f] \in Texts /\ swap'[f] = swap[f] /\ lost[f] = None /\ done \in Texts
    BY <1>1, <1>2, <1>5, <2>1 DEF Logged, Phases
  <2>3. modified \in BOOLEAN
    BY <1>1 DEF TypeOK
  <2>4. CASE modified /\ digest = file[f]
    <3>1. LeadsTo(swap[f], file[f], done, TRUE)
      BY <1>5, <2>1, <2>3, <2>4 DEF Logged
    <3>2. swap[f] # None
      BY <3>1, LogFacts DEF LeadsTo
    <3>3. lost'[f] = done /\ done # None
      BY <1>3, <1>5, <2>2, <2>4
    <3>. QED BY <1>1, <2>2, <3>1, <3>2, <3>3 DEF Kept
  <2>5. CASE ~(modified /\ digest = file[f])
    <3>1. lost'[f] = None
      BY <1>3, <1>5, <2>2, <2>5
    <3>2. ASSUME swap[f] # None, IsValid(swap[f], file[f])
          PROVE  LeadsTo(swap[f], file[f], file[f], FALSE)
      <4>1. LeadsTo(swap[f], digest, done, modified)
        BY <1>5, <2>1, <3>2, EmptyLog DEF Logged
      <4>2. file[f] = digest /\ (~modified => done = digest)
        BY <3>2, <4>1, LogFacts DEF LeadsTo
      <4>. QED BY <2>3, <2>5, <4>1, <4>2
    <3>. QED BY <1>1, <2>2, <3>1, <3>2 DEF Kept
  <2>. QED BY <2>4, <2>5
<1>6. url' = None /\ Shut' /\ TypeOK' /\ Phases'
  <2>1. file' \in [Files -> Texts \cup {None}]
    BY <1>1 DEF TypeOK
  <2>. QED BY <1>1, <1>2, <1>3, <2>1, NewShut
<1>. QED BY <1>4, <1>5, <1>6 DEF SwapInv, Shut

LEMMA EditStartKeeps == SwapInv /\ CarefulUser /\ EditStart => SwapInv'
<1>. SUFFICES ASSUME SwapInv, CarefulUser, EditStart PROVE SwapInv'
  OBVIOUS
<1>. USE SwapAssumption
<1>1. /\ TypeOK /\ Phases /\ phase = "idle" /\ url # None /\ ~message /\ session = 0
      /\ StartEditing /\ phase' = "edit" /\ session' = 1
      /\ UNCHANGED <<file, lost, url, text, done, saved, digest, modified, readWrite,
                     name, recovered, message>>
  BY DEF SwapInv, Phases, EditStart, CarefulUser
<1>2. Phases'
  BY <1>1 DEF Phases
<1>3. CASE name = None
  <2>1. UNCHANGED <<swap, open, pending>> /\ Unlogged /\ \A f \in Files : Kept(f)
    BY <1>1, <1>3 DEF StartEditing, SwapInv
  <2>2. TypeOK' /\ Unlogged' /\ \A f \in Files : Kept(f)'
    BY <1>1, <2>1 DEF TypeOK, Unlogged, Kept
  <2>. QED BY <1>1, <1>2, <1>3, <2>2 DEF SwapInv
<1>4. CASE name # None
  <2>1. Logged /\ name \in Files /\ open' = TRUE /\ digest \in Texts
    BY <1>1, <1>4 DEF SwapInv, TypeOK, StartEditing, Logged
  <2>2. CASE swap[name] = None
    <3>1. /\ swap' = [swap EXCEPT ![name] = <<>>] /\ pending' = <<Header(digest), Start>>
          /\ swap'[name] = <<>> /\ \A f \in Files : f # name => swap'[f] = swap[f]
      BY <1>1, <1>4, <2>1, <2>2 DEF StartEditing, Put, TypeOK
    <3>2. ~modified /\ done = digest /\ text = digest
      BY <1>1, <2>1, <2>2, LogFacts DEF Logged, LeadsTo, Phases
    <3>3. pending' \in Seq(Records) /\ swap'[name] \o pending' = pending'
      <4>1. pending' \in Seq(Records)
        BY <2>1, <3>1, RecordTypes
      <4>. QED BY <3>1, <4>1, ConcatEmptySeq
    <3>4. Editing(swap'[name] \o pending', digest, text, modified, modified)
      <4>1. Editing(pending', digest, digest, FALSE, FALSE)
        BY <2>1, <3>1, NewLog
      <4>2. modified = FALSE
        BY <1>1, <3>2 DEF TypeOK
      <4>. QED BY <3>2, <3>3, <4>1, <4>2
    <3>5. TypeOK'
      BY <1>1, <2>1, <3>1, <3>3, EmptyLog DEF TypeOK
    <3>6. Logged'
      <4>1. (modified \/ phase = "changed")' = modified
        BY <1>1 DEF TypeOK
      <4>. QED BY <1>1, <2>1, <3>1, <3>2, <3>4, <4>1, EmptyLog DEF Logged
    <3>7. \A f \in Files : f # name => Kept(f)'
      BY <1>1, <3>1 DEF SwapInv, Kept
    <3>. QED BY <1>1, <1>2, <1>4, <3>5, <3>6, <3>7 DEF SwapInv
  <2>3. CASE swap[name] # None
    <3>1. swap' = swap /\ pending' = <<Start>>
      BY <1>1, <1>4, <2>3 DEF StartEditing
    <3>2. LeadsTo(swap[name], digest, done, modified) /\ swap[name] \in Seq(Records) /\ done = text
      BY <1>1, <2>1, <2>3, LogFacts DEF Logged, LeadsTo, Phases
    <3>3. pending' \in Seq(Records) /\ swap'[name] \o pending' = Append(swap[name], Start)
      BY <3>1, <3>2, RecordTypes, JoinedLogs
    <3>4. Editing(swap'[name] \o pending', digest, text, modified, modified)
      BY <3>2, <3>3, StartLog
    <3>5. TypeOK'
      BY <1>1, <2>1, <2>3, <3>1, <3>3 DEF TypeOK
    <3>6. Logged'
      <4>1. (modified \/ phase = "changed")' = modified
        BY <1>1 DEF TypeOK
      <4>. QED BY <1>1, <2>1, <2>3, <3>1, <3>2, <3>4, <4>1 DEF Logged
    <3>7. \A f \in Files : f # name => Kept(f)'
      BY <1>1, <3>1 DEF SwapInv, Kept
    <3>. QED BY <1>1, <1>2, <1>4, <3>5, <3>6, <3>7 DEF SwapInv
  <2>. QED BY <2>2, <2>3
<1>. QED BY <1>3, <1>4

LEMMA ChangeKeeps == ASSUME SwapInv, NEW to \in Texts, Change(to) PROVE SwapInv'
<1>. USE SwapAssumption
<1>1. /\ TypeOK /\ Phases /\ phase \in {"edit", "changed"} /\ text' = to /\ phase' = "changed"
      /\ pending' = IF open THEN Append(pending, Changed(text, to)) ELSE pending
      /\ UNCHANGED <<file, swap, lost, url, done, saved, digest, modified, readWrite, session,
                     name, open, recovered, message>>
  BY DEF SwapInv, Change, disk
<1>2. url # None /\ ~message /\ Changed(text, to) \in Records
  BY <1>1, RecordTypes DEF SwapInv, Shut, Asked, Phases
<1>3. Phases'
  BY <1>1 DEF Phases
<1>4. TypeOK'
  BY <1>1, <1>2 DEF TypeOK
<1>5. \A f \in Files : f # name => Kept(f)'
  BY <1>1 DEF SwapInv, Kept
<1>6. CASE name = None
  <2>1. Unlogged'
    BY <1>1, <1>2, <1>6 DEF SwapInv, Unlogged
  <2>. QED BY <1>1, <1>2, <1>3, <1>4, <1>5, <1>6, <2>1 DEF SwapInv
<1>7. CASE name # None
  <2>1. /\ Logged /\ open /\ swap[name] # None /\ swap[name] \in Seq(Records)
        /\ Editing(swap[name] \o pending, digest, text, modified, modified \/ phase = "changed")
    BY <1>1, <1>2, <1>7 DEF SwapInv, Logged, TypeOK
  <2>2. (swap[name] \o pending)' = Append(swap[name] \o pending, Changed(text, to))
    <3>1. pending \in Seq(Records) /\ pending' = Append(pending, Changed(text, to))
      BY <1>1, <2>1 DEF TypeOK
    <3>2. swap[name] \o Append(pending, Changed(text, to))
            = Append(swap[name] \o pending, Changed(text, to))
      <4>. DEFINE a == swap[name]
                  e == Changed(text, to)
      <4>1. a \in Seq(Records) /\ pending \in Seq(Records) /\ e \in Records
        BY <1>2, <2>1, <3>1
      <4>. HIDE DEF a, e
      <4>2. a \o Append(pending, e) = Append(a \o pending, e)
        BY <4>1, JoinedLogs
      <4>. QED BY <4>2 DEF a, e
    <3>. QED BY <1>1, <3>1, <3>2
  <2>3. Editing((swap[name] \o pending)', digest, to, modified, TRUE)
    <3>1. text \in Texts
      BY <1>1 DEF Phases
    <3>2. Editing(Append(swap[name] \o pending, Changed(text, to)), digest, to, modified, TRUE)
      BY <2>1, <3>1, ChangeLog
    <3>. QED BY <2>2, <3>2
  <2>4. (modified \/ phase = "changed")' = TRUE
    BY <1>1
  <2>5. Logged'
    BY <1>1, <2>1, <2>3, <2>4 DEF Logged
  <2>. QED BY <1>1, <1>2, <1>3, <1>4, <1>5, <1>7, <2>5 DEF SwapInv
<1>. QED BY <1>6, <1>7

LEMMA EditEndKeeps == ASSUME SwapInv, NEW undone \in BOOLEAN, EditEnd(undone) PROVE SwapInv'
<1>. USE SwapAssumption
<1>. DEFINE c == modified \/ phase = "changed"
<1>1. /\ TypeOK /\ Phases /\ phase \in {"edit", "changed"} /\ session = 1
      /\ undone => text = saved
      /\ phase' = "idle" /\ session' = 0 /\ done' = text
      /\ UNCHANGED <<file, lost, url, text, saved, digest, readWrite, name, recovered, message>>
  BY DEF SwapInv, Phases, EditEnd
<1>2. url # None /\ ~message /\ ~ShouldRecover /\ text \in Texts /\ saved \in Texts
  BY <1>1 DEF SwapInv, Shut, Asked, Phases, ShouldRecover, TypeOK, Unlogged, Logged
<1>3. c \in BOOLEAN /\ modified' = (c /\ ~undone)
  BY <1>1 DEF EditEnd
<1>4. /\ pending' = <<>>
      /\ swap' = IF c /\ undone THEN RemoveLog(swap, name) ELSE FinishEditing
      /\ open' = (open /\ ~(c /\ undone))
  BY <1>1, <1>2 DEF EditEnd
<1>5. Phases'
  BY <1>1, <1>4 DEF Phases
<1>6. CASE name = None
  <2>1. Unlogged /\ swap' = swap /\ open' = FALSE /\ \A f \in Files : Kept(f)
    BY <1>1, <1>2, <1>4, <1>6 DEF SwapInv, Unlogged, RemoveLog, FinishEditing
  <2>2. Unlogged' /\ \A f \in Files : Kept(f)'
    BY <1>1, <1>4, <2>1 DEF Unlogged, Kept
  <2>3. TypeOK'
    BY <1>1, <1>3, <1>4, <2>1, EmptySeq DEF TypeOK
  <2>. QED BY <1>1, <1>2, <1>5, <1>6, <2>2, <2>3 DEF SwapInv
<1>7. CASE name # None
  <2>1. /\ Logged /\ open /\ name \in Files /\ swap[name] # None /\ swap[name] \in Seq(Records)
        /\ pending \in Seq(Records) /\ saved = digest
        /\ Editing(swap[name] \o pending, digest, text, modified, c)
    BY <1>1, <1>2, <1>7 DEF SwapInv, Logged, TypeOK
  <2>2. CASE c /\ undone
    <3>1. swap' = [swap EXCEPT ![name] = None] /\ open' = FALSE /\ modified' = FALSE
      BY <1>3, <1>4, <1>7, <2>2 DEF RemoveLog, Put
    <3>2. swap'[name] = None /\ \A f \in Files : f # name => swap'[f] = swap[f]
      BY <1>1, <2>1, <3>1 DEF TypeOK
    <3>3. TypeOK'
      BY <1>1, <1>4, <2>1, <3>1, EmptySeq DEF TypeOK
    <3>4. Logged'
      BY <1>1, <2>1, <2>2, <3>1, <3>2, EmptyLog DEF Logged
    <3>5. \A f \in Files : f # name => Kept(f)'
      BY <1>1, <3>2 DEF SwapInv, Kept
    <3>. QED BY <1>1, <1>2, <1>5, <1>7, <3>3, <3>4, <3>5 DEF SwapInv
  <2>3. CASE ~(c /\ undone)
    <3>1. /\ swap' = [swap EXCEPT ![name] = Append(swap[name] \o pending, End)]
          /\ open' = TRUE /\ modified' = c
      <4>1. swap[name] \o Append(pending, End) = Append(swap[name] \o pending, End)
        <5>. DEFINE a == swap[name]
        <5>1. a \in Seq(Records) /\ pending \in Seq(Records) /\ End \in Records
          BY <2>1, RecordTypes
        <5>. HIDE DEF a
        <5>2. a \o Append(pending, End) = Append(a \o pending, End)
          BY <5>1, JoinedLogs
        <5>. QED BY <5>2 DEF a
      <4>. QED BY <1>1, <1>3, <1>4, <2>1, <2>3, <4>1 DEF FinishEditing, Put
    <3>2. LeadsTo(Append(swap[name] \o pending, End), digest, text, c)
      <4>1. modified \in BOOLEAN
        BY <1>1 DEF TypeOK
      <4>. HIDE DEF c
      <4>. QED BY <1>3, <2>1, <4>1, EndLog
    <3>3. /\ swap'[name] = Append(swap[name] \o pending, End)
          /\ swap'[name] \in Seq(Records) /\ swap'[name] # None /\ swap'[name] # <<>>
          /\ \A f \in Files : f # name => swap'[f] = swap[f]
          /\ swap' \in [Files -> {None} \cup Seq(Records)]
      <4>1. /\ Append(swap[name] \o pending, End) \in Seq(Records)
            /\ Append(swap[name] \o pending, End) # None
            /\ Append(swap[name] \o pending, End) # <<>>
        BY <3>2, LogFacts DEF LeadsTo
      <4>. HIDE DEF Records
      <4>. QED BY <1>1, <2>1, <3>1, <4>1 DEF TypeOK
    <3>4. TypeOK'
      <4>1. modified' \in BOOLEAN
        BY <1>3
      <4>. QED BY <1>1, <1>4, <2>1, <3>1, <3>3, <4>1, EmptySeq DEF TypeOK
    <3>5. Logged'
      <4>1. LeadsTo(swap'[name'], digest', done', modified')
        BY <1>1, <3>1, <3>2, <3>3
      <4>. QED BY <1>1, <2>1, <3>1, <3>3, <4>1 DEF Logged
    <3>6. \A f \in Files : f # name => Kept(f)'
      BY <1>1, <3>3 DEF SwapInv, Kept
    <3>. QED BY <1>1, <1>2, <1>5, <1>7, <3>4, <3>5, <3>6 DEF SwapInv
  <2>. QED BY <2>2, <2>3
<1>. QED BY <1>6, <1>7

LEMMA SaveFileKeeps == ASSUME SwapInv, CarefulUser, NEW f \in Files, SaveFile(f) PROVE SwapInv'
<1>. USE SwapAssumption
<1>1. /\ TypeOK /\ Phases /\ phase = "idle" /\ url # None /\ ~message
      /\ f = url \/ swap[f] = None
      /\ phase' = "saved" /\ url' = f
      /\ UNCHANGED <<swap, text, done, saved, digest, modified, readWrite, session,
                     name, open, pending, recovered, message>>
  BY DEF SwapInv, SaveFile, CarefulUser, log
<1>2. /\ file' = [file EXCEPT ![f] = text] /\ lost' = [lost EXCEPT ![f] = None]
      /\ file'[f] = text /\ lost'[f] = None /\ f # None /\ text \in Texts
      /\ \A g \in Files : g # f => file'[g] = file[g] /\ lost'[g] = lost[g]
  BY <1>1 DEF SaveFile, Put, TypeOK, Phases
<1>3. TypeOK'
  BY <1>1, <1>2 DEF TypeOK
<1>4. name # None => Logged /\ url = name
  BY <1>1 DEF SwapInv, Logged
<1>5. f # name => swap[f] = None
  BY <1>1, <1>4 DEF SwapInv, Unlogged
<1>6. Phases'
  BY <1>1, <1>2, <1>5 DEF Phases
<1>7. \A g \in Files : g # name => Kept(g)'
  <2>. SUFFICES ASSUME NEW g \in Files, g # name PROVE Kept(g)'
    OBVIOUS
  <2>1. CASE g = f
    BY <1>1, <1>2, <1>5, <2>1 DEF Kept
  <2>2. CASE g # f
    BY <1>1, <1>2, <2>2 DEF SwapInv, Kept
  <2>. QED BY <2>1, <2>2
<1>8. name = None => Unlogged'
  BY <1>1, <1>2, <1>5 DEF SwapInv, Unlogged
<1>9. name # None => Logged'
  <2>. SUFFICES ASSUME name # None PROVE Logged'
    OBVIOUS
  <2>1. Logged /\ url = name /\ name \in Files
    BY <1>1, <1>4 DEF TypeOK
  <2>2. file'[name] \in Texts /\ lost'[name] = None /\ (f # name => file'[name] = digest)
    BY <1>1, <1>2, <2>1 DEF Logged
  <2>. QED BY <1>1, <2>1, <2>2 DEF Logged
<1>. QED BY <1>1, <1>2, <1>3, <1>6, <1>7, <1>8, <1>9 DEF SwapInv

LEMMA FileSavedKeeps == SwapInv /\ FileSaved => SwapInv'
<1>. SUFFICES ASSUME SwapInv, FileSaved PROVE SwapInv'
  OBVIOUS
<1>. USE SwapAssumption
<1>. DEFINE logs == RemoveLog(swap, name)
<1>1. /\ TypeOK /\ Phases /\ phase = "saved" /\ url \in Files /\ url # None /\ ~message
      /\ file[url] = text /\ lost[url] = None /\ text \in Texts /\ done = text
      /\ name' = url /\ open' = FALSE /\ digest' = text /\ saved' = text /\ modified' = FALSE
      /\ phase' = "idle" /\ pending' = <<>>
      /\ UNCHANGED <<file, lost, url, text, done, readWrite, session, recovered, message>>
  BY DEF SwapInv, FileSaved, TypeOK, Phases
<1>2. /\ logs \in [Files -> {None} \cup Seq(Records)] /\ logs[url] = None
      /\ \A f \in Files : logs[f] = IF f = name THEN None ELSE swap[f]
  BY <1>1 DEF RemoveLog, Put, TypeOK, Phases
<1>3. swap' = logs \/ swap' = [logs EXCEPT ![url] = None]
  BY <1>1 DEF FileSaved, RemoveLog, Put
<1>. HIDE DEF logs
<1>4. /\ swap' \in [Files -> {None} \cup Seq(Records)] /\ swap'[url] = None
      /\ \A f \in Files : swap'[f] = IF f = name THEN None ELSE swap[f]
  BY <1>1, <1>2, <1>3
<1>5. TypeOK' /\ Phases'
  BY <1>1, <1>4, EmptySeq DEF TypeOK, Phases
<1>6. Logged'
  BY <1>1, <1>4, EmptyLog DEF Logged
<1>7. \A f \in Files : f # url => Kept(f)'
  <2>. SUFFICES ASSUME NEW f \in Files, f # url PROVE Kept(f)'
    OBVIOUS
  <2>1. CASE f = name
    <3>1. lost'[f] = None
      BY <1>1, <2>1 DEF SwapInv, Logged
    <3>. QED BY <1>4, <2>1, <3>1, RemovedKept
  <2>2. CASE f # name
    BY <1>1, <1>4, <2>2 DEF SwapInv, Kept
  <2>. QED BY <2>1, <2>2
<1>. QED BY <1>1, <1>5, <1>6, <1>7 DEF SwapInv

LEMMA RecoverKeeps == SwapInv /\ Recover => SwapInv'
<1>. SUFFICES ASSUME SwapInv, Recover PROVE SwapInv'
  OBVIOUS
<1>. USE SwapAssumption
<1>. DEFINE u == IF lost[name] # None THEN lost[name] ELSE file[name]
            c == lost[name] # None
            result == Replay(swap[name], text, session)
<1>1. TypeOK /\ Phases /\ Asked /\ name \in Files /\ Kept(name) /\ session = 0
  BY DEF SwapInv, Recover, Asked, TypeOK
<1>2. LeadsTo(swap[name], file[name], u, c) /\ u \in Texts
  BY <1>1 DEF Kept, Asked, TypeOK
<1>3. result.text = u /\ result.session = 0 /\ result.modified = c
  <2>1. Outside(Replay(swap[name], file[name], 0), u, c)
    <3>. HIDE DEF u, c
    <3>. QED BY <1>2, ReplayLog
  <2>. QED BY <1>1, <2>1 DEF Outside, Asked
<1>4. /\ message' = FALSE /\ readWrite' = TRUE /\ pending' = <<>> /\ recovered' = TRUE
      /\ text' = result.text /\ done' = result.text /\ session' = result.session
      /\ modified' = (modified \/ result.modified)
      /\ lost' = [lost EXCEPT ![name] = None]
      /\ UNCHANGED <<file, swap, open, url, saved, digest, phase, name>>
  BY <1>1 DEF Recover, Asked, Put
<1>. HIDE DEF result
<1>5. /\ text' = u /\ done' = u /\ session' = 0 /\ modified' = c
  BY <1>1, <1>3, <1>4 DEF Asked
<1>6. lost'[name] = None /\ \A f \in Files : f # name => lost'[f] = lost[f]
  BY <1>1, <1>4 DEF TypeOK
<1>7. TypeOK'
  <2>1. modified' \in BOOLEAN
    BY <1>5
  <2>2. text' \in Texts /\ done' \in Texts
    BY <1>2, <1>5
  <2>. HIDE DEF u, c
  <2>. QED BY <1>1, <1>4, <1>5, <2>1, <2>2, EmptySeq DEF TypeOK
<1>8. Phases'
  <2>1. text' \in Texts /\ done' = text' /\ phase' = "idle"
    BY <1>1, <1>2, <1>4, <1>5 DEF Asked
  <2>. QED BY <1>4, <1>5, <2>1 DEF Phases
<1>9. Logged'
  <2>1. LeadsTo(swap'[name'], digest', done', modified')
    BY <1>1, <1>2, <1>4, <1>5 DEF Asked
  <2>2. swap[name] # <<>>
    BY <1>1, EmptyLog DEF Asked
  <2>. QED BY <1>1, <1>4, <1>6, <2>1, <2>2 DEF Logged, Asked
<1>10. \A f \in Files : f # name => Kept(f)'
  BY <1>4, <1>6 DEF SwapInv, Kept
<1>. QED BY <1>1, <1>4, <1>7, <1>8, <1>9, <1>10 DEF SwapInv, Asked

LEMMA NextKeeps == SwapInv /\ CarefulUser /\ [Next]_vars => SwapInv'
<1>. SUFFICES ASSUME SwapInv, CarefulUser, [Next]_vars PROVE SwapInv'
  OBVIOUS
<1>1. CASE UNCHANGED vars
  BY <1>1 DEF vars, disk, document, log, SwapInv, TypeOK, Phases, Shut, Asked, Unlogged, Logged, Kept
<1>2. CASE Next
  BY <1>2, OpenKeeps, SaveFileKeeps, CloseKeeps, EditStartKeeps, ChangeKeeps, EditEndKeeps,
     ToggleKeeps, FileSavedKeeps, RecoverKeeps, DiscardKeeps, KillKeeps DEF Next
<1>. QED BY <1>1, <1>2

LEMMA Invariance == ASSUME CarefulUser PROVE Spec => []SwapInv
<1>1. SwapInv /\ [Next]_vars => SwapInv'
  BY NextKeeps
<1>. QED BY <1>1, InitKeeps, PTL DEF Spec

------------------------------------------------------------------------------
(* Theorems                                                                 *)

\* Every variable keeps its range, and no edit session is open between two edits:
\* the calls of editStart() and editEnd() that recover() replays are balanced, as
\* SwapFile::recover() expects.
THEOREM SwapTypeCorrect == ASSUME CarefulUser PROVE Spec => []TypeOK
<1>1. SwapInv => TypeOK
  BY DEF SwapInv
<1>. QED BY <1>1, Invariance, PTL

\* Whenever the editor is killed between two edits, the log of the document leads
\* from the file to the text the user sees: through any number of edits, undos,
\* saves under other names, recoveries and restarts.
THEOREM LogCovers == ASSUME CarefulUser PROVE Spec => []Covered
<1>1. SwapInv => Covered
  <2>. SUFFICES ASSUME SwapInv, phase = "idle", name # None, ~message, text # file[name]
                PROVE  Leads(name, text)
    BY DEF Covered
  <2>1. Logged /\ done = text /\ url = name /\ file[name] = digest
    BY DEF SwapInv, Logged, Phases
  <2>2. LeadsTo(swap[name], file[name], text, modified)
    BY <2>1 DEF Logged
  <2>3. swap[name] # None /\ IsValid(swap[name], file[name])
    BY <2>2, LogFacts DEF LeadsTo
  <2>4. Outside(Replay(swap[name], file[name], 0), text, modified)
    BY <2>2, ReplayLog
  <2>. QED BY <2>3, <2>4 DEF Leads, Outside
<1>. QED BY <1>1, Invariance, PTL

\* What was lost with a killed editor stays in the log of its file until the user
\* recovers it, discards it or saves the file: no other open, close, edit or kill
\* removes or changes that log.
THEOREM LostRecoverable == ASSUME CarefulUser PROVE Spec => []Recoverable
<1>1. SwapInv => Recoverable
  <2>. SUFFICES ASSUME SwapInv, NEW f \in Files, lost[f] # None PROVE Leads(f, lost[f])
    BY DEF Recoverable
  <2>1. Kept(f)
    BY SwapAssumption DEF SwapInv, Logged
  <2>2. LeadsTo(swap[f], file[f], lost[f], TRUE)
    BY <2>1 DEF Kept
  <2>3. swap[f] # None /\ IsValid(swap[f], file[f])
    BY <2>2, LogFacts DEF LeadsTo
  <2>4. Outside(Replay(swap[f], file[f], 0), lost[f], TRUE)
    BY <2>2, ReplayLog
  <2>. QED BY <2>3, <2>4 DEF Leads, Outside
<1>. QED BY <1>1, Invariance, PTL

\* recover() never replays a change on another text than it was made on: the digest
\* at the head of a log and the order of its records keep them together.
THEOREM ReplayInPlace == ASSUME CarefulUser PROVE Spec => []ReplayedInPlace
<1>1. SwapInv => ReplayedInPlace
  BY SwapAssumption DEF SwapInv, Phases, ReplayedInPlace
<1>. QED BY <1>1, Invariance, PTL

\* With no file open, a log that openUrl() would ask about and that holds a change
\* is one of a document that was lost: closing, saving and undoing leave no other.
THEOREM NoStaleQuestion == ASSUME CarefulUser PROVE Spec => []NoStaleLog
<1>1. SwapInv => NoStaleLog
  <2>. SUFFICES ASSUME SwapInv, NEW f \in Files, url = None, swap[f] # None,
                       IsValid(swap[f], file[f]), HasChange(swap[f])
                PROVE  lost[f] # None
    BY DEF NoStaleLog, HasChange
  <2>1. Kept(f)
    BY SwapAssumption DEF SwapInv, Shut
  <2>. QED BY <2>1 DEF Kept, LeadsTo, Log
<1>. QED BY <1>1, Invariance, PTL

==============================================================================
