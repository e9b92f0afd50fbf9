----------------------------- MODULE SensorAgent -----------------------------
(****************************************************************************)
(* libs/ksysguard/ksgrd: how ksysguard and the system monitor applet get    *)
(* their values.  SensorManager keeps one SensorAgent for the host; the     *)
(* agent writes the clients' requests to ksysguardd, which answers each     *)
(* command line with some lines and a prompt, and deals the answers out in  *)
(* the order of its FIFO of written requests.                               *)
(*                                                                          *)
(* All of it runs in one thread: an event handler is over before the next   *)
(* one starts, but a handler calls its clients back, and they may call      *)
(* sendRequest() from there.  processAnswer() is therefore one step per     *)
(* element of its buffer, with a state of its own for the call back.  The   *)
(* daemon runs on its own.                                                  *)
(*                                                                          *)
(* The agent of localhost is a SensorShellAgent, one of another machine may *)
(* be a SensorSocketAgent.  What the latter needs of QTcpSocket is external: *)
(* flush() reports the bytes it could write by bytesWritten() at once, but  *)
(* not from within that signal; what the kernel does not take is reported   *)
(* when it is written from the event loop.                                  *)
(*                                                                          *)
(* Abstracted: a request string and its id are one value (a query); the     *)
(* lines of an answer, "UNKNOWN COMMAND" included, are one line; the bytes  *)
(* of the pipe are tokens, and a chunk that ends inside one is a chunk that *)
(* ends before it.                                                          *)
(****************************************************************************)
EXTENDS Naturals, Sequences, FiniteSets

CONSTANTS
    None,
    Clients,    \* the SensorClients
    Queries,    \* request string and id
    Careless,   \* the clients whose destructor does not call disconnectClient()
    Socket,     \* whether the agents are SensorSocketAgents
    Long,       \* the queries longer than the daemon's CMDBUFSIZE
    MaxAgents,  \* bound: how often the host is engaged
    MaxSends    \* bound: how many requests are made

ASSUME SensorAssumption ==
    /\ Careless \subseteq Clients /\ Long \subseteq Queries
    /\ None \notin Clients \cup Queries \cup Nat
    /\ Socket \in BOOLEAN /\ MaxAgents \in Nat /\ MaxSends \in Nat

Agents == 1 .. MaxAgents
Requests == [client : Clients \cup {None}, query : Queries]
\* What the daemon writes; a prompt remembers which command it ends.
Tokens == [kind : {"line", "open", "close", "prompt"},
           of : Queries \cup {None}]
Token(k, q) == [kind |-> k, of |-> q]
\* An answer that is handed to a client, and the command it ends.
Deliveries == [request : Requests, answer : Seq(Tokens), of : Queries \cup {None}]

ASSUME NoneIsNoDelivery == None \notin Deliveries

VARIABLES
    agent,          \* SensorManager::mAgents, for the host
    made,           \* agents created so far
    status,         \* [Agents -> "none" | "alive" | "doomed" | "deleted"]
    onLine,         \* mDaemonOnLine
    inputFIFO,      \* mInputFIFO
    processingFIFO, \* mProcessingFIFO
    answerBuffer,   \* mAnswerBuffer
    leftOver,       \* mLeftOverBuffer
    daemon,         \* [Agents -> "up" | "dead"]: the agent's ksysguardd
    toDaemon,       \* its standard input
    fromDaemon,     \* its standard output
    unsent,         \* the socket still holds bytes of a command
    pc,             \* the GUI thread: "loop" | "parse" | "callback"
    busy,           \* the agent whose processAnswer() runs
    buf,            \* processAnswer(): the buffer from here on
    call,           \* the answer being handed to a client
    alive,          \* the clients not yet destroyed
    sends

queues == <<inputFIFO, processingFIFO, toDaemon, unsent>>
reader == <<pc, busy, buf, call>>
hosts  == <<agent, made, status>>
vars   == <<hosts, queues, reader, onLine, answerBuffer, leftOver, daemon,
            fromDaemon, alive, sends>>

Put(f, a, v) == [f EXCEPT ![a] = v]

Init ==
    /\ agent = None /\ made = 0
    /\ status = [a \in Agents |-> "none"]
    /\ onLine = [a \in Agents |-> FALSE]
    /\ inputFIFO = [a \in Agents |-> <<>>]
    /\ processingFIFO = [a \in Agents |-> <<>>]
    /\ answerBuffer = [a \in Agents |-> <<>>]
    /\ leftOver = [a \in Agents |-> <<>>]
    /\ daemon = [a \in Agents |-> "up"]
    /\ toDaemon = [a \in Agents |-> <<>>]
    /\ fromDaemon = [a \in Agents |-> <<>>]
    /\ unsent = [a \in Agents |-> FALSE]
    /\ pc = "loop" /\ busy = None /\ buf = <<>> /\ call = None
    /\ alive = Clients
    /\ sends = 0

------------------------------------------------------------------------------
(* SensorAgent: requests                                                    *)

\* The first command of `in` is written.  The write can fail, which is only
\* logged: the request counts as written all the same.
WriteFirst(a, in) ==
    /\ inputFIFO' = Put(inputFIFO, a, Tail(in))
    /\ processingFIFO' = Put(processingFIFO, a, Append(processingFIFO[a], Head(in)))
    /\ toDaemon' = IF daemon[a] = "up"
                   THEN Put(toDaemon, a, Append(toDaemon[a], Head(in).query))
                   ELSE toDaemon

\* SensorSocketAgent: the flush() of writeMsg() took the first command at once,
\* and msgSent() called executeCommand() again before the first request was
\* enqueued.
WriteNested(a, in) ==
    /\ Len(in) > 1
    /\ inputFIFO' = Put(inputFIFO, a, Tail(Tail(in)))
    /\ processingFIFO' = Put(processingFIFO, a,
                             Append(Append(processingFIFO[a], in[2]), in[1]))
    /\ toDaemon' = Put(toDaemon, a,
                       Append(Append(toDaemon[a], in[1].query), in[2].query))

\* executeCommand(), with the input FIFO as its caller leaves it.
ExecuteCommand(a, in) ==
    IF onLine[a] /\ in # <<>>
    THEN IF Socket /\ daemon[a] = "up"
         THEN \E left \in BOOLEAN :
                /\ unsent' = Put(unsent, a, left)
                /\ \/ (left \/ Len(in) = 1) /\ WriteFirst(a, in)
                   \/ WriteNested(a, in)
         ELSE WriteFirst(a, in) /\ unsent' = Put(unsent, a, FALSE)
    ELSE /\ inputFIFO' = Put(inputFIFO, a, in)
         /\ UNCHANGED <<processingFIFO, toDaemon, unsent>>

Has(fifo, r) == \E i \in 1 .. Len(fifo) : fifo[i] = r

\* Bug: only the requests not yet written are looked at.
AgentSendRequestInput(a, r) ==
    IF Has(inputFIFO[a], r) THEN ExecuteCommand(a, inputFIFO[a])
    ELSE ExecuteCommand(a, Append(inputFIFO[a], r))

\* sendRequest(): an equal request that still waits is not sent twice.
AgentSendRequest(a, r) ==
    IF Has(inputFIFO[a], r) THEN ExecuteCommand(a, inputFIFO[a])
    ELSE IF Has(processingFIFO[a], r) THEN UNCHANGED queues
    ELSE ExecuteCommand(a, Append(inputFIFO[a], r))

\* Bug: the requests of the client are removed.
WithoutRequests(fifo, c) == SelectSeq(fifo, LAMBDA r : r.client # c)

\* The client is forgotten, the request stays: its answer is still to come.
Without(fifo, c) ==
    [i \in 1 .. Len(fifo) |->
        IF fifo[i].client = c THEN [fifo[i] EXCEPT !.client = None] ELSE fifo[i]]

------------------------------------------------------------------------------
(* SensorManager                                                            *)

Calling(c) == pc \in {"loop", "callback"} /\ c \in alive /\ sends < MaxSends

\* sendRequest() to a host that is engaged.
SendRequest(c, q) ==
    /\ Calling(c)
    /\ agent # None
    /\ AgentSendRequest(agent, [client |-> c, query |-> q])
    /\ sends' = sends + 1
    /\ UNCHANGED <<hosts, reader, onLine, answerBuffer, leftOver, daemon,
                   fromDaemon, alive>>

\* engage(): the daemon greets with some lines and its first prompt.
NewAgent ==
    /\ agent = None /\ made < MaxAgents
    /\ made' = made + 1
    /\ agent' = made + 1
    /\ status' = Put(status, made + 1, "alive")
    /\ fromDaemon' = Put(fromDaemon, made + 1, <<Token("line", None), Token("prompt", None)>>)

\* A window or an applet engages the host.
Engage ==
    /\ pc = "loop"
    /\ NewAgent
    /\ UNCHANGED <<reader, queues, onLine, answerBuffer, leftOver, daemon, alive, sends>>

\* sendRequest() engages localhost again when its agent is gone.
Reengage(c, q) ==
    /\ Calling(c) /\ ~Socket
    /\ NewAgent
    /\ inputFIFO' = Put(inputFIFO, made + 1, <<[client |-> c, query |-> q]>>)
    /\ sends' = sends + 1
    /\ UNCHANGED <<reader, processingFIFO, toDaemon, unsent, onLine, answerBuffer,
                   leftOver, daemon, alive>>

\* Bug: disengage() leaves the agent in the map.
DisengageKeep ==
    /\ pc = "loop" /\ agent # None
    /\ status' = Put(status, agent, "doomed")
    /\ UNCHANGED <<agent, made, queues, reader, onLine, answerBuffer, leftOver,
                   daemon, fromDaemon, alive, sends>>

\* disengage(): out of the map at once, deleted by the event loop later.
Disengage ==
    /\ pc = "loop" /\ agent # None
    /\ status' = Put(status, agent, "doomed")
    /\ agent' = None
    /\ UNCHANGED <<made, queues, reader, onLine, answerBuffer, leftOver, daemon,
                   fromDaemon, alive, sends>>

\* The destructor drops the requests and waits for the daemon to quit.
DeleteLater(a) ==
    /\ pc = "loop" /\ status[a] = "doomed"
    /\ status' = Put(status, a, "deleted")
    /\ inputFIFO' = Put(inputFIFO, a, <<>>)
    /\ processingFIFO' = Put(processingFIFO, a, <<>>)
    /\ daemon' = Put(daemon, a, "dead")
    /\ toDaemon' = Put(toDaemon, a, <<>>)
    /\ fromDaemon' = Put(fromDaemon, a, <<>>)
    /\ leftOver' = Put(leftOver, a, <<>>)
    /\ unsent' = Put(unsent, a, FALSE)
    /\ UNCHANGED <<agent, made, reader, onLine, answerBuffer, alive, sends>>

\* Bug: disconnectClient() forgets the requests already written.
DestroyInput(c) ==
    /\ pc = "loop" /\ c \in alive
    /\ alive' = alive \ {c}
    /\ IF c \in Careless \/ agent = None
       THEN UNCHANGED inputFIFO
       ELSE inputFIFO' = Put(inputFIFO, agent, Without(inputFIFO[agent], c))
    /\ UNCHANGED <<hosts, reader, processingFIFO, toDaemon, unsent, onLine,
                   answerBuffer, leftOver, daemon, fromDaemon, sends>>

\* A client is destroyed; disconnectClient() visits the agents in the map.
Destroy(c) ==
    /\ pc = "loop" /\ c \in alive
    /\ alive' = alive \ {c}
    /\ IF c \in Careless \/ agent = None
       THEN UNCHANGED <<inputFIFO, processingFIFO>>
       ELSE /\ inputFIFO' = Put(inputFIFO, agent, Without(inputFIFO[agent], c))
            /\ processingFIFO' = Put(processingFIFO, agent, Without(processingFIFO[agent], c))
    /\ UNCHANGED <<hosts, reader, toDaemon, unsent, onLine, answerBuffer, leftOver,
                   daemon, fromDaemon, sends>>

------------------------------------------------------------------------------
(* SensorAgent: answers                                                     *)

\* msgRcvd(): some of what the daemon has written, after what was left over.
\* n = 0 is a chunk that completes no token.  (The event loop deletes a doomed
\* agent before it looks for new input.)
Read(a, n) ==
    /\ pc = "loop" /\ status[a] = "alive"
    /\ fromDaemon[a] # <<>> /\ n <= Len(fromDaemon[a])
    /\ buf' = leftOver[a] \o SubSeq(fromDaemon[a], 1, n)
    /\ fromDaemon' = Put(fromDaemon, a, SubSeq(fromDaemon[a], n + 1, Len(fromDaemon[a])))
    /\ leftOver' = Put(leftOver, a, <<>>)
    /\ pc' = "parse" /\ busy' = a
    /\ UNCHANGED <<hosts, queues, onLine, answerBuffer, daemon, alive, sends, call>>

Parsing(kinds) == pc = "parse" /\ buf # <<>> /\ Head(buf).kind \in kinds

ParseLine ==
    /\ Parsing({"line"})
    /\ answerBuffer' = Put(answerBuffer, busy, Append(answerBuffer[busy], Head(buf)))
    /\ buf' = Tail(buf)
    /\ UNCHANGED <<hosts, queues, onLine, leftOver, daemon, fromDaemon, alive,
                   sends, pc, busy, call>>

\* A message between two escapes.  RECONFIGURE is emitted, and the clients may
\* react; another message is posted.  Without its end everything waits for the
\* next chunk, and executeCommand() is not reached.
ParseMessage ==
    /\ Parsing({"open"})
    /\ \/ /\ Len(buf) > 1
          /\ buf' = Tail(Tail(buf))
          /\ pc' \in {"parse", "callback"}
          /\ UNCHANGED <<leftOver, busy>>
       \/ /\ Len(buf) = 1
          /\ leftOver' = Put(leftOver, busy, buf)
          /\ buf' = <<>> /\ pc' = "loop" /\ busy' = None
    /\ UNCHANGED <<hosts, queues, onLine, answerBuffer, daemon, fromDaemon, alive,
                   sends, call>>

\* Bug: the request of a client that is gone is not dequeued.
ParsePromptStay ==
    /\ Parsing({"prompt"})
    /\ buf' = Tail(buf)
    /\ LET fifo == processingFIFO[busy] IN
       IF onLine[busy] /\ fifo # <<>> /\ Head(fifo).client # None
       THEN /\ pc' = "callback"
            /\ call' = [request |-> Head(fifo), answer |-> answerBuffer[busy],
                        of |-> Head(buf).of]
            /\ processingFIFO' = Put(processingFIFO, busy, Tail(fifo))
            /\ UNCHANGED answerBuffer
       ELSE /\ answerBuffer' = Put(answerBuffer, busy, <<>>)
            /\ UNCHANGED <<pc, call, processingFIFO>>
    /\ onLine' = Put(onLine, busy, TRUE)
    /\ UNCHANGED <<hosts, inputFIFO, toDaemon, unsent, leftOver, daemon, fromDaemon, alive,
                   sends, busy>>

\* A prompt ends an answer.  The first one says the daemon is ready; an answer
\* nobody asked for, or whose client is gone, is dropped.
ParsePrompt ==
    /\ Parsing({"prompt"})
    /\ buf' = Tail(buf)
    /\ LET fifo == processingFIFO[busy] IN
       IF onLine[busy] /\ fifo # <<>> /\ Head(fifo).client # None
       THEN /\ pc' = "callback"
            /\ call' = [request |-> Head(fifo), answer |-> answerBuffer[busy],
                        of |-> Head(buf).of]
            /\ UNCHANGED answerBuffer
       ELSE /\ answerBuffer' = Put(answerBuffer, busy, <<>>)
            /\ UNCHANGED <<pc, call>>
    /\ processingFIFO' = IF onLine[busy] /\ processingFIFO[busy] # <<>>
                         THEN Put(processingFIFO, busy, Tail(processingFIFO[busy]))
                         ELSE processingFIFO
    /\ onLine' = Put(onLine, busy, TRUE)
    /\ UNCHANGED <<hosts, inputFIFO, toDaemon, unsent, leftOver, daemon, fromDaemon, alive,
                   sends, busy>>

\* The client, or the slots of update(), return.
Return ==
    /\ pc = "callback"
    /\ pc' = "parse"
    /\ call' = None
    /\ answerBuffer' = IF call = None THEN answerBuffer
                       ELSE Put(answerBuffer, busy, <<>>)
    /\ UNCHANGED <<hosts, queues, busy, buf, onLine, leftOver, daemon, fromDaemon,
                   alive, sends>>

\* Bug: only sendRequest() calls executeCommand().
ParseEndOnly ==
    /\ pc = "parse" /\ buf = <<>>
    /\ pc' = "loop" /\ busy' = None
    /\ UNCHANGED <<hosts, queues, onLine, answerBuffer, leftOver, daemon,
                   fromDaemon, alive, sends, buf, call>>

\* The end of the buffer: one more command may go out.
ParseEnd ==
    /\ pc = "parse" /\ buf = <<>>
    /\ ExecuteCommand(busy, inputFIFO[busy])
    /\ pc' = "loop" /\ busy' = None
    /\ UNCHANGED <<hosts, onLine, answerBuffer, leftOver, daemon, fromDaemon, alive,
                   sends, buf, call>>

\* msgSent(), when the event loop has written the rest: one more command.  Its
\* own flush() does not call msgSent() again.
MsgSent(a) ==
    /\ pc = "loop" /\ status[a] = "alive" /\ unsent[a]
    /\ IF onLine[a] /\ inputFIFO[a] # <<>>
       THEN /\ WriteFirst(a, inputFIFO[a])
            /\ \E left \in BOOLEAN : unsent' = Put(unsent, a, left)
       ELSE /\ unsent' = Put(unsent, a, FALSE)
            /\ UNCHANGED <<inputFIFO, processingFIFO, toDaemon>>
    /\ UNCHANGED <<hosts, reader, onLine, answerBuffer, leftOver, daemon, fromDaemon,
                   alive, sends>>

------------------------------------------------------------------------------
(* The connection ends, and the daemon itself                               *)

\* Bug: the agent stays in the map of a host that is off line.
DaemonExitedStay(a) ==
    /\ pc = "loop" /\ daemon[a] = "dead" /\ status[a] = "alive"
    /\ onLine' = Put(onLine, a, FALSE)
    /\ UNCHANGED <<hosts, queues, reader, answerBuffer, leftOver, daemon,
                   fromDaemon, alive, sends>>

\* daemonExited(), daemonError(), connectionClosed()
DaemonExited(a) ==
    /\ pc = "loop" /\ daemon[a] = "dead" /\ status[a] = "alive"
    /\ onLine' = Put(onLine, a, FALSE)
    /\ agent' = IF agent = a THEN None ELSE agent
    /\ status' = Put(status, a, "doomed")
    /\ UNCHANGED <<made, queues, reader, answerBuffer, leftOver, daemon, fromDaemon,
                   alive, sends>>

DaemonDies(a) ==
    /\ status[a] # "none" /\ daemon[a] = "up"
    /\ daemon' = Put(daemon, a, "dead")
    /\ toDaemon' = Put(toDaemon, a, <<>>)
    /\ unsent' = Put(unsent, a, FALSE)
    /\ UNCHANGED <<hosts, inputFIFO, processingFIFO, reader, onLine, answerBuffer,
                   leftOver, fromDaemon, alive, sends>>

\* ksysguardd executes a command line and prints its prompt; an unknown command
\* has an answer too.  print_error() may put a message before or after the
\* answer; readCommand() cuts a long line in two commands it does not know.
Answers(q) ==
    LET line == <<Token("line", q)>>
        msg  == <<Token("open", None), Token("close", None)>>
        end  == <<Token("prompt", q)>>
    IN  IF q \in Long THEN {line \o end \o line \o end}
        ELSE {end, line \o end, line \o msg \o end, msg \o line \o end}

DaemonServes(a) ==
    /\ daemon[a] = "up" /\ toDaemon[a] # <<>>
    /\ \E out \in Answers(Head(toDaemon[a])) :
         fromDaemon' = Put(fromDaemon, a, fromDaemon[a] \o out)
    /\ toDaemon' = Put(toDaemon, a, Tail(toDaemon[a]))
    /\ UNCHANGED <<hosts, inputFIFO, processingFIFO, unsent, reader, onLine, answerBuffer,
                   leftOver, daemon, alive, sends>>

------------------------------------------------------------------------------
Parse == ParseLine \/ ParseMessage \/ ParsePrompt \/ Return \/ ParseEnd

Next ==
    \/ \E c \in Clients, q \in Queries : SendRequest(c, q) \/ Reengage(c, q)
    \/ Engage \/ Disengage
    \/ \E c \in Clients : Destroy(c)
    \/ Parse
    \/ \E a \in Agents : DeleteLater(a) \/ MsgSent(a) \/ DaemonExited(a)
                         \/ DaemonDies(a) \/ DaemonServes(a)
    \/ \E a \in Agents : \E n \in 0 .. Len(fromDaemon[a]) : Read(a, n)

Spec == Init /\ [][Next]_vars

\* A handler runs to its end, and the event loop serves every source of events,
\* however often others come first: tokens (they have finitely many bytes),
\* exits and deletions.  A daemon answers the commands it has read.
Fairness ==
    /\ WF_vars(Parse)
    /\ \A a \in Agents :
         /\ SF_vars(\E n \in 1 .. Len(fromDaemon[a]) : Read(a, n))
         /\ SF_vars(DeleteLater(a)) /\ SF_vars(DaemonExited(a))
         /\ WF_vars(DaemonServes(a))

FairSpec == Spec /\ Fairness

------------------------------------------------------------------------------
\* The range of every variable; the map holds an agent that lives, and a buffer
\* is being parsed exactly when the thread is in processAnswer().
TypeOK ==
    /\ made \in 0 .. MaxAgents
    /\ status \in [Agents -> {"none", "alive", "doomed", "deleted"}]
    /\ agent # None => agent \in 1 .. made /\ status[agent] = "alive"
    /\ onLine \in [Agents -> BOOLEAN]
    /\ inputFIFO \in [Agents -> Seq(Requests)]
    /\ processingFIFO \in [Agents -> Seq(Requests)]
    /\ answerBuffer \in [Agents -> Seq(Tokens)]
    /\ leftOver \in [Agents -> Seq(Tokens)]
    /\ daemon \in [Agents -> {"up", "dead"}]
    /\ toDaemon \in [Agents -> Seq(Queries)]
    /\ fromDaemon \in [Agents -> Seq(Tokens)]
    /\ unsent \in [Agents -> BOOLEAN]
    /\ pc \in {"loop", "parse", "callback"}
    /\ IF pc = "loop" THEN busy = None ELSE busy \in Agents
    /\ buf \in Seq(Tokens)
    /\ call = None \/ call \in Deliveries
    /\ alive \subseteq Clients
    /\ sends \in 0 .. MaxSends

\* The requests that wait, in the order in which they will be answered.
Fifo(a) == processingFIFO[a] \o inputFIFO[a]

\* A request that waits is not sent again: the periodic timers of the displays
\* do not pile up requests in front of a slow daemon (sendRequest).
Distinct(fifo) ==
    \A i, j \in 1 .. Len(fifo) :
      fifo[i] = fifo[j] /\ fifo[i].client # None => i = j
NoDuplicate == \A a \in Agents : Distinct(Fifo(a))

\* Every answer reaches the request it answers, whatever arrives with it in one
\* chunk, whoever disappeared in between, and whatever call backs send.
Routed ==
    call # None =>
      /\ call.of = call.request.query
      /\ \A i \in 1 .. Len(call.answer) : call.answer[i].of = call.request.query

\* A request waits for its turn only behind one that is being answered: the
\* next chunk, which sends it, is sure to come.
InputWaits ==
    \A a \in Agents :
      pc = "loop" /\ status[a] = "alive" /\ onLine[a] /\ inputFIFO[a] # <<>> =>
        processingFIFO[a] # <<>> \/ leftOver[a] # <<>>

\* SensorAgent.cpp, processAnswer: "The client has disappeared before receiving
\* the answer to his request" is what a null client stands for: no agent that
\* the manager knows keeps a client that is gone.
Known(fifo) == \A i \in 1 .. Len(fifo) : fifo[i].client \in alive \cup {None}
KnownClients == agent # None => Known(Fifo(agent))

\* The requests written and the answers on their way are in the same order: what
\* is at place i of the input belongs to the request at place Turn in the FIFO,
\* and the commands the daemon has not read yet are those of the last ones.
Turn(tokens, i) == 1 + Cardinality({j \in 1 .. i - 1 : tokens[j].kind = "prompt"})
InFlight(a) == (IF busy = a THEN buf ELSE <<>>) \o leftOver[a] \o fromDaemon[a]
Aligned ==
    \A a \in Agents :
      daemon[a] = "up" /\ onLine[a] =>
        LET tokens == InFlight(a)
            answered == Turn(tokens, Len(tokens) + 1) - 1
        IN  /\ Len(processingFIFO[a]) = answered + Len(toDaemon[a])
            /\ \A i \in 1 .. Len(tokens) : tokens[i].kind \in {"line", "prompt"} =>
                 tokens[i].of = processingFIFO[a][Turn(tokens, i)].query
            /\ \A i \in 1 .. Len(toDaemon[a]) :
                 toDaemon[a][i] = processingFIFO[a][answered + i].query

\* No request waits for ever: it is answered, or its client or the connection
\* goes away.
Waiting(a, r) == Has(inputFIFO[a], r) \/ Has(processingFIFO[a], r)
Answered ==
    \A a \in Agents, c \in Clients, q \in Queries :
      LET r == [client |-> c, query |-> q] IN Waiting(a, r) ~> ~Waiting(a, r)

==============================================================================
