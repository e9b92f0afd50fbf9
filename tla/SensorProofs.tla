----------------------------- MODULE SensorProofs -----------------------------
(* Proofs about SensorAgent for any number of clients, queries and agents.   *)
EXTENDS SensorAgent, SequenceTheorems, FiniteSetTheorems, WellFoundedInduction, TLAPS

\* One agent's part of a variable is changed.
LEMMA PutType ==
    ASSUME NEW S, NEW f \in [Agents -> S], NEW a \in Agents, NEW v \in S
    PROVE  Put(f, a, v) \in [Agents -> S]
BY DEF Put

\* What sequences of a set look like after the operations of the agent.
LEMMA SeqFacts ==
    ASSUME NEW S
    PROVE  /\ <<>> \in Seq(S)
           /\ \A s \in Seq(S), x \in S : Append(s, x) \in Seq(S)
           /\ \A s, t \in Seq(S) : s \o t \in Seq(S)
           /\ \A s \in Seq(S) : s # <<>> => Head(s) \in S /\ Tail(s) \in Seq(S)
           /\ \A s \in Seq(S) : Len(s) > 0 => s # <<>>
           /\ \A s \in Seq(S), m \in Nat, n \in Nat : n <= Len(s) /\ m >= 1 =>
                SubSeq(s, m, n) \in Seq(S)
OBVIOUS

\* A client that is gone leaves its requests in place, without a client.
LEMMA WithoutFacts ==
    ASSUME NEW s \in Seq(Requests), NEW c \in Clients
    PROVE  /\ Without(s, c) \in Seq(Requests)
           /\ Len(Without(s, c)) = Len(s)
           /\ \A i \in 1 .. Len(s) :
                Without(s, c)[i] = IF s[i].client = c
                                   THEN [client |-> None, query |-> s[i].query]
                                   ELSE s[i]
<1>0. \A r \in Requests :
         [r EXCEPT !.client = None] = [client |-> None, query |-> r.query]
  BY DEF Requests
<1>1. \A i \in 1 .. Len(s) :
         /\ s[i] \in Requests
         /\ [s[i] EXCEPT !.client = None] = [client |-> None, query |-> s[i].query]
  BY <1>0
<1>2. \A i \in 1 .. Len(s) : Without(s, c)[i] \in Requests
  BY <1>1 DEF Without, Requests
<1>3. Len(s) \in Nat /\ Without(s, c) = [i \in 1 .. Len(s) |-> Without(s, c)[i]]
  BY DEF Without
<1> QED
  BY <1>1, <1>2, <1>3 DEF Without

\* executeCommand() keeps the types of the queues.
QueuesOK ==
    /\ inputFIFO \in [Agents -> Seq(Requests)]
    /\ processingFIFO \in [Agents -> Seq(Requests)]
    /\ toDaemon \in [Agents -> Seq(Queries)]
    /\ unsent \in [Agents -> BOOLEAN]

LEMMA WriteFirstType ==
    ASSUME QueuesOK, NEW a \in Agents, NEW in \in Seq(Requests), in # <<>>,
           WriteFirst(a, in)
    PROVE  /\ inputFIFO' \in [Agents -> Seq(Requests)]
           /\ processingFIFO' \in [Agents -> Seq(Requests)]
           /\ toDaemon' \in [Agents -> Seq(Queries)]
<1>1. Head(in) \in Requests /\ Tail(in) \in Seq(Requests)
  BY SeqFacts
<1>2. Head(in).query \in Queries
  BY <1>1 DEF Requests
<1>3. Append(processingFIFO[a], Head(in)) \in Seq(Requests)
  BY <1>1 DEF QueuesOK
<1>4. Append(toDaemon[a], Head(in).query) \in Seq(Queries)
  BY <1>2 DEF QueuesOK
<1> QED
  BY <1>1, <1>3, <1>4 DEF QueuesOK, WriteFirst, Put

LEMMA TwoFacts ==
    ASSUME NEW S, NEW in \in Seq(S), Len(in) > 1
    PROVE  /\ in[1] \in S /\ in[2] \in S
           /\ Tail(Tail(in)) \in Seq(S)
           /\ Len(Tail(Tail(in))) = Len(in) - 2
           /\ \A i \in 1 .. Len(in) - 2 : Tail(Tail(in))[i] = in[i + 2]
<1>1. /\ Tail(in) \in Seq(S) /\ Len(Tail(in)) = Len(in) - 1 /\ Len(in) \in Nat
      /\ \A i \in 1 .. Len(in) - 1 : Tail(in)[i] = in[i + 1]
  BY HeadTailProperties
<1>2. Tail(in) # <<>>
  <2>1. Len(Tail(in)) > 0
    BY <1>1
  <2> QED
    BY <1>1, <2>1, SeqFacts
<1>3. /\ Tail(Tail(in)) \in Seq(S) /\ Len(Tail(Tail(in))) = Len(Tail(in)) - 1
      /\ \A i \in 1 .. Len(Tail(in)) - 1 : Tail(Tail(in))[i] = Tail(in)[i + 1]
  BY <1>1, <1>2, HeadTailProperties
<1> QED
  BY <1>1, <1>3

LEMMA WriteNestedType ==
    ASSUME QueuesOK, NEW a \in Agents, NEW in \in Seq(Requests), WriteNested(a, in)
    PROVE  /\ inputFIFO' \in [Agents -> Seq(Requests)]
           /\ processingFIFO' \in [Agents -> Seq(Requests)]
           /\ toDaemon' \in [Agents -> Seq(Queries)]
<1>1. /\ in[1] \in Requests /\ in[2] \in Requests
      /\ Tail(Tail(in)) \in Seq(Requests)
  BY TwoFacts DEF WriteNested
<1>2. in[1].query \in Queries /\ in[2].query \in Queries
  BY <1>1 DEF Requests
<1>3. Append(Append(processingFIFO[a], in[2]), in[1]) \in Seq(Requests)
  BY <1>1 DEF QueuesOK
<1>4. Append(Append(toDaemon[a], in[1].query), in[2].query) \in Seq(Queries)
  BY <1>2 DEF QueuesOK
<1> QED
  BY <1>1, <1>3, <1>4 DEF QueuesOK, WriteNested, Put

LEMMA ExecuteType ==
    ASSUME QueuesOK, NEW a \in Agents, NEW in \in Seq(Requests), ExecuteCommand(a, in)
    PROVE  QueuesOK'
<1>1. CASE onLine[a] /\ in # <<>>
  <2>1. unsent' \in [Agents -> BOOLEAN]
    BY <1>1 DEF QueuesOK, ExecuteCommand, Put
  <2>2. WriteFirst(a, in) \/ WriteNested(a, in)
    BY <1>1 DEF ExecuteCommand
  <2> QED
    BY <1>1, <2>1, <2>2, WriteFirstType, WriteNestedType DEF QueuesOK
<1>2. CASE ~(onLine[a] /\ in # <<>>)
  BY <1>2 DEF QueuesOK, ExecuteCommand, Put
<1> QED
  BY <1>1, <1>2

LEMMA SendType ==
    ASSUME QueuesOK, NEW a \in Agents, NEW r \in Requests, AgentSendRequest(a, r)
    PROVE  QueuesOK'
<1>1. inputFIFO[a] \in Seq(Requests) /\ Append(inputFIFO[a], r) \in Seq(Requests)
  BY DEF QueuesOK
<1>2. CASE UNCHANGED queues
  BY <1>2 DEF QueuesOK, queues
<1> QED
  BY <1>1, <1>2, ExecuteType DEF AgentSendRequest

LEMMA InitType == Init => TypeOK
BY SensorAssumption DEF Init, TypeOK, Agents, Requests, Tokens

LEMMA NextType == TypeOK /\ [Next]_vars => TypeOK'
<1> SUFFICES ASSUME TypeOK, [Next]_vars PROVE TypeOK'
  OBVIOUS
<1> USE SensorAssumption
<1>q. QueuesOK
  BY DEF TypeOK, QueuesOK
<1>1. ASSUME NEW c \in Clients, NEW q \in Queries, SendRequest(c, q) PROVE TypeOK'
  <2>1. agent \in Agents /\ [client |-> c, query |-> q] \in Requests
    BY <1>1 DEF SendRequest, TypeOK, Agents, Requests
  <2>2. QueuesOK'
    BY <1>1, <1>q, <2>1, SendType DEF SendRequest
  <2> QED
    BY <1>1, <2>2 DEF SendRequest, Calling, TypeOK, QueuesOK, hosts, reader
<1>a. NewAgent =>
        /\ made' \in 0 .. MaxAgents /\ agent' \in 1 .. made' /\ made + 1 \in Agents
        /\ status' \in [Agents -> {"none", "alive", "doomed", "deleted"}]
        /\ status'[agent'] = "alive"
        /\ fromDaemon' \in [Agents -> Seq(Tokens)]
  <2>1. <<Token("line", None), Token("prompt", None)>> \in Seq(Tokens)
    BY DEF Token, Tokens
  <2> QED
    BY <2>1 DEF NewAgent, TypeOK, Agents, Put
<1>2. ASSUME NEW c \in Clients, NEW q \in Queries, Reengage(c, q) PROVE TypeOK'
  <2>1. <<[client |-> c, query |-> q]>> \in Seq(Requests)
    BY DEF Requests
  <2>2. inputFIFO' \in [Agents -> Seq(Requests)]
    BY <1>2, <2>1 DEF Reengage, TypeOK, Put
  <2>3. sends' \in 0 .. MaxSends
    BY <1>2 DEF Reengage, Calling, TypeOK
  <2> QED
    BY <1>2, <1>a, <2>2, <2>3 DEF Reengage, TypeOK, reader
<1>16. CASE Engage
  BY <1>16, <1>a DEF Engage, TypeOK, reader, queues
<1>17. ASSUME NEW a \in Agents, MsgSent(a) PROVE TypeOK'
  <2>1. CASE onLine[a] /\ inputFIFO[a] # <<>>
    <3>1. inputFIFO[a] \in Seq(Requests) /\ WriteFirst(a, inputFIFO[a])
      BY <1>17, <2>1 DEF MsgSent, TypeOK
    <3>2. QueuesOK'
      BY <1>17, <1>q, <2>1, <3>1, WriteFirstType DEF MsgSent, QueuesOK, Put
    <3> QED
      BY <1>17, <3>2 DEF MsgSent, TypeOK, QueuesOK, hosts, reader
  <2>2. CASE ~(onLine[a] /\ inputFIFO[a] # <<>>)
    BY <1>17, <2>2 DEF MsgSent, TypeOK, hosts, reader, Put
  <2> QED
    BY <2>1, <2>2
<1>3. CASE Disengage
  BY <1>3 DEF Disengage, TypeOK, queues, reader, Put, Agents
<1>4. ASSUME NEW c \in Clients, Destroy(c) PROVE TypeOK'
  <2>1. CASE c \in Careless \/ agent = None
    BY <1>4, <2>1 DEF Destroy, TypeOK, hosts, reader
  <2>2. CASE ~(c \in Careless \/ agent = None)
    <3>1. agent \in Agents
      BY <2>2 DEF TypeOK, Agents
    <3>2. /\ Without(inputFIFO[agent], c) \in Seq(Requests)
          /\ Without(processingFIFO[agent], c) \in Seq(Requests)
      BY <3>1, WithoutFacts DEF TypeOK
    <3>3. QueuesOK'
      BY <1>4, <1>q, <2>2, <3>1, <3>2 DEF Destroy, QueuesOK, Put
    <3> QED
      BY <1>4, <2>2, <3>3 DEF Destroy, TypeOK, QueuesOK, hosts, reader
  <2> QED
    BY <2>1, <2>2
<1>5. CASE ParseLine
  <2>1. busy \in Agents /\ Head(buf) \in Tokens /\ Tail(buf) \in Seq(Tokens)
    BY <1>5 DEF ParseLine, Parsing, TypeOK
  <2>2. Append(answerBuffer[busy], Head(buf)) \in Seq(Tokens)
    BY <2>1 DEF TypeOK
  <2> QED
    BY <1>5, <2>1, <2>2 DEF ParseLine, Parsing, TypeOK, hosts, queues, Put
<1>6. CASE ParseMessage
  <2>1. busy \in Agents /\ Tail(buf) \in Seq(Tokens)
    BY <1>6 DEF ParseMessage, Parsing, TypeOK
  <2>2. buf \in Seq(Tokens) /\ buf # <<>>
    BY <1>6 DEF ParseMessage, Parsing, TypeOK
  <2>3. CASE Len(buf) > 1 /\ buf' = Tail(Tail(buf)) /\ pc' \in {"parse", "callback"}
             /\ UNCHANGED <<leftOver, busy>>
    <3>1. Len(Tail(buf)) > 0
      BY <2>2, <2>3, HeadTailProperties
    <3>2. Tail(Tail(buf)) \in Seq(Tokens)
      BY <2>1, <3>1, SeqFacts
    <3> QED
      BY <1>6, <2>1, <2>3, <3>2 DEF ParseMessage, TypeOK, hosts, queues
  <2>4. CASE Len(buf) = 1 /\ leftOver' = Put(leftOver, busy, buf)
             /\ buf' = <<>> /\ pc' = "loop" /\ busy' = None
    <3>1. leftOver' \in [Agents -> Seq(Tokens)] /\ buf' \in Seq(Tokens)
      BY <2>1, <2>2, <2>4, SeqFacts DEF TypeOK, Put
    <3> QED
      BY <1>6, <2>4, <3>1 DEF ParseMessage, TypeOK, hosts, queues
  <2> QED
    BY <1>6, <2>3, <2>4 DEF ParseMessage
<1>7. CASE ParsePrompt
  <2>1. busy \in Agents /\ Head(buf) \in Tokens /\ Tail(buf) \in Seq(Tokens)
    BY <1>7 DEF ParsePrompt, Parsing, TypeOK
  <2>2. processingFIFO[busy] # <<>> =>
          /\ Head(processingFIFO[busy]) \in Requests
          /\ Tail(processingFIFO[busy]) \in Seq(Requests)
    BY <2>1 DEF TypeOK
  <2>3. Head(buf).of \in Queries \cup {None}
    BY <2>1 DEF Tokens
  <2>4. call' = None \/ call' \in Deliveries
    BY <1>7, <2>1, <2>2, <2>3 DEF ParsePrompt, TypeOK, Deliveries
  <2>5. processingFIFO' \in [Agents -> Seq(Requests)]
    BY <1>7, <2>1, <2>2 DEF ParsePrompt, TypeOK, Put
  <2>a. <<>> \in Seq(Tokens)
    BY SeqFacts
  <2>b. answerBuffer' = answerBuffer \/ answerBuffer' = Put(answerBuffer, busy, <<>>)
    BY <1>7 DEF ParsePrompt
  <2>c. answerBuffer' \in [Agents -> Seq(Tokens)]
    <3>1. answerBuffer \in [Agents -> Seq(Tokens)]
      BY DEF TypeOK
    <3>2. Put(answerBuffer, busy, <<>>) \in [Agents -> Seq(Tokens)]
      BY <2>1, <2>a, <3>1, PutType
    <3> QED
      BY <2>b, <3>1, <3>2
  <2>d. onLine' \in [Agents -> BOOLEAN]
    BY <1>7, <2>1 DEF ParsePrompt, TypeOK, Put
  <2>6. answerBuffer' \in [Agents -> Seq(Tokens)] /\ onLine' \in [Agents -> BOOLEAN]
    BY <2>c, <2>d
  <2>7. pc' \in {"parse", "callback"}
    BY <1>7 DEF ParsePrompt, Parsing
  <2> QED
    BY <1>7, <2>1, <2>4, <2>5, <2>6, <2>7 DEF ParsePrompt, TypeOK, hosts
<1>8. CASE Return
  BY <1>8 DEF Return, TypeOK, hosts, queues, Put
<1>9. CASE ParseEnd
  <2>1. busy \in Agents
    BY <1>9 DEF ParseEnd, TypeOK
  <2>2. QueuesOK'
    BY <1>9, <1>q, <2>1, ExecuteType DEF ParseEnd, TypeOK
  <2> QED
    BY <1>9, <2>2 DEF ParseEnd, TypeOK, QueuesOK, hosts
<1>10. ASSUME NEW a \in Agents, DeleteLater(a) PROVE TypeOK'
  BY <1>10 DEF DeleteLater, TypeOK, reader, Put
<1>11. ASSUME NEW a \in Agents, DaemonExited(a) PROVE TypeOK'
  <2>1. /\ onLine' \in [Agents -> BOOLEAN]
        /\ status' \in [Agents -> {"none", "alive", "doomed", "deleted"}]
    BY <1>11 DEF DaemonExited, TypeOK, Put
  <2>2. agent' # None => agent' \in 1 .. made' /\ status'[agent'] = "alive"
    <3> SUFFICES ASSUME agent' # None
                 PROVE  agent' \in 1 .. made' /\ status'[agent'] = "alive"
      OBVIOUS
    <3>1. agent' = agent /\ agent # a /\ made' = made /\ status' = Put(status, a, "doomed")
      BY <1>11 DEF DaemonExited
    <3>2. agent \in 1 .. made /\ status[agent] = "alive" /\ agent \in Agents
      BY <3>1 DEF TypeOK, Agents
    <3>3. status'[agent] = status[agent]
      BY <3>1, <3>2 DEF Put, TypeOK
    <3> QED
      BY <3>1, <3>2, <3>3
  <2> QED
    BY <1>11, <2>1, <2>2 DEF DaemonExited, TypeOK, queues, reader
<1>12. ASSUME NEW a \in Agents, DaemonDies(a) PROVE TypeOK'
  BY <1>12 DEF DaemonDies, TypeOK, hosts, reader, Put
<1>13. ASSUME NEW a \in Agents, DaemonServes(a) PROVE TypeOK'
  <2>1. Head(toDaemon[a]) \in Queries /\ Tail(toDaemon[a]) \in Seq(Queries)
    BY <1>13 DEF DaemonServes, TypeOK
  <2>2. \A out \in Answers(Head(toDaemon[a])) : out \in Seq(Tokens)
    <3>1. \A k \in {"line", "open", "close", "prompt"} :
            Token(k, None) \in Tokens /\ Token(k, Head(toDaemon[a])) \in Tokens
      BY <2>1 DEF Token, Tokens
    <3> DEFINE q == Head(toDaemon[a])
    <3>2. /\ <<Token("prompt", q)>> \in Seq(Tokens)
          /\ <<Token("line", q)>> \in Seq(Tokens)
          /\ <<Token("open", None), Token("close", None)>> \in Seq(Tokens)
      BY <3>1
    <3> HIDE DEF q
    <3>3. ASSUME NEW out \in Answers(q)
          PROVE  out \in Seq(Tokens)
      <4> DEFINE P == <<Token("prompt", q)>>
                 L == <<Token("line", q)>>
                 M == <<Token("open", None), Token("close", None)>>
      <4>1. out \in {L \o P \o L \o P, P, L \o P, L \o M \o P, M \o L \o P}
        BY <3>3 DEF Answers
      <4>2. P \in Seq(Tokens) /\ L \in Seq(Tokens) /\ M \in Seq(Tokens)
        BY <3>2
      <4> HIDE DEF P, L, M
      <4>3. /\ L \o P \in Seq(Tokens)
            /\ L \o M \in Seq(Tokens) /\ M \o L \in Seq(Tokens)
        BY <4>2, SeqFacts
      <4>4. L \o P \o L \in Seq(Tokens)
        BY <4>2, <4>3, SeqFacts
      <4>5. L \o P \o L \o P \in Seq(Tokens)
        BY <4>2, <4>4, SeqFacts
      <4>6. L \o M \o P \in Seq(Tokens) /\ M \o L \o P \in Seq(Tokens)
        BY <4>2, <4>3, SeqFacts
      <4> QED
        BY <4>1, <4>2, <4>3, <4>5, <4>6, Zenon
    <3> QED
      BY <3>3 DEF q
  <2>3. \A out \in Answers(Head(toDaemon[a])) : fromDaemon[a] \o out \in Seq(Tokens)
    BY <2>2 DEF TypeOK
  <2> QED
    BY <1>13, <2>1, <2>3 DEF DaemonServes, TypeOK, hosts, reader, Put
<1>14. ASSUME NEW a \in Agents, NEW n \in 0 .. Len(fromDaemon[a]), Read(a, n)
       PROVE  TypeOK'
  <2>1. /\ SubSeq(fromDaemon[a], 1, n) \in Seq(Tokens)
        /\ SubSeq(fromDaemon[a], n + 1, Len(fromDaemon[a])) \in Seq(Tokens)
    BY DEF TypeOK
  <2>2. leftOver[a] \o SubSeq(fromDaemon[a], 1, n) \in Seq(Tokens)
    BY <2>1 DEF TypeOK
  <2> QED
    BY <1>14, <2>1, <2>2 DEF Read, TypeOK, hosts, queues, Put
<1>15. CASE UNCHANGED vars
  BY <1>15 DEF TypeOK, vars, hosts, queues, reader
<1> QED
  BY <1>1, <1>2, <1>3, <1>4, <1>5, <1>6, <1>7, <1>8, <1>9, <1>10, <1>11, <1>12,
     <1>13, <1>14, <1>15, <1>16, <1>17 DEF Next, Parse

\* Every variable stays in its range, and the manager never keeps an agent that
\* is doomed.
THEOREM SensorTypeCorrect == Spec => []TypeOK
<1>1. Init => TypeOK
  BY InitType
<1>2. TypeOK /\ [Next]_vars => TypeOK'
  BY NextType
<1> QED
  BY <1>1, <1>2, PTL DEF Spec

------------------------------------------------------------------------------
(* The order of the requests.  Every operation leaves it alone, appends to it *)
(* or takes its head away, whatever moves from one FIFO to the other.         *)

LEMMA MoveKeepsOrder ==
    ASSUME NEW S, NEW s \in Seq(S), NEW t \in Seq(S), t # <<>>
    PROVE  Append(s, Head(t)) \o Tail(t) = s \o t
<1>1. Head(t) \in S /\ Tail(t) \in Seq(S) /\ t = <<Head(t)>> \o Tail(t)
  OBVIOUS
<1>2. Append(s, Head(t)) = s \o <<Head(t)>>
  BY <1>1, AppendIsConcat
<1> QED
  BY <1>1, <1>2, ConcatAssociative

LEMMA AppendToSecond ==
    ASSUME NEW S, NEW s \in Seq(S), NEW t \in Seq(S), NEW x \in S
    PROVE  s \o Append(t, x) = Append(s \o t, x)
<1>1. Append(t, x) = t \o <<x>> /\ <<x>> \in Seq(S) /\ s \o t \in Seq(S)
  BY AppendIsConcat
<1>2. Append(s \o t, x) = (s \o t) \o <<x>>
  BY <1>1, AppendIsConcat
<1> QED
  BY <1>1, <1>2, ConcatAssociative

LEMMA TailOfFirst ==
    ASSUME NEW S, NEW s \in Seq(S), NEW t \in Seq(S), s # <<>>
    PROVE  s \o t # <<>> /\ Tail(s) \o t = Tail(s \o t)
OBVIOUS

LEMMA HasConcat ==
    ASSUME NEW S, NEW s \in Seq(S), NEW t \in Seq(S), NEW x, Has(s \o t, x)
    PROVE  Has(s, x) \/ Has(t, x)
BY DEF Has

LEMMA DistinctFacts ==
    ASSUME NEW s \in Seq(Requests), Distinct(s)
    PROVE  /\ \A r \in Requests : ~Has(s, r) => Distinct(Append(s, r))
           /\ s # <<>> => Distinct(Tail(s))
<1>1. ASSUME NEW r \in Requests, ~Has(s, r) PROVE Distinct(Append(s, r))
  BY <1>1, AppendProperties DEF Distinct, Has
<1>2. ASSUME s # <<>> PROVE Distinct(Tail(s))
  <2>1. /\ Len(s) \in Nat /\ Len(Tail(s)) = Len(s) - 1
        /\ \A i \in 1 .. Len(Tail(s)) : Tail(s)[i] = s[i + 1]
    BY <1>2, HeadTailProperties
  <2> QED
    BY <2>1 DEF Distinct
<1> QED
  BY <1>1, <1>2

LEMMA KnownFacts ==
    ASSUME NEW s \in Seq(Requests), Known(s)
    PROVE  /\ \A r \in Requests : r.client \in alive => Known(Append(s, r))
           /\ s # <<>> => Known(Tail(s))
<1>1. ASSUME NEW r \in Requests, r.client \in alive PROVE Known(Append(s, r))
  BY <1>1, AppendProperties DEF Known
<1>2. ASSUME s # <<>> PROVE Known(Tail(s))
  <2>1. /\ Len(s) \in Nat /\ Len(Tail(s)) = Len(s) - 1
        /\ \A i \in 1 .. Len(Tail(s)) : Tail(s)[i] = s[i + 1]
    BY <1>2, HeadTailProperties
  <2> QED
    BY <2>1 DEF Known
<1> QED
  BY <1>1, <1>2

\* disconnectClient() on both FIFOs: no two requests become equal, except of
\* clients that are gone, and the client is in neither.
LEMMA WithoutBoth ==
    ASSUME NEW s \in Seq(Requests), NEW t \in Seq(Requests), NEW c \in Clients
    PROVE  /\ Distinct(s \o t) => Distinct(Without(s, c) \o Without(t, c))
           /\ LET u == Without(s, c) \o Without(t, c) IN
              /\ Len(u) = Len(s \o t)
              /\ \A i \in 1 .. Len(u) :
                   u[i] = IF (s \o t)[i].client = c
                          THEN [client |-> None, query |-> (s \o t)[i].query]
                          ELSE (s \o t)[i]
<1> DEFINE u == Without(s, c) \o Without(t, c)
<1>1. /\ Len(s) \in Nat /\ Len(t) \in Nat
      /\ Without(s, c) \in Seq(Requests) /\ Without(t, c) \in Seq(Requests)
      /\ Len(Without(s, c)) = Len(s) /\ Len(Without(t, c)) = Len(t)
  BY WithoutFacts
<1>2. Len(u) = Len(s) + Len(t) /\ Len(s \o t) = Len(s) + Len(t)
  BY <1>1
<1>3. ASSUME NEW i \in 1 .. Len(u)
      PROVE  u[i] = IF (s \o t)[i].client = c
                    THEN [client |-> None, query |-> (s \o t)[i].query]
                    ELSE (s \o t)[i]
  <2>1. CASE i <= Len(s)
    <3>1. u[i] = Without(s, c)[i] /\ (s \o t)[i] = s[i]
      BY <1>1, <1>2, <2>1
    <3> QED
      BY <1>1, <1>2, <2>1, <3>1, WithoutFacts
  <2>2. CASE i > Len(s)
    <3>1. u[i] = Without(t, c)[i - Len(s)] /\ (s \o t)[i] = t[i - Len(s)]
          /\ i - Len(s) \in 1 .. Len(t)
      BY <1>1, <1>2, <2>2
    <3> QED
      BY <3>1, WithoutFacts
  <2> QED
    BY <1>1, <1>2, <2>1, <2>2
<1>4. ASSUME Distinct(s \o t) PROVE Distinct(u)
  <2> SUFFICES ASSUME NEW i \in 1 .. Len(u), NEW j \in 1 .. Len(u),
                      u[i] = u[j], u[i].client # None
               PROVE  i = j
    BY DEF Distinct
  <2> HIDE DEF u
  <2>1. \A k \in 1 .. Len(u) : u[k].client # None => u[k] = (s \o t)[k]
    <3> SUFFICES ASSUME NEW k \in 1 .. Len(u), (s \o t)[k].client = c
                 PROVE  u[k].client = None
      BY <1>3
    <3>1. u[k] = [client |-> None, query |-> (s \o t)[k].query]
      BY <1>3
    <3> QED
      BY <3>1
  <2> QED
    BY <1>2, <1>4, <2>1 DEF Distinct
<1> QED
  BY <1>2, <1>3, <1>4

\* The same requests, with at most two neighbours exchanged: what a nested
\* msgSent() does to them.
Exchanged(s, t, k) ==
    \A i \in 1 .. Len(s) : t[i] = s[IF i = k THEN k + 1 ELSE IF i = k + 1 THEN k ELSE i]
Same(s, t) ==
    \/ t = s
    \/ Len(t) = Len(s) /\ \E k \in 1 .. Len(s) - 1 : Exchanged(s, t, k)

LEMMA SameFacts ==
    ASSUME NEW s \in Seq(Requests), NEW t, Same(s, t)
    PROVE  (Distinct(s) => Distinct(t)) /\ (Known(s) => Known(t))
<1>1. CASE t = s
  BY <1>1
<1>2. ASSUME Len(t) = Len(s), NEW k \in 1 .. Len(s) - 1, Exchanged(s, t, k)
      PROVE  (Distinct(s) => Distinct(t)) /\ (Known(s) => Known(t))
  <2> DEFINE w(i) == IF i = k THEN k + 1 ELSE IF i = k + 1 THEN k ELSE i
  <2>1. Len(s) \in Nat
    OBVIOUS
  <2>2. \A i \in 1 .. Len(s) : w(i) \in 1 .. Len(s)
    BY <2>1
  <2>3. \A i, j \in 1 .. Len(s) : w(i) = w(j) => i = j
    BY <2>1
  <2>4. \A i \in 1 .. Len(s) : t[i] = s[w(i)]
    BY <1>2 DEF Exchanged
  <2> HIDE DEF w
  <2>5. Distinct(s) => Distinct(t)
    <3> SUFFICES ASSUME Distinct(s), NEW i \in 1 .. Len(s), NEW j \in 1 .. Len(s),
                        t[i] = t[j], t[i].client # None
                 PROVE  i = j
      BY <1>2 DEF Distinct
    <3>1. s[w(i)] = s[w(j)] /\ s[w(i)].client # None
      BY <2>4
    <3>2. w(i) = w(j)
      BY <2>2, <3>1 DEF Distinct
    <3> QED
      BY <2>3, <3>2
  <2>6. Known(s) => Known(t)
    BY <1>2, <2>2, <2>4 DEF Known
  <2> QED
    BY <2>5, <2>6
<1> QED
  BY <1>1, <1>2 DEF Same

LEMMA NestedOrder ==
    ASSUME NEW S, NEW p \in Seq(S), NEW in \in Seq(S), Len(in) > 1
    PROVE  Same(p \o in, Append(Append(p, in[2]), in[1]) \o Tail(Tail(in)))
<1> DEFINE rest == Tail(Tail(in))
           q == Append(Append(p, in[2]), in[1])
           n == Len(p)
<1>1. /\ n \in Nat /\ Len(in) \in Nat /\ in[1] \in S /\ in[2] \in S
      /\ rest \in Seq(S) /\ Len(rest) = Len(in) - 2
      /\ \A i \in 1 .. Len(in) - 2 : rest[i] = in[i + 2]
  BY TwoFacts
<1> HIDE DEF rest
<1>2. /\ q \in Seq(S) /\ Len(q) = n + 2
      /\ \A i \in 1 .. n : q[i] = p[i]
      /\ q[n + 1] = in[2] /\ q[n + 2] = in[1]
  <2>1. /\ Append(p, in[2]) \in Seq(S) /\ Len(Append(p, in[2])) = n + 1
        /\ \A i \in 1 .. n : Append(p, in[2])[i] = p[i]
        /\ Append(p, in[2])[n + 1] = in[2]
    BY <1>1, AppendProperties
  <2> QED
    BY <1>1, <2>1, AppendProperties
<1> HIDE DEF q
<1>3. /\ Len(p \o in) = n + Len(in)
      /\ \A i \in 1 .. n + Len(in) : (p \o in)[i] = IF i <= n THEN p[i] ELSE in[i - n]
  BY <1>1, ConcatProperties
<1>4. /\ Len(q \o rest) = n + Len(in)
      /\ \A i \in 1 .. n + Len(in) :
           (q \o rest)[i] = IF i <= n + 2 THEN q[i] ELSE rest[i - (n + 2)]
  <2>1. /\ Len(q \o rest) = Len(q) + Len(rest)
        /\ \A i \in 1 .. Len(q) + Len(rest) :
             (q \o rest)[i] = IF i <= Len(q) THEN q[i] ELSE rest[i - Len(q)]
    BY <1>1, <1>2, ConcatProperties
  <2>2. Len(q) + Len(rest) = n + Len(in) /\ Len(q) = n + 2
    BY <1>1, <1>2
  <2> QED
    BY <2>1, <2>2
<1>n. n \in Nat
  BY <1>1
<1> HIDE DEF n
<1>5. ASSUME NEW i \in 1 .. n + Len(in)
      PROVE  (q \o rest)[i] =
               (p \o in)[IF i = n + 1 THEN n + 2 ELSE IF i = n + 2 THEN n + 1 ELSE i]
  <2>1. CASE i <= n
    BY <1>1, <1>2, <1>3, <1>4, <2>1
  <2>2. CASE i = n + 1
    <3>1. (q \o rest)[i] = in[2]
      BY <1>1, <1>2, <1>4, <2>2
    <3>2. (p \o in)[n + 2] = in[2]
      BY <1>1, <1>3
    <3> QED
      BY <2>2, <3>1, <3>2
  <2>3. CASE i = n + 2
    <3>1. (q \o rest)[i] = in[1]
      BY <1>1, <1>2, <1>4, <2>3
    <3>2. (p \o in)[n + 1] = in[1]
      BY <1>1, <1>3
    <3> QED
      BY <1>1, <2>3, <3>1, <3>2
  <2>4. CASE i > n + 2
    <3>1. (q \o rest)[i] = rest[i - (n + 2)] /\ i - (n + 2) \in 1 .. Len(in) - 2
      BY <1>1, <1>4, <2>4
    <3>2. rest[i - (n + 2)] = in[(i - (n + 2)) + 2]
      BY <1>1, <3>1
    <3>3. (p \o in)[i] = in[i - n] /\ (i - (n + 2)) + 2 = i - n
      BY <1>1, <1>3, <2>4
    <3>4. i # n + 1 /\ i # n + 2
      BY <1>n, <2>4
    <3> QED
      BY <3>1, <3>2, <3>3, <3>4
  <2>5. i <= n \/ i = n + 1 \/ i = n + 2 \/ i > n + 2
    BY <1>n, <1>1
  <2> QED
    BY <2>1, <2>2, <2>3, <2>4, <2>5
<1>6. n + 1 \in 1 .. Len(p \o in) - 1 /\ n + 1 + 1 = n + 2
  BY <1>1, <1>3
<1>7. Exchanged(p \o in, q \o rest, n + 1)
  BY <1>3, <1>5, <1>6 DEF Exchanged
<1> QED
  BY <1>3, <1>4, <1>6, <1>7 DEF Same, q, rest

LEMMA WriteFirstFifo ==
    ASSUME QueuesOK, NEW a \in Agents, NEW in \in Seq(Requests), in # <<>>,
           WriteFirst(a, in)
    PROVE  /\ Fifo(a)' = processingFIFO[a] \o in
           /\ \A b \in Agents \ {a} : Fifo(b)' = Fifo(b)
<1>1. processingFIFO[a] \in Seq(Requests)
  BY DEF QueuesOK
<1>2. Fifo(a)' = Append(processingFIFO[a], Head(in)) \o Tail(in)
  BY DEF WriteFirst, Fifo, Put, QueuesOK
<1> QED
  BY <1>1, <1>2, MoveKeepsOrder DEF WriteFirst, Fifo, Put, QueuesOK

LEMMA ExecuteFifo ==
    ASSUME QueuesOK, NEW a \in Agents, NEW in \in Seq(Requests), ExecuteCommand(a, in)
    PROVE  /\ Same(processingFIFO[a] \o in, Fifo(a)')
           /\ \A b \in Agents \ {a} : Fifo(b)' = Fifo(b)
<1>1. processingFIFO[a] \in Seq(Requests)
  BY DEF QueuesOK
<1>2. CASE in # <<>> /\ WriteFirst(a, in)
  BY <1>2, WriteFirstFifo DEF Same
<1>3. CASE WriteNested(a, in)
  <2>1. Fifo(a)' = Append(Append(processingFIFO[a], in[2]), in[1]) \o Tail(Tail(in))
    BY <1>3 DEF WriteNested, Fifo, Put, QueuesOK
  <2>2. Len(in) > 1
    BY <1>3 DEF WriteNested
  <2>3. Same(processingFIFO[a] \o in,
             Append(Append(processingFIFO[a], in[2]), in[1]) \o Tail(Tail(in)))
    BY <1>1, <2>2, NestedOrder
  <2>4. \A b \in Agents \ {a} : Fifo(b)' = Fifo(b)
    BY <1>3 DEF WriteNested, Fifo, Put, QueuesOK
  <2> QED
    BY <2>1, <2>3, <2>4
<1>4. CASE inputFIFO' = Put(inputFIFO, a, in) /\ UNCHANGED processingFIFO
  BY <1>4 DEF Fifo, Put, QueuesOK, Same
<1> QED
  BY <1>2, <1>3, <1>4 DEF ExecuteCommand

\* sendRequest() appends the request, unless an equal one already waits.
LEMMA SendFifo ==
    ASSUME QueuesOK, NEW a \in Agents, NEW r \in Requests, AgentSendRequest(a, r)
    PROVE  /\ \E u \in Seq(Requests) :
                /\ Same(u, Fifo(a)')
                /\ u = Fifo(a) \/ (~Has(Fifo(a), r) /\ u = Append(Fifo(a), r))
           /\ \A b \in Agents \ {a} : Fifo(b)' = Fifo(b)
<1>1. /\ processingFIFO[a] \in Seq(Requests) /\ inputFIFO[a] \in Seq(Requests)
      /\ Fifo(a) \in Seq(Requests) /\ Append(Fifo(a), r) \in Seq(Requests)
  BY DEF QueuesOK, Fifo
<1>2. CASE Has(inputFIFO[a], r)
  BY <1>1, <1>2, ExecuteFifo DEF AgentSendRequest, Fifo
<1>3. CASE ~Has(inputFIFO[a], r) /\ Has(processingFIFO[a], r)
  BY <1>1, <1>3 DEF AgentSendRequest, queues, Fifo, Same
<1>4. CASE ~Has(inputFIFO[a], r) /\ ~Has(processingFIFO[a], r)
  <2>1. Append(inputFIFO[a], r) \in Seq(Requests)
    BY <1>1
  <2>2. ExecuteCommand(a, Append(inputFIFO[a], r))
    BY <1>4 DEF AgentSendRequest
  <2>3. Same(Append(Fifo(a), r), Fifo(a)')
    <3>1. Same(processingFIFO[a] \o Append(inputFIFO[a], r), Fifo(a)')
      BY <2>1, <2>2, ExecuteFifo
    <3>2. \A p, i \in Seq(Requests) : p \o Append(i, r) = Append(p \o i, r)
      BY AppendToSecond
    <3>3. processingFIFO[a] \o Append(inputFIFO[a], r) = Append(Fifo(a), r)
      BY <1>1, <3>2 DEF Fifo
    <3> QED
      BY <3>1, <3>3
  <2>4. ~Has(Fifo(a), r)
    BY <1>1, <1>4, HasConcat DEF Fifo
  <2> QED
    BY <1>1, <2>1, <2>2, <2>3, <2>4, ExecuteFifo
<1> QED
  BY <1>2, <1>3, <1>4

------------------------------------------------------------------------------
(* The invariants                                                            *)

\* An agent that is not made yet is off line and has no requests; the one
\* that is parsing has been made.
Started ==
    /\ \A a \in Agents : a > made =>
         /\ status[a] = "none" /\ ~onLine[a]
         /\ inputFIFO[a] = <<>> /\ processingFIFO[a] = <<>>
    /\ busy # None => busy \in 1 .. made

\* InputWaits, which the end of processAnswer() restores, of all the agents but
\* the one that is parsing.
Waits(a) ==
    status[a] = "alive" /\ onLine[a] /\ inputFIFO[a] # <<>> =>
      processingFIFO[a] # <<>> \/ leftOver[a] # <<>>
OthersWait == \A a \in Agents : a # busy => Waits(a)

LEMMA StartedStep == TypeOK /\ Started /\ [Next]_vars => Started'
<1> SUFFICES ASSUME TypeOK, Started, [Next]_vars PROVE Started'
  OBVIOUS
<1> USE SensorAssumption
<1>t. /\ made \in Nat /\ made <= MaxAgents
      /\ status \in [Agents -> {"none", "alive", "doomed", "deleted"}]
      /\ onLine \in [Agents -> BOOLEAN]
      /\ inputFIFO \in [Agents -> Seq(Requests)]
      /\ processingFIFO \in [Agents -> Seq(Requests)]
      /\ pc # "loop" => busy \in Agents
  BY DEF TypeOK
<1>e. ASSUME NEW a \in Agents, NEW in, a \in 1 .. made,
             ExecuteCommand(a, in) \/ WriteFirst(a, in)
      PROVE  \A b \in Agents : b > made => /\ inputFIFO'[b] = inputFIFO[b]
                                           /\ processingFIFO'[b] = processingFIFO[b]
  <2>1. /\ \E v : inputFIFO' = Put(inputFIFO, a, v)
        /\ \E v : processingFIFO' = processingFIFO \/ processingFIFO' = Put(processingFIFO, a, v)
    BY <1>e DEF ExecuteCommand, WriteFirst, WriteNested
  <2>2. \A b \in Agents : b > made => b # a
    BY <1>e, <1>t
  <2> QED
    BY <1>t, <2>1, <2>2 DEF Put
<1>b. \A a \in Agents : status[a] = "alive" => a \in 1 .. made
  BY <1>t DEF Started, Agents
<1>1. ASSUME NEW c \in Clients, NEW q \in Queries, SendRequest(c, q) PROVE Started'
  <2>1. agent \in 1 .. made /\ agent \in Agents
    BY <1>1 DEF SendRequest, TypeOK, Agents
  <2>2. \A b \in Agents : b > made => /\ inputFIFO'[b] = inputFIFO[b]
                                      /\ processingFIFO'[b] = processingFIFO[b]
    BY <1>1, <1>e, <2>1 DEF SendRequest, AgentSendRequest, queues
  <2> QED
    BY <1>1, <2>2 DEF SendRequest, Started, hosts, reader
<1>m. ASSUME made' = made + 1, status' = Put(status, made + 1, "alive"),
             \/ inputFIFO' = inputFIFO
             \/ \E v : inputFIFO' = Put(inputFIFO, made + 1, v),
             UNCHANGED <<onLine, processingFIFO, busy>>
      PROVE  Started'
  <2>1. \A a \in Agents : a > made' => a > made /\ a # made + 1
    BY <1>m, <1>t DEF Agents
  <2>2. \A a \in Agents : a # made + 1 =>
          status'[a] = status[a] /\ inputFIFO'[a] = inputFIFO[a]
    BY <1>m, <1>t DEF Put
  <2>3. busy # None => busy \in 1 .. made'
    BY <1>m, <1>t DEF Started
  <2> QED
    BY <1>m, <2>1, <2>2, <2>3 DEF Started
<1>2. ASSUME NEW c \in Clients, NEW q \in Queries, Reengage(c, q) PROVE Started'
  <2>1. \E v : inputFIFO' = Put(inputFIFO, made + 1, v)
    BY <1>2 DEF Reengage
  <2> QED
    BY <1>2, <1>m, <2>1 DEF Reengage, NewAgent, reader
<1>16. CASE Engage
  BY <1>16, <1>m DEF Engage, NewAgent, reader, queues
<1>17. ASSUME NEW a \in Agents, MsgSent(a) PROVE Started'
  <2>1. a \in 1 .. made /\ UNCHANGED <<made, status, onLine, busy>>
    BY <1>17, <1>b DEF MsgSent, hosts, reader
  <2>2. WriteFirst(a, inputFIFO[a]) \/ UNCHANGED <<inputFIFO, processingFIFO>>
    BY <1>17 DEF MsgSent
  <2>3. \A b \in Agents : b > made => /\ inputFIFO'[b] = inputFIFO[b]
                                      /\ processingFIFO'[b] = processingFIFO[b]
    BY <1>e, <2>1, <2>2
  <2> QED
    BY <2>1, <2>3 DEF Started
<1>3. CASE Disengage
  BY <1>3 DEF Disengage, Started, TypeOK, Agents, queues, reader, Put
<1>4. ASSUME NEW c \in Clients, Destroy(c) PROVE Started'
  BY <1>4 DEF Destroy, Started, TypeOK, Agents, hosts, reader, Put
<1>5. CASE ParseLine
  BY <1>5 DEF ParseLine, Started, hosts, queues
<1>6. CASE ParseMessage
  BY <1>6 DEF ParseMessage, Started, hosts, queues
<1>7. CASE ParsePrompt
  <2>1. busy \in 1 .. made
    BY <1>7 DEF ParsePrompt, Parsing, Started, TypeOK, Agents
  <2>2. \A a \in Agents : a > made =>
          onLine'[a] = onLine[a] /\ processingFIFO'[a] = processingFIFO[a]
    <3>1. /\ onLine' = Put(onLine, busy, TRUE)
          /\ \/ processingFIFO' = processingFIFO
             \/ processingFIFO' = Put(processingFIFO, busy, Tail(processingFIFO[busy]))
      BY <1>7 DEF ParsePrompt
    <3>2. \A a \in Agents : a > made => a # busy
      BY <1>t, <2>1 DEF Agents
    <3> QED
      BY <1>t, <3>1, <3>2 DEF Put
  <2> QED
    BY <1>7, <2>1, <2>2 DEF ParsePrompt, Started, hosts
<1>8. CASE Return
  BY <1>8 DEF Return, Started, hosts, queues
<1>9. CASE ParseEnd
  <2>1. busy \in 1 .. made /\ busy \in Agents
    BY <1>9 DEF ParseEnd, Started, TypeOK, Agents
  <2> QED
    BY <1>9, <1>e, <2>1 DEF ParseEnd, Started, hosts
<1>10. ASSUME NEW a \in Agents, DeleteLater(a) PROVE Started'
  BY <1>10 DEF DeleteLater, Started, TypeOK, Agents, reader, Put
<1>11. ASSUME NEW a \in Agents, DaemonExited(a) PROVE Started'
  BY <1>11 DEF DaemonExited, Started, TypeOK, Agents, queues, reader, Put
<1>12. ASSUME NEW a \in Agents, DaemonDies(a) PROVE Started'
  BY <1>12 DEF DaemonDies, Started, hosts, reader
<1>13. ASSUME NEW a \in Agents, DaemonServes(a) PROVE Started'
  BY <1>13 DEF DaemonServes, Started, hosts, reader
<1>14. ASSUME NEW a \in Agents, NEW n \in 0 .. Len(fromDaemon[a]), Read(a, n)
       PROVE  Started'
  <2>1. busy' = a /\ UNCHANGED <<made, status, onLine, inputFIFO, processingFIFO>>
    BY <1>14 DEF Read, hosts, queues
  <2>3. a \in 1 .. made
    BY <1>14, <1>b DEF Read
  <2> QED
    BY <2>1, <2>3 DEF Started
<1>15. CASE UNCHANGED vars
  BY <1>15 DEF Started, vars, hosts, queues, reader
<1> QED
  BY <1>1, <1>2, <1>3, <1>4, <1>5, <1>6, <1>7, <1>8, <1>9, <1>10, <1>11, <1>12,
     <1>13, <1>14, <1>15, <1>16, <1>17 DEF Next, Parse

LEMMA WriteFirstWaits ==
    ASSUME QueuesOK, NEW a \in Agents, NEW in \in Seq(Requests), in # <<>>,
           WriteFirst(a, in)
    PROVE  /\ processingFIFO'[a] # <<>>
           /\ \A b \in Agents \ {a} : /\ inputFIFO'[b] = inputFIFO[b]
                                     /\ processingFIFO'[b] = processingFIFO[b]
<1>1. processingFIFO[a] \in Seq(Requests) /\ Head(in) \in Requests
  BY DEF QueuesOK
<1>2. \A t \in Seq(Requests), x \in Requests : Append(t, x) # <<>>
  OBVIOUS
<1>3. Append(processingFIFO[a], Head(in)) # <<>>
  BY <1>1, <1>2
<1> QED
  BY <1>3 DEF WriteFirst, Put, QueuesOK

LEMMA ExecuteWaits ==
    ASSUME QueuesOK, NEW a \in Agents, NEW in \in Seq(Requests), ExecuteCommand(a, in)
    PROVE  /\ onLine[a] /\ inputFIFO'[a] # <<>> => processingFIFO'[a] # <<>>
           /\ \A b \in Agents \ {a} : /\ inputFIFO'[b] = inputFIFO[b]
                                     /\ processingFIFO'[b] = processingFIFO[b]
<1>1. CASE in # <<>> /\ WriteFirst(a, in)
  BY <1>1, WriteFirstWaits
<1>2. CASE WriteNested(a, in)
  <2>1. processingFIFO[a] \in Seq(Requests) /\ in[1] \in Requests /\ in[2] \in Requests
    BY <1>2, TwoFacts DEF WriteNested, QueuesOK
  <2>2. \A t \in Seq(Requests), x \in Requests :
          Append(t, x) \in Seq(Requests) /\ Append(t, x) # <<>>
    OBVIOUS
  <2>3. Append(Append(processingFIFO[a], in[2]), in[1]) # <<>>
    BY <2>1, <2>2
  <2> QED
    BY <1>2, <2>3 DEF WriteNested, Put, QueuesOK
<1>3. CASE ~(onLine[a] /\ in # <<>>)
  BY <1>3 DEF ExecuteCommand, Put, QueuesOK
<1> QED
  BY <1>1, <1>2, <1>3 DEF ExecuteCommand

\* A step that leaves these variables of the other agents alone keeps them as
\* they are.
LEMMA WaitsSame ==
    ASSUME NEW b \in Agents, Waits(b), status'[b] = status[b], onLine'[b] = onLine[b],
           inputFIFO'[b] = inputFIFO[b], processingFIFO'[b] = processingFIFO[b],
           leftOver'[b] = leftOver[b]
    PROVE  Waits(b)'
BY DEF Waits

LEMMA OthersWaitStep == TypeOK /\ Started /\ OthersWait /\ [Next]_vars => OthersWait'
<1> SUFFICES ASSUME TypeOK, Started, OthersWait, [Next]_vars,
                    NEW b \in Agents, b # busy'
             PROVE  Waits(b)'
  BY DEF OthersWait
<1> USE SensorAssumption
<1>q. QueuesOK
  BY DEF TypeOK, QueuesOK
<1>w. b # busy => Waits(b)
  BY DEF OthersWait
<1>1. ASSUME NEW c \in Clients, NEW q \in Queries, SendRequest(c, q) PROVE Waits(b)'
  <2>1. /\ agent \in Agents /\ [client |-> c, query |-> q] \in Requests
        /\ AgentSendRequest(agent, [client |-> c, query |-> q])
        /\ UNCHANGED <<status, onLine, leftOver, busy>>
    BY <1>1 DEF SendRequest, TypeOK, Agents, Requests, hosts, reader
  <2>2. ASSUME NEW in \in Seq(Requests), ExecuteCommand(agent, in) PROVE Waits(b)'
    BY <1>q, <1>w, <2>1, <2>2, ExecuteWaits DEF Waits
  <2>3. CASE UNCHANGED queues
    BY <1>w, <2>1, <2>3 DEF Waits, queues
  <2>4. /\ inputFIFO[agent] \in Seq(Requests)
        /\ Append(inputFIFO[agent], [client |-> c, query |-> q]) \in Seq(Requests)
    BY <2>1 DEF TypeOK
  <2> QED
    BY <2>1, <2>2, <2>3, <2>4 DEF AgentSendRequest
<1>2. ASSUME made + 1 \in Agents, status' = Put(status, made + 1, "alive"),
             \/ inputFIFO' = inputFIFO
             \/ \E v : inputFIFO' = Put(inputFIFO, made + 1, v),
             UNCHANGED <<onLine, processingFIFO, leftOver, busy>>
      PROVE  Waits(b)'
  <2>1. CASE b = made + 1
    <3>1. ~onLine[b]
      BY <2>1 DEF Started, TypeOK
    <3> QED
      BY <1>2, <3>1 DEF Waits
  <2>2. CASE b # made + 1
    <3>1. status'[b] = status[b] /\ inputFIFO'[b] = inputFIFO[b]
      BY <1>2, <2>2 DEF Put, TypeOK
    <3> QED
      BY <1>2, <1>w, <3>1, WaitsSame
  <2> QED
    BY <2>1, <2>2
<1>18. ASSUME NEW c \in Clients, NEW q \in Queries, Reengage(c, q) PROVE Waits(b)'
  <2>1. made + 1 \in Agents
    BY <1>18 DEF Reengage, NewAgent, TypeOK, Agents
  <2> QED
    BY <1>18, <1>2, <2>1 DEF Reengage, NewAgent, reader
<1>16. CASE Engage
  <2>1. made \in Nat /\ made < MaxAgents
    BY <1>16 DEF Engage, NewAgent, TypeOK
  <2>2. made + 1 \in Agents
    BY <2>1 DEF Agents
  <2> QED
    BY <1>16, <1>2, <2>2 DEF Engage, NewAgent, reader, queues
<1>17. ASSUME NEW a \in Agents, MsgSent(a) PROVE Waits(b)'
  <2>1. UNCHANGED <<status, onLine, leftOver, busy>> /\ inputFIFO[a] \in Seq(Requests)
    BY <1>17 DEF MsgSent, hosts, reader, TypeOK
  <2>2. \/ UNCHANGED <<inputFIFO, processingFIFO>>
        \/ inputFIFO[a] # <<>> /\ WriteFirst(a, inputFIFO[a])
    BY <1>17 DEF MsgSent
  <2> QED
    BY <1>q, <1>w, <2>1, <2>2, WriteFirstWaits DEF Waits
<1>3. CASE Disengage
  BY <1>3, <1>w DEF Disengage, Waits, TypeOK, queues, reader, Put
<1>4. ASSUME NEW c \in Clients, Destroy(c) PROVE Waits(b)'
  <2>1. UNCHANGED <<status, onLine, leftOver, busy>>
    BY <1>4 DEF Destroy, hosts, reader
  <2>2. CASE UNCHANGED <<inputFIFO, processingFIFO>>
    BY <1>w, <2>1, <2>2 DEF Waits
  <2>3. CASE /\ agent # None
             /\ inputFIFO' = Put(inputFIFO, agent, Without(inputFIFO[agent], c))
             /\ processingFIFO' = Put(processingFIFO, agent, Without(processingFIFO[agent], c))
    <3>1. agent \in Agents
      BY <2>3 DEF TypeOK, Agents
    <3>2. \A s \in Seq(Requests) :
            Without(s, c) \in Seq(Requests) /\ Len(Without(s, c)) = Len(s)
      BY WithoutFacts
    <3>3. \A s \in Seq(Requests) : Without(s, c) = <<>> <=> s = <<>>
      BY <3>2, EmptySeq
    <3>4. /\ inputFIFO[agent] \in Seq(Requests)
          /\ processingFIFO[agent] \in Seq(Requests)
      BY <3>1 DEF TypeOK
    <3>5. /\ inputFIFO'[b] # <<>> => inputFIFO[b] # <<>>
          /\ processingFIFO[b] # <<>> => processingFIFO'[b] # <<>>
      BY <2>3, <3>1, <3>3, <3>4 DEF Put, TypeOK
    <3> QED
      BY <1>w, <2>1, <3>5 DEF Waits
  <2> QED
    BY <1>4, <2>2, <2>3 DEF Destroy
<1>5. CASE ParseLine
  BY <1>5, <1>w DEF ParseLine, Waits, hosts, queues
<1>6. CASE ParseMessage
  <2>1. UNCHANGED <<status, onLine, inputFIFO, processingFIFO>>
    BY <1>6 DEF ParseMessage, hosts, queues
  <2>2. CASE UNCHANGED <<leftOver, busy>>
    BY <1>w, <2>1, <2>2 DEF Waits
  <2>3. CASE Len(buf) = 1 /\ leftOver' = Put(leftOver, busy, buf)
    <3>1. buf # <<>>
      BY <1>6 DEF ParseMessage, Parsing
    <3>2. b = busy => leftOver'[b] # <<>>
      BY <2>3, <3>1 DEF Put, TypeOK
    <3>3. b # busy => leftOver'[b] = leftOver[b]
      BY <2>3 DEF Put, TypeOK
    <3> QED
      BY <1>w, <2>1, <3>2, <3>3 DEF Waits
  <2> QED
    BY <1>6, <2>2, <2>3 DEF ParseMessage
<1>7. CASE ParsePrompt
  <2>1. b # busy /\ UNCHANGED <<status, inputFIFO, leftOver>>
    BY <1>7 DEF ParsePrompt, hosts
  <2>2. /\ onLine' = Put(onLine, busy, TRUE)
        /\ \/ processingFIFO' = processingFIFO
           \/ processingFIFO' = Put(processingFIFO, busy, Tail(processingFIFO[busy]))
    BY <1>7 DEF ParsePrompt
  <2>3. onLine'[b] = onLine[b] /\ processingFIFO'[b] = processingFIFO[b]
    BY <2>1, <2>2 DEF Put, TypeOK
  <2> QED
    BY <1>w, <2>1, <2>3, WaitsSame
<1>8. CASE Return
  BY <1>8, <1>w DEF Return, Waits, hosts, queues
<1>9. CASE ParseEnd
  <2>1. /\ busy \in Agents /\ ExecuteCommand(busy, inputFIFO[busy])
        /\ UNCHANGED <<status, onLine, leftOver>>
    BY <1>9 DEF ParseEnd, TypeOK, hosts
  <2>2. inputFIFO[busy] \in Seq(Requests)
    BY <2>1 DEF TypeOK
  <2> QED
    BY <1>q, <1>w, <2>1, <2>2, ExecuteWaits DEF Waits
<1>10. ASSUME NEW a \in Agents, DeleteLater(a) PROVE Waits(b)'
  BY <1>10, <1>w DEF DeleteLater, Waits, TypeOK, reader, Put
<1>11. ASSUME NEW a \in Agents, DaemonExited(a) PROVE Waits(b)'
  BY <1>11, <1>w DEF DaemonExited, Waits, TypeOK, queues, reader, Put
<1>12. ASSUME NEW a \in Agents, DaemonDies(a) PROVE Waits(b)'
  BY <1>12, <1>w DEF DaemonDies, Waits, hosts, reader
<1>13. ASSUME NEW a \in Agents, DaemonServes(a) PROVE Waits(b)'
  BY <1>13, <1>w DEF DaemonServes, Waits, hosts, reader
<1>14. ASSUME NEW a \in Agents, NEW n \in 0 .. Len(fromDaemon[a]), Read(a, n)
       PROVE  Waits(b)'
  <2>1. busy = None /\ b # a /\ UNCHANGED <<status, onLine, inputFIFO, processingFIFO>>
    BY <1>14 DEF Read, TypeOK, hosts, queues
  <2>2. leftOver'[b] = leftOver[b]
    BY <1>14, <2>1 DEF Read, Put, TypeOK
  <2>3. b # busy
    BY <2>1 DEF Agents
  <2> QED
    BY <1>w, <2>1, <2>2, <2>3, WaitsSame
<1>15. CASE UNCHANGED vars
  BY <1>15, <1>w DEF Waits, vars, hosts, queues, reader
<1> QED
  BY <1>1, <1>2, <1>3, <1>4, <1>5, <1>6, <1>7, <1>8, <1>9, <1>10, <1>11, <1>12,
     <1>13, <1>14, <1>15, <1>16, <1>17, <1>18 DEF Next, Parse

\* A request is never left unwritten while nothing is being answered: the next
\* chunk, at whose end it is written, is sure to come.
THEOREM InputNeverStuck == Spec => []InputWaits
<1> USE SensorAssumption
<1>1. Init => Started /\ OthersWait
  BY DEF Init, Started, OthersWait, Waits
<1>2. TypeOK /\ Started /\ OthersWait /\ [Next]_vars => Started' /\ OthersWait'
  BY StartedStep, OthersWaitStep
<1>3. TypeOK /\ OthersWait => InputWaits
  <2> SUFFICES ASSUME TypeOK, OthersWait, NEW a \in Agents, pc = "loop"
               PROVE  Waits(a)
    BY DEF InputWaits, Waits
  <2>1. a # busy
    BY DEF TypeOK, Agents
  <2> QED
    BY <2>1 DEF OthersWait
<1> QED
  BY <1>1, <1>2, <1>3, SensorTypeCorrect, PTL DEF Spec

------------------------------------------------------------------------------
(* What a step does to the requests of one agent: nothing, or one is          *)
(* appended, or the first is answered, or all are dropped, and two may be     *)
(* exchanged; or the agent is new and has one request at most; or a client is *)
(* destroyed and disconnected.                                                *)

FifoKept(a) ==
    /\ agent' = a => agent = a
    /\ alive' = alive
    /\ \E u \in Seq(Requests) :
         /\ Same(u, Fifo(a)')
         /\ \/ u = Fifo(a)
            \/ u = <<>>
            \/ Fifo(a) # <<>> /\ u = Tail(Fifo(a))
            \/ \E r \in Requests : /\ r.client \in alive /\ ~Has(Fifo(a), r)
                                  /\ u = Append(Fifo(a), r)
FifoNew(a) ==
    /\ alive' = alive
    /\ \/ Fifo(a)' = <<>>
       \/ \E r \in Requests : r.client \in alive /\ Fifo(a)' = <<r>>
FifoDisconnected(a) ==
    /\ agent' = agent
    /\ \E c \in Clients :
         /\ alive' = alive \ {c}
         /\ \/ (c \in Careless \/ agent # a) /\ Fifo(a)' = Fifo(a)
            \/ Fifo(a)' = Without(processingFIFO[a], c) \o Without(inputFIFO[a], c)

LEMMA FifoStep ==
    TypeOK /\ Started /\ [Next]_vars =>
      \A a \in Agents : FifoKept(a) \/ FifoNew(a) \/ FifoDisconnected(a)
<1> SUFFICES ASSUME TypeOK, Started, [Next]_vars, NEW b \in Agents
             PROVE  FifoKept(b) \/ FifoNew(b) \/ FifoDisconnected(b)
  OBVIOUS
<1> USE SensorAssumption
<1>q. QueuesOK
  BY DEF TypeOK, QueuesOK
<1>f. Fifo(b) \in Seq(Requests)
  BY <1>q DEF QueuesOK, Fifo
<1>k. agent' = agent /\ alive' = alive /\ Same(Fifo(b), Fifo(b)') => FifoKept(b)
  BY <1>f DEF FifoKept
<1>s. UNCHANGED <<agent, alive, inputFIFO, processingFIFO>> => FifoKept(b)
  BY <1>k DEF Fifo, Same
<1>o. agent' = agent /\ alive' = alive /\ Fifo(b)' = Fifo(b) => FifoKept(b)
  BY <1>k DEF Same
<1>1. ASSUME NEW c \in Clients, NEW q \in Queries, SendRequest(c, q) PROVE FifoKept(b)
  <2> DEFINE r == [client |-> c, query |-> q]
  <2>1. /\ agent \in Agents /\ r \in Requests /\ r.client \in alive
        /\ AgentSendRequest(agent, r) /\ UNCHANGED <<agent, alive>>
    BY <1>1 DEF SendRequest, Calling, TypeOK, Agents, Requests, hosts, reader
  <2> HIDE DEF r
  <2>2. CASE b = agent
    <3>1. PICK u \in Seq(Requests) :
            /\ Same(u, Fifo(b)')
            /\ u = Fifo(b) \/ (~Has(Fifo(b), r) /\ u = Append(Fifo(b), r))
      BY <1>q, <2>1, <2>2, SendFifo
    <3> QED
      BY <2>1, <3>1 DEF FifoKept
  <2>3. CASE b # agent
    BY <1>q, <1>o, <2>1, <2>3, SendFifo
  <2> QED
    BY <2>2, <2>3
<1>n. ASSUME NEW v \in Seq(Requests), b = made + 1, inputFIFO'[b] = v,
             UNCHANGED processingFIFO
      PROVE  Fifo(b)' = v
  <2>1. processingFIFO[b] = <<>>
    BY <1>n DEF Started, TypeOK
  <2>2. Fifo(b)' = <<>> \o v
    BY <1>n, <2>1 DEF Fifo
  <2> QED
    BY <2>2, ConcatEmptySeq
<1>2. ASSUME NEW c \in Clients, NEW q \in Queries, Reengage(c, q)
      PROVE  FifoKept(b) \/ FifoNew(b)
  <2> DEFINE r == [client |-> c, query |-> q]
  <2>1. /\ r \in Requests /\ r.client \in alive /\ UNCHANGED <<alive, processingFIFO>>
        /\ agent' = made + 1 /\ inputFIFO' = Put(inputFIFO, made + 1, <<r>>)
    BY <1>2 DEF Reengage, NewAgent, Calling, Requests
  <2> HIDE DEF r
  <2>2. CASE b = made + 1
    <3>1. inputFIFO'[b] = <<r>> /\ <<r>> \in Seq(Requests)
      BY <2>1, <2>2 DEF Put, TypeOK
    <3>2. Fifo(b)' = <<r>>
      BY <1>n, <2>1, <2>2, <3>1
    <3> QED
      BY <2>1, <3>2 DEF FifoNew
  <2>3. CASE b # made + 1
    <3>1. inputFIFO'[b] = inputFIFO[b]
      BY <2>1, <2>3 DEF Put, TypeOK
    <3> QED
      BY <1>f, <2>1, <2>3, <3>1 DEF FifoKept, Fifo, Same
  <2> QED
    BY <2>2, <2>3
<1>16. CASE Engage
  <2>1. agent' = made + 1 /\ UNCHANGED <<alive, inputFIFO, processingFIFO>>
    BY <1>16 DEF Engage, NewAgent, queues
  <2>2. Fifo(b)' = Fifo(b)
    BY <2>1 DEF Fifo
  <2>3. CASE b = made + 1
    <3>1. inputFIFO'[b] = <<>> /\ <<>> \in Seq(Requests)
      BY <2>1, <2>3 DEF Started, TypeOK
    <3>2. Fifo(b)' = <<>>
      BY <1>n, <2>1, <2>3, <3>1
    <3> QED
      BY <2>1, <3>2 DEF FifoNew
  <2>4. CASE b # made + 1
    BY <1>f, <2>1, <2>2, <2>4 DEF FifoKept, Same
  <2> QED
    BY <2>3, <2>4
<1>17. ASSUME NEW a \in Agents, MsgSent(a) PROVE FifoKept(b)
  <2>1. UNCHANGED <<agent, alive>> /\ inputFIFO[a] \in Seq(Requests)
    BY <1>17 DEF MsgSent, hosts, TypeOK
  <2>2. CASE UNCHANGED <<inputFIFO, processingFIFO>>
    BY <1>s, <2>1, <2>2
  <2>3. CASE inputFIFO[a] # <<>> /\ WriteFirst(a, inputFIFO[a])
    BY <1>q, <1>o, <2>1, <2>3, WriteFirstFifo DEF Fifo
  <2> QED
    BY <1>17, <2>2, <2>3 DEF MsgSent
<1>3. CASE Disengage
  <2>1. agent' # b /\ UNCHANGED <<alive, inputFIFO, processingFIFO>>
    BY <1>3 DEF Disengage, queues, Agents
  <2> QED
    BY <1>f, <2>1 DEF FifoKept, Fifo, Same
<1>4. ASSUME NEW c \in Clients, Destroy(c) PROVE FifoDisconnected(b)
  <2>0. alive' = alive \ {c} /\ agent' = agent
    BY <1>4 DEF Destroy, hosts
  <2>1. CASE c \in Careless \/ agent = None
    <3>1. c \in Careless \/ agent # b
      BY <2>1 DEF Agents
    <3>2. Fifo(b)' = Fifo(b)
      BY <1>4, <2>1 DEF Destroy, Fifo
    <3> QED
      BY <2>0, <3>1, <3>2 DEF FifoDisconnected
  <2>2. CASE ~(c \in Careless \/ agent = None)
    <3>1. /\ inputFIFO' = Put(inputFIFO, agent, Without(inputFIFO[agent], c))
          /\ processingFIFO' = Put(processingFIFO, agent, Without(processingFIFO[agent], c))
      BY <1>4, <2>2 DEF Destroy
    <3>2. CASE agent = b
      <4>1. /\ inputFIFO'[b] = Without(inputFIFO[b], c)
            /\ processingFIFO'[b] = Without(processingFIFO[b], c)
        BY <3>1, <3>2 DEF Put, TypeOK
      <4> QED
        BY <2>0, <4>1 DEF FifoDisconnected, Fifo
    <3>3. CASE agent # b
      <4>1. inputFIFO'[b] = inputFIFO[b] /\ processingFIFO'[b] = processingFIFO[b]
        BY <3>1, <3>3 DEF Put, TypeOK
      <4> QED
        BY <2>0, <3>3, <4>1 DEF FifoDisconnected, Fifo
    <3> QED
      BY <3>2, <3>3
  <2> QED
    BY <2>1, <2>2
<1>5. CASE ParseLine
  BY <1>5, <1>s DEF ParseLine, hosts, queues
<1>6. CASE ParseMessage
  BY <1>6, <1>s DEF ParseMessage, hosts, queues
<1>7. CASE ParsePrompt
  <2>1. busy \in Agents /\ UNCHANGED <<agent, alive, inputFIFO>>
    BY <1>7 DEF ParsePrompt, Parsing, TypeOK, hosts
  <2>2. CASE processingFIFO' = processingFIFO
    BY <1>s, <2>1, <2>2
  <2>3. CASE /\ processingFIFO[busy] # <<>>
             /\ processingFIFO' = Put(processingFIFO, busy, Tail(processingFIFO[busy]))
    <3>1. CASE b = busy
      <4>1. processingFIFO'[b] = Tail(processingFIFO[b]) /\ inputFIFO'[b] = inputFIFO[b]
        BY <2>1, <2>3, <3>1 DEF Put, TypeOK
      <4>2. /\ processingFIFO[b] \in Seq(Requests) /\ inputFIFO[b] \in Seq(Requests)
            /\ processingFIFO[b] # <<>>
        BY <2>3, <3>1 DEF TypeOK
      <4>3. Fifo(b) # <<>> /\ Fifo(b)' = Tail(Fifo(b))
        BY <4>1, <4>2, TailOfFirst DEF Fifo
      <4>4. Tail(Fifo(b)) \in Seq(Requests)
        BY <1>f, <4>3
      <4> QED
        BY <2>1, <4>3, <4>4 DEF FifoKept, Same
    <3>2. CASE b # busy
      <4>1. processingFIFO'[b] = processingFIFO[b]
        BY <2>3, <3>2 DEF Put, TypeOK
      <4> QED
        BY <1>o, <2>1, <4>1 DEF Fifo
    <3> QED
      BY <3>1, <3>2
  <2>4. \/ processingFIFO' = processingFIFO
        \/ /\ processingFIFO[busy] # <<>>
           /\ processingFIFO' = Put(processingFIFO, busy, Tail(processingFIFO[busy]))
    BY <1>7 DEF ParsePrompt
  <2> QED
    BY <2>2, <2>3, <2>4
<1>8. CASE Return
  BY <1>8, <1>s DEF Return, hosts, queues
<1>9. CASE ParseEnd
  <2>1. /\ busy \in Agents /\ ExecuteCommand(busy, inputFIFO[busy])
        /\ UNCHANGED <<agent, alive>>
    BY <1>9 DEF ParseEnd, TypeOK, hosts
  <2>2. inputFIFO[busy] \in Seq(Requests)
    BY <2>1 DEF TypeOK
  <2>3. Same(Fifo(b), Fifo(b)')
    BY <1>q, <2>1, <2>2, ExecuteFifo DEF Fifo, Same
  <2> QED
    BY <1>k, <2>1, <2>3
<1>10. ASSUME NEW a \in Agents, DeleteLater(a) PROVE FifoKept(b)
  <2>1. /\ UNCHANGED <<agent, alive>>
        /\ inputFIFO' = Put(inputFIFO, a, <<>>)
        /\ processingFIFO' = Put(processingFIFO, a, <<>>)
    BY <1>10 DEF DeleteLater
  <2>2. CASE a = b
    <3>1. Fifo(b)' = <<>> \o <<>>
      BY <2>1, <2>2 DEF Fifo, Put, TypeOK
    <3>2. Fifo(b)' = <<>>
      BY <3>1
    <3>3. <<>> \in Seq(Requests)
      OBVIOUS
    <3> QED
      BY <2>1, <3>2, <3>3 DEF FifoKept, Same
  <2>3. CASE a # b
    <3>1. inputFIFO'[b] = inputFIFO[b] /\ processingFIFO'[b] = processingFIFO[b]
      BY <2>1, <2>3 DEF Put, TypeOK
    <3> QED
      BY <1>o, <2>1, <3>1 DEF Fifo
  <2> QED
    BY <2>2, <2>3
<1>11. ASSUME NEW a \in Agents, DaemonExited(a) PROVE FifoKept(b)
  <2>1. /\ agent' = b => agent = b
        /\ UNCHANGED <<alive, inputFIFO, processingFIFO>>
    BY <1>11 DEF DaemonExited, queues, Agents
  <2> QED
    BY <1>f, <2>1 DEF FifoKept, Fifo, Same
<1>12. ASSUME NEW a \in Agents, DaemonDies(a) PROVE FifoKept(b)
  BY <1>12, <1>s DEF DaemonDies, hosts
<1>13. ASSUME NEW a \in Agents, DaemonServes(a) PROVE FifoKept(b)
  BY <1>13, <1>s DEF DaemonServes, hosts
<1>14. ASSUME NEW a \in Agents, NEW n \in 0 .. Len(fromDaemon[a]), Read(a, n)
       PROVE  FifoKept(b)
  BY <1>14, <1>s DEF Read, hosts, queues
<1>15. CASE UNCHANGED vars
  BY <1>15, <1>s DEF vars, hosts, queues
<1> QED
  BY <1>1, <1>2, <1>3, <1>4, <1>5, <1>6, <1>7, <1>8, <1>9, <1>10, <1>11, <1>12,
     <1>13, <1>14, <1>15, <1>16, <1>17 DEF Next, Parse

LEMMA FifoType == ASSUME TypeOK, NEW a \in Agents PROVE Fifo(a) \in Seq(Requests)
<1>1. processingFIFO[a] \in Seq(Requests) /\ inputFIFO[a] \in Seq(Requests)
  BY DEF TypeOK
<1> QED
  BY <1>1, SeqFacts DEF Fifo

LEMMA SingletonFacts ==
    ASSUME NEW r \in Requests
    PROVE  Distinct(<<r>>) /\ (r.client \in alive => Known(<<r>>))
BY DEF Distinct, Known

LEMMA NoDuplicateStep == TypeOK /\ Started /\ NoDuplicate /\ [Next]_vars => NoDuplicate'
<1> SUFFICES ASSUME TypeOK, Started, NoDuplicate, [Next]_vars, NEW a \in Agents
             PROVE  Distinct(Fifo(a)')
  BY DEF NoDuplicate, Distinct
<1>1. Fifo(a) \in Seq(Requests) /\ Distinct(Fifo(a))
  BY FifoType DEF NoDuplicate
<1>2. CASE FifoKept(a)
  <2>1. PICK u \in Seq(Requests) :
          /\ Same(u, Fifo(a)')
          /\ \/ u = Fifo(a)
             \/ u = <<>>
             \/ Fifo(a) # <<>> /\ u = Tail(Fifo(a))
             \/ \E r \in Requests : ~Has(Fifo(a), r) /\ u = Append(Fifo(a), r)
    BY <1>2 DEF FifoKept
  <2>2. Distinct(<<>>)
    BY DEF Distinct
  <2>3. Distinct(u)
    BY <1>1, <2>1, <2>2, DistinctFacts
  <2> QED
    BY <2>1, <2>3, SameFacts
<1>3. CASE FifoNew(a)
  <2>1. Distinct(<<>>)
    BY DEF Distinct
  <2> QED
    BY <1>3, <2>1, SingletonFacts DEF FifoNew
<1>4. CASE FifoDisconnected(a)
  <2>1. /\ processingFIFO[a] \in Seq(Requests) /\ inputFIFO[a] \in Seq(Requests)
        /\ Distinct(processingFIFO[a] \o inputFIFO[a])
    BY <1>1 DEF TypeOK, Fifo
  <2>2. \A c \in Clients :
          Distinct(Without(processingFIFO[a], c) \o Without(inputFIFO[a], c))
    BY <2>1, WithoutBoth
  <2> QED
    BY <1>1, <1>4, <2>2 DEF FifoDisconnected
<1> QED
  BY <1>2, <1>3, <1>4, FifoStep

\* A request that waits is never sent a second time, however many clients,
\* queries and agents there are and whoever disappears meanwhile.
THEOREM NeverSentTwice == Spec => []NoDuplicate
<1>1. Init => Started /\ NoDuplicate
  <2> SUFFICES ASSUME Init PROVE Started /\ NoDuplicate
    OBVIOUS
  <2>1. Started
    BY SensorAssumption DEF Init, Started
  <2>2. \A a \in Agents : Len(Fifo(a)) = 0
    BY DEF Init, Fifo
  <2> QED
    BY <2>1, <2>2 DEF NoDuplicate, Distinct
<1>2. TypeOK /\ Started /\ NoDuplicate /\ [Next]_vars => Started' /\ NoDuplicate'
  BY StartedStep, NoDuplicateStep
<1> QED
  BY <1>1, <1>2, SensorTypeCorrect, PTL DEF Spec

LEMMA KnownStep ==
    Careless = {} /\ TypeOK /\ Started /\ KnownClients /\ [Next]_vars => KnownClients'
<1> SUFFICES ASSUME Careless = {}, TypeOK, Started, KnownClients, [Next]_vars,
                    agent' # None
             PROVE  Known(Fifo(agent))'
  BY DEF KnownClients
<1>0. PICK a \in Agents : agent' = a
  <2>1. TypeOK'
    BY NextType
  <2> QED
    BY <2>1, SensorAssumption DEF TypeOK, Agents
<1>1. SUFFICES \A i \in 1 .. Len(Fifo(a)') : Fifo(a)'[i].client \in alive' \cup {None}
  BY <1>0 DEF Known, Fifo
<1>2. Fifo(a) \in Seq(Requests)
  BY FifoType
<1>3. CASE FifoKept(a)
  <2>1. Known(Fifo(a)) /\ alive' = alive
    BY <1>0, <1>3, SensorAssumption DEF FifoKept, KnownClients, Agents
  <2>2. Known(Fifo(a)')
    <3>1. PICK u \in Seq(Requests) :
            /\ Same(u, Fifo(a)')
            /\ \/ u = Fifo(a)
               \/ u = <<>>
               \/ Fifo(a) # <<>> /\ u = Tail(Fifo(a))
               \/ \E r \in Requests : r.client \in alive /\ u = Append(Fifo(a), r)
      BY <1>3 DEF FifoKept
    <3>2. Known(<<>>)
      BY DEF Known
    <3>3. Known(u)
      BY <1>2, <2>1, <3>1, <3>2, KnownFacts
    <3> QED
      BY <3>1, <3>3, SameFacts
  <2> QED
    BY <2>1, <2>2 DEF Known
<1>4. CASE FifoNew(a)
  <2>0. Known(<<>>)
    BY DEF Known
  <2>1. Known(Fifo(a)') /\ alive' = alive
    BY <1>4, <2>0, SingletonFacts DEF FifoNew
  <2> QED
    BY <2>1 DEF Known
<1>5. CASE FifoDisconnected(a)
  <2>1. agent = a /\ Known(Fifo(a))
    BY <1>0, <1>5, SensorAssumption DEF FifoDisconnected, KnownClients, Agents
  <2>2. PICK c \in Clients :
          /\ alive' = alive \ {c}
          /\ Fifo(a)' = Without(processingFIFO[a], c) \o Without(inputFIFO[a], c)
    BY <1>5, <2>1 DEF FifoDisconnected
  <2>3. /\ processingFIFO[a] \in Seq(Requests) /\ inputFIFO[a] \in Seq(Requests)
    BY DEF TypeOK
  <2>4. \A u : u = Without(processingFIFO[a], c) \o Without(inputFIFO[a], c) =>
          /\ Len(u) = Len(Fifo(a))
          /\ \A i \in 1 .. Len(u) :
               u[i] = IF Fifo(a)[i].client = c
                      THEN [client |-> None, query |-> Fifo(a)[i].query]
                      ELSE Fifo(a)[i]
    <3> DEFINE s == processingFIFO[a]
               t == inputFIFO[a]
    <3> HIDE DEF s, t
    <3>1. s \in Seq(Requests) /\ t \in Seq(Requests)
      BY <2>3 DEF s, t
    <3>2. LET u == Without(s, c) \o Without(t, c) IN
          /\ Len(u) = Len(s \o t)
          /\ \A i \in 1 .. Len(u) :
               u[i] = IF (s \o t)[i].client = c
                      THEN [client |-> None, query |-> (s \o t)[i].query]
                      ELSE (s \o t)[i]
      BY <3>1, WithoutBoth
    <3>3. Fifo(a) = s \o t
      BY DEF Fifo, s, t
    <3> QED
      BY <3>2, <3>3, Zenon DEF s, t
  <2>5. \A u : u = Without(processingFIFO[a], c) \o Without(inputFIFO[a], c) =>
          \A i \in 1 .. Len(u) : u[i].client \in (alive \ {c}) \cup {None}
    <3> SUFFICES ASSUME NEW u,
                        u = Without(processingFIFO[a], c) \o Without(inputFIFO[a], c),
                        NEW i \in 1 .. Len(u)
                 PROVE  u[i].client \in (alive \ {c}) \cup {None}
      OBVIOUS
    <3>1. Fifo(a)[i].client \in alive \cup {None}
      BY <2>1, <2>4 DEF Known
    <3>2. CASE Fifo(a)[i].client = c
      <4>1. u[i] = [client |-> None, query |-> Fifo(a)[i].query]
        BY <2>4, <3>2
      <4> QED
        BY <4>1
    <3>3. CASE Fifo(a)[i].client # c
      <4>1. u[i] = Fifo(a)[i]
        BY <2>4, <3>3
      <4> QED
        BY <3>1, <3>3, <4>1
    <3> QED
      BY <3>2, <3>3
  <2> QED
    BY <2>2, <2>5
<1> QED
  BY <1>3, <1>4, <1>5, FifoStep

\* When every client disconnects in its destructor, no agent that the manager
\* knows has a request of a client that is gone: processAnswer() never calls a
\* destroyed object.
THEOREM GoneClientsForgotten == ASSUME Careless = {} PROVE Spec => []KnownClients
<1>1. Init => Started /\ KnownClients
  BY SensorAssumption DEF Init, Started, KnownClients
<1>2. TypeOK /\ Started /\ KnownClients /\ [Next]_vars => Started' /\ KnownClients'
  BY StartedStep, KnownStep
<1> QED
  BY <1>1, <1>2, SensorTypeCorrect, PTL DEF Spec

------------------------------------------------------------------------------
(* Answers reach their requests                                             *)

\* f numbers the tokens t: f[i] is the place, in the FIFO, of the request whose
\* answer is read at place i.
Numbered(t, f) ==
    /\ f \in [1 .. Len(t) + 1 -> Int] /\ f[1] = 1
    /\ \A i \in 1 .. Len(t) : f[i + 1] = IF t[i].kind = "prompt" THEN f[i] + 1 ELSE f[i]
    /\ \A i, j \in 1 .. Len(t) + 1 : i <= j => f[i] <= f[j]

\* The tokens are answers to the requests in p.
Owned(t, f, p) ==
    \A i \in 1 .. Len(t) : t[i].kind \in {"line", "prompt"} =>
      f[i] <= Len(p) /\ t[i].of = p[f[i]].query

\* The daemon writes a message as a whole.
Whole(t) ==
    \A i \in 1 .. Len(t) : t[i].kind = "open" => i < Len(t) /\ t[i + 1].kind = "close"

\* The commands in c are those of the requests not answered yet.
Queued(t, f, p, c) ==
    /\ Len(p) = f[Len(t) + 1] - 1 + Len(c)
    /\ \A j \in 1 .. Len(c) : c[j] = p[f[Len(t) + 1] - 1 + j].query

Pipeline(t, p, c, up) ==
    /\ Whole(t)
    /\ \E f : Numbered(t, f) /\ Owned(t, f, p) /\ (up => Queued(t, f, p, c))

\* The lines in b are the beginning of the next answer.
Collected(b, p) == \A i \in 1 .. Len(b) : p # <<>> /\ b[i].of = p[1].query

LEMMA NothingOnItsWay == ASSUME NEW up PROVE Pipeline(<<>>, <<>>, <<>>, up)
<1> DEFINE f == [i \in 1 .. 1 |-> 1]
<1>1. Numbered(<<>>, f)
  BY DEF Numbered
<1>2. Owned(<<>>, f, <<>>) /\ Queued(<<>>, f, <<>>, <<>>) /\ Whole(<<>>)
  BY DEF Owned, Queued, Whole
<1> QED
  BY <1>1, <1>2 DEF Pipeline

\* The first token is taken away.
LEMMA DropNumber ==
    ASSUME NEW t \in Seq(Tokens), t # <<>>, NEW f, Numbered(t, f)
    PROVE  \E g : /\ Numbered(Tail(t), g)
                  /\ \A i \in 1 .. Len(Tail(t)) + 1 :
                       g[i] = f[i + 1] - (IF t[1].kind = "prompt" THEN 1 ELSE 0)
<1> DEFINE d == IF t[1].kind = "prompt" THEN 1 ELSE 0
           n == Len(Tail(t))
           g == [i \in 1 .. n + 1 |-> f[i + 1] - d]
<1>1. n \in Nat /\ Len(t) = n + 1 /\ \A i \in 1 .. n : Tail(t)[i] = t[i + 1]
  BY HeadTailProperties
<1>2. /\ f \in [1 .. n + 2 -> Int] /\ f[1] = 1
      /\ \A i \in 1 .. n + 1 : f[i + 1] = IF t[i].kind = "prompt" THEN f[i] + 1 ELSE f[i]
      /\ \A i, j \in 1 .. n + 2 : i <= j => f[i] <= f[j]
  BY <1>1 DEF Numbered
<1>3. d \in Int /\ f[2] - d = 1
  BY <1>2
<1> HIDE DEF d
<1>4. g \in [1 .. n + 1 -> Int] /\ g[1] = 1
  BY <1>1, <1>2, <1>3
<1>5. \A i \in 1 .. n : g[i + 1] = IF Tail(t)[i].kind = "prompt" THEN g[i] + 1 ELSE g[i]
  <2> SUFFICES ASSUME NEW i \in 1 .. n
               PROVE  g[i + 1] = IF Tail(t)[i].kind = "prompt" THEN g[i] + 1 ELSE g[i]
    OBVIOUS
  <2>1. /\ f[i + 2] = IF t[i + 1].kind = "prompt" THEN f[i + 1] + 1 ELSE f[i + 1]
        /\ f[i + 1] \in Int /\ f[i + 2] \in Int
        /\ g[i + 1] = f[i + 2] - d /\ g[i] = f[i + 1] - d /\ Tail(t)[i] = t[i + 1]
    <3>1. i + 1 \in 1 .. n + 1 /\ (i + 1) + 1 = i + 2
      BY <1>1
    <3> QED BY <1>1, <1>2, <3>1
  <2> QED
    BY <1>3, <2>1
<1>6. \A i, j \in 1 .. n + 1 : i <= j => g[i] <= g[j]
  <2> SUFFICES ASSUME NEW i \in 1 .. n + 1, NEW j \in 1 .. n + 1, i <= j PROVE g[i] <= g[j]
    OBVIOUS
  <2>1. i + 1 \in 1 .. n + 2 /\ j + 1 \in 1 .. n + 2 /\ i + 1 <= j + 1
    BY <1>1
  <2>2. f[i + 1] <= f[j + 1] /\ f[i + 1] \in Int /\ f[j + 1] \in Int
    BY <1>2, <2>1
  <2>3. g[i] = f[i + 1] - d /\ g[j] = f[j + 1] - d
    OBVIOUS
  <2> QED
    BY <1>3, <2>2, <2>3
<1>7. Numbered(Tail(t), g)
  BY <1>1, <1>4, <1>5, <1>6 DEF Numbered
<1> QED
  BY <1>7 DEF d

LEMMA DropWhole ==
    ASSUME NEW t \in Seq(Tokens), t # <<>>, Whole(t)
    PROVE  Whole(Tail(t)) /\ (t[1].kind = "open" => Len(t) > 1 /\ t[2].kind = "close")
<1>1. /\ Len(t) \in Nat /\ Len(t) >= 1 /\ Len(Tail(t)) = Len(t) - 1
      /\ \A i \in 1 .. Len(Tail(t)) : Tail(t)[i] = t[i + 1]
  BY HeadTailProperties
<1>2. Whole(Tail(t))
  BY <1>1 DEF Whole
<1> QED
  BY <1>1, <1>2 DEF Whole

LEMMA TailQuery ==
    ASSUME NEW S, NEW p \in Seq(S), p # <<>>
    PROVE  /\ Tail(p) \in Seq(S) /\ Len(Tail(p)) = Len(p) - 1 /\ Len(p) \in Nat \ {0}
           /\ \A i \in 1 .. Len(p) - 1 : Tail(p)[i] = p[i + 1]
  BY HeadTailProperties

LEMMA DropOther ==
    ASSUME NEW t \in Seq(Tokens), t # <<>>, NEW p, NEW c, NEW up,
           Pipeline(t, p, c, up), t[1].kind # "prompt"
    PROVE  /\ Pipeline(Tail(t), p, c, up)
           /\ t[1].kind = "line" => Len(p) >= 1 /\ t[1].of = p[1].query
           /\ t[1].kind = "open" => Len(t) > 1 /\ t[2].kind = "close"
<1>1. PICK f : Numbered(t, f) /\ Owned(t, f, p) /\ (up => Queued(t, f, p, c))
  BY DEF Pipeline
<1>2. PICK g : Numbered(Tail(t), g) /\ \A i \in 1 .. Len(Tail(t)) + 1 : g[i] = f[i + 1] - 0
  BY <1>1, DropNumber
<1>3. /\ Len(t) \in Nat /\ Len(t) >= 1 /\ Len(Tail(t)) = Len(t) - 1
      /\ \A i \in 1 .. Len(Tail(t)) : Tail(t)[i] = t[i + 1]
  BY HeadTailProperties
<1>4. f \in [1 .. Len(t) + 1 -> Int] /\ f[1] = 1
  BY <1>1 DEF Numbered
<1>5. \A i \in 1 .. Len(Tail(t)) + 1 : g[i] = f[i + 1]
  BY <1>2, <1>3, <1>4
<1>6. Owned(Tail(t), g, p)
  BY <1>1, <1>3, <1>5 DEF Owned
<1>7. up => Queued(Tail(t), g, p, c)
  <2>1. g[Len(Tail(t)) + 1] = f[Len(t) + 1]
    BY <1>3, <1>5
  <2> QED
    BY <1>1, <2>1 DEF Queued
<1>8. Whole(Tail(t)) /\ (t[1].kind = "open" => Len(t) > 1 /\ t[2].kind = "close")
  BY DropWhole DEF Pipeline
<1>9. t[1].kind = "line" => Len(p) >= 1 /\ t[1].of = p[1].query
  BY <1>1, <1>3, <1>4 DEF Owned
<1> QED
  BY <1>2, <1>6, <1>7, <1>8, <1>9 DEF Pipeline

LEMMA DropPrompt ==
    ASSUME NEW t \in Seq(Tokens), t # <<>>, NEW p \in Seq(Requests), NEW c \in Seq(Queries),
           NEW up, Pipeline(t, p, c, up), t[1].kind = "prompt"
    PROVE  p # <<>> /\ t[1].of = p[1].query /\ Pipeline(Tail(t), Tail(p), c, up)
<1>1. PICK f : Numbered(t, f) /\ Owned(t, f, p) /\ (up => Queued(t, f, p, c))
  BY DEF Pipeline
<1>2. PICK g : Numbered(Tail(t), g) /\ \A i \in 1 .. Len(Tail(t)) + 1 : g[i] = f[i + 1] - 1
  BY <1>1, DropNumber
<1>3. /\ Len(t) \in Nat /\ Len(t) >= 1 /\ Len(Tail(t)) = Len(t) - 1
      /\ \A i \in 1 .. Len(Tail(t)) : Tail(t)[i] = t[i + 1]
  BY HeadTailProperties
<1>4. /\ f \in [1 .. Len(t) + 1 -> Int] /\ f[1] = 1 /\ f[2] = 2
      /\ \A i \in 1 .. Len(t) : f[i + 1] >= 2
  BY <1>1, <1>3 DEF Numbered
<1>5. Len(p) >= 1 /\ t[1].of = p[1].query
  BY <1>1, <1>3, <1>4 DEF Owned
<1>6. p # <<>>
  BY <1>5
<1>7. /\ Len(Tail(p)) = Len(p) - 1 /\ Len(p) \in Nat
      /\ \A i \in 1 .. Len(p) - 1 : Tail(p)[i] = p[i + 1]
  BY <1>6, TailQuery
<1>8. Owned(Tail(t), g, Tail(p))
  <2> SUFFICES ASSUME NEW i \in 1 .. Len(Tail(t)), Tail(t)[i].kind \in {"line", "prompt"}
               PROVE  g[i] <= Len(Tail(p)) /\ Tail(t)[i].of = Tail(p)[g[i]].query
    BY DEF Owned
  <2>1. i + 1 \in 1 .. Len(t) /\ Tail(t)[i] = t[i + 1]
    BY <1>3
  <2>2. f[i + 1] <= Len(p) /\ t[i + 1].of = p[f[i + 1]].query
    BY <1>1, <2>1 DEF Owned
  <2>3. g[i] = f[i + 1] - 1 /\ f[i + 1] \in Int /\ f[i + 1] >= 2
    BY <1>2, <1>3, <1>4, <2>1
  <2>4. Tail(p)[g[i]] = p[f[i + 1]]
    <3>1. g[i] \in 1 .. Len(p) - 1 /\ g[i] + 1 = f[i + 1]
      BY <1>7, <2>2, <2>3
    <3> QED
      BY <1>7, <3>1
  <2> QED
    BY <1>7, <2>1, <2>2, <2>3, <2>4
<1>9. up => Queued(Tail(t), g, Tail(p), c)
  <2> SUFFICES ASSUME up PROVE Queued(Tail(t), g, Tail(p), c)
    OBVIOUS
  <2> DEFINE m == f[Len(t) + 1]
  <2>1. g[Len(Tail(t)) + 1] = m - 1 /\ m \in Int /\ m >= 2
    BY <1>2, <1>3, <1>4
  <2>2. Len(p) = m - 1 + Len(c) /\ \A j \in 1 .. Len(c) : c[j] = p[m - 1 + j].query
    BY <1>1 DEF Queued
  <2> HIDE DEF m
  <2>3. Len(c) \in Nat
    OBVIOUS
  <2>4. \A j \in 1 .. Len(c) : Tail(p)[m - 2 + j] = p[m - 1 + j]
    <3> SUFFICES ASSUME NEW j \in 1 .. Len(c) PROVE Tail(p)[m - 2 + j] = p[m - 1 + j]
      OBVIOUS
    <3>1. m - 2 + j \in 1 .. Len(p) - 1 /\ (m - 2 + j) + 1 = m - 1 + j
      BY <2>1, <2>2, <2>3
    <3> QED
      BY <1>7, <3>1
  <2>5. \A j \in 1 .. Len(c) : c[j] = Tail(p)[(m - 1) - 1 + j].query
    <3> SUFFICES ASSUME NEW j \in 1 .. Len(c) PROVE c[j] = Tail(p)[(m - 1) - 1 + j].query
      OBVIOUS
    <3>1. (m - 1) - 1 + j = m - 2 + j
      BY <2>1
    <3> QED
      BY <2>2, <2>4, <3>1
  <2> QED
    BY <1>7, <2>1, <2>2, <2>3, <2>5 DEF Queued
<1>10. Whole(Tail(t))
  BY DropWhole DEF Pipeline
<1> QED
  BY <1>2, <1>5, <1>6, <1>8, <1>9, <1>10 DEF Pipeline

\* A request is written: the daemon gets its command, if it is still there.
LEMMA WrittenPipeline ==
    ASSUME NEW t \in Seq(Tokens), NEW p \in Seq(Requests), NEW r \in Requests,
           NEW c \in Seq(Queries), NEW up, Pipeline(t, p, c, up),
           NEW d, up => d = Append(c, r.query)
    PROVE  Pipeline(t, Append(p, r), d, up)
<1>1. PICK f : Numbered(t, f) /\ Owned(t, f, p) /\ (up => Queued(t, f, p, c))
  BY DEF Pipeline
<1> DEFINE n == Len(t)
           q == Append(p, r)
<1>2. /\ Len(q) = Len(p) + 1 /\ q[Len(p) + 1] = r /\ Len(p) \in Nat
      /\ \A i \in 1 .. Len(p) : q[i] = p[i]
  BY AppendProperties
<1>3. n \in Nat /\ f \in [1 .. n + 1 -> Int] /\ f[1] = 1 /\ \A i \in 1 .. n + 1 : f[i] >= 1
  BY <1>1 DEF Numbered
<1> HIDE DEF q, n
<1>4. Owned(t, f, q)
  <2> SUFFICES ASSUME NEW i \in 1 .. Len(t), t[i].kind \in {"line", "prompt"}
               PROVE  f[i] <= Len(q) /\ t[i].of = q[f[i]].query
    BY DEF Owned
  <2>1. f[i] <= Len(p) /\ t[i].of = p[f[i]].query
    BY <1>1 DEF Owned
  <2>2. f[i] \in 1 .. Len(p)
    BY <1>2, <1>3, <2>1 DEF n
  <2> QED
    BY <1>2, <2>1, <2>2
<1>5. up => Queued(t, f, q, d)
  <2> SUFFICES ASSUME up PROVE Queued(t, f, q, d)
    OBVIOUS
  <2> DEFINE m == f[n + 1]
  <2>1. m \in Int /\ m >= 1
    BY <1>3
  <2>2. Len(p) = m - 1 + Len(c) /\ \A j \in 1 .. Len(c) : c[j] = p[m - 1 + j].query
    BY <1>1 DEF Queued, n
  <2>3. /\ Len(c) \in Nat /\ d = Append(c, r.query) /\ Len(d) = Len(c) + 1
        /\ d[Len(c) + 1] = r.query /\ \A j \in 1 .. Len(c) : d[j] = c[j]
    <3>1. r.query \in Queries
      BY DEF Requests
    <3> QED
      BY <3>1, AppendProperties
  <2> HIDE DEF m
  <2>4. \A j \in 1 .. Len(d) : d[j] = q[m - 1 + j].query
    <3> SUFFICES ASSUME NEW j \in 1 .. Len(d) PROVE d[j] = q[m - 1 + j].query
      OBVIOUS
    <3>1. CASE j \in 1 .. Len(c)
      <4>1. m - 1 + j \in 1 .. Len(p)
        BY <2>1, <2>2, <2>3, <3>1
      <4> QED
        BY <1>2, <2>2, <2>3, <3>1, <4>1
    <3>2. CASE j = Len(c) + 1
      <4>1. m - 1 + j = Len(p) + 1
        BY <2>1, <2>2, <2>3, <3>2
      <4> QED
        BY <1>2, <2>3, <3>2, <4>1
    <3> QED
      BY <2>3, <3>1, <3>2
  <2>5. Len(q) = m - 1 + Len(d)
    BY <1>2, <2>1, <2>2, <2>3
  <2> QED
    BY <2>4, <2>5 DEF Queued, m, n
<1> QED
  BY <1>1, <1>4, <1>5 DEF Pipeline, q

\* A client disconnects: its requests keep their place and their query.
LEMMA DisconnectedPipeline ==
    ASSUME NEW t \in Seq(Tokens), NEW p \in Seq(Requests), NEW q, NEW c \in Seq(Queries),
           NEW up, Pipeline(t, p, c, up),
           Len(q) = Len(p), \A i \in 1 .. Len(p) : q[i].query = p[i].query
    PROVE  Pipeline(t, q, c, up)
<1>1. PICK f : Numbered(t, f) /\ Owned(t, f, p) /\ (up => Queued(t, f, p, c))
  BY DEF Pipeline
<1>2. /\ Len(t) \in Nat /\ f \in [1 .. Len(t) + 1 -> Int] /\ f[1] = 1
      /\ \A i \in 1 .. Len(t) + 1 : f[i] >= 1
  BY <1>1 DEF Numbered
<1>3. Owned(t, f, q)
  <2> SUFFICES ASSUME NEW i \in 1 .. Len(t), t[i].kind \in {"line", "prompt"}
               PROVE  f[i] <= Len(q) /\ t[i].of = q[f[i]].query
    BY DEF Owned
  <2>1. f[i] <= Len(p) /\ t[i].of = p[f[i]].query
    BY <1>1 DEF Owned
  <2>2. f[i] \in 1 .. Len(p)
    BY <1>2, <2>1
  <2> QED
    BY <2>1, <2>2
<1>4. up => Queued(t, f, q, c)
  <2> SUFFICES ASSUME up PROVE Queued(t, f, q, c)
    OBVIOUS
  <2> DEFINE m == f[Len(t) + 1]
  <2>1. m \in Int /\ m >= 1
    BY <1>2
  <2>2. Len(p) = m - 1 + Len(c) /\ \A j \in 1 .. Len(c) : c[j] = p[m - 1 + j].query
    BY <1>1 DEF Queued
  <2> HIDE DEF m
  <2>3. \A j \in 1 .. Len(c) : m - 1 + j \in 1 .. Len(p)
    BY <2>1, <2>2
  <2>4. \A j \in 1 .. Len(c) : c[j] = q[m - 1 + j].query
    BY <2>2, <2>3
  <2> QED
    BY <2>2, <2>4 DEF Queued, m
<1> QED
  BY <1>1, <1>3, <1>4 DEF Pipeline

\* The daemon answers the first command: some lines and messages, then a prompt.
AnswerOf(out, q) ==
    /\ out \in Seq(Tokens) /\ Len(out) >= 1
    /\ \A i \in 1 .. Len(out) :
         /\ out[i].kind = "prompt" <=> i = Len(out)
         /\ out[i].kind \in {"line", "prompt"} => out[i].of = q
    /\ Whole(out)

LEMMA WholeConcat ==
    ASSUME NEW t \in Seq(Tokens), NEW u \in Seq(Tokens), Whole(t), Whole(u)
    PROVE  Whole(t \o u)
<1> DEFINE s == t \o u
<1>1. /\ Len(s) = Len(t) + Len(u) /\ Len(t) \in Nat /\ Len(u) \in Nat
      /\ \A i \in 1 .. Len(s) : s[i] = IF i <= Len(t) THEN t[i] ELSE u[i - Len(t)]
  BY ConcatProperties
<1> HIDE DEF s
<1>2. ASSUME NEW i \in 1 .. Len(s), s[i].kind = "open"
      PROVE  i < Len(s) /\ s[i + 1].kind = "close"
  <2>1. CASE i <= Len(t)
    <3>1. i \in 1 .. Len(t) /\ s[i] = t[i]
      BY <1>1, <2>1
    <3>2. i < Len(t) /\ t[i + 1].kind = "close"
      BY <1>2, <3>1 DEF Whole
    <3>3. i + 1 \in 1 .. Len(s) /\ i + 1 <= Len(t)
      BY <1>1, <3>1, <3>2
    <3> QED
      BY <1>1, <3>2, <3>3
  <2>2. CASE i > Len(t)
    <3>1. i - Len(t) \in 1 .. Len(u) /\ s[i] = u[i - Len(t)]
      BY <1>1, <2>2
    <3>2. i - Len(t) < Len(u) /\ u[(i - Len(t)) + 1].kind = "close"
      BY <1>2, <3>1 DEF Whole
    <3>3. i + 1 \in 1 .. Len(s) /\ ~(i + 1 <= Len(t)) /\ (i + 1) - Len(t) = (i - Len(t)) + 1
      BY <1>1, <2>2, <3>1, <3>2
    <3> QED
      BY <1>1, <3>2, <3>3
  <2> QED
    BY <1>1, <2>1, <2>2
<1> QED
  BY <1>2 DEF Whole, s

\* Lines and messages of one command, without its prompt.
Said(b, q) ==
    /\ b \in Seq(Tokens) /\ Whole(b)
    /\ \A i \in 1 .. Len(b) : b[i].kind # "prompt" /\ (b[i].kind = "line" => b[i].of = q)

LEMMA SaidConcat ==
    ASSUME NEW q, NEW b, NEW c, Said(b, q), Said(c, q)
    PROVE  Said(b \o c, q)
<1> DEFINE s == b \o c
<1>1. /\ Len(s) = Len(b) + Len(c) /\ Len(b) \in Nat /\ Len(c) \in Nat /\ s \in Seq(Tokens)
      /\ \A i \in 1 .. Len(s) : s[i] = IF i <= Len(b) THEN b[i] ELSE c[i - Len(b)]
  BY ConcatProperties DEF Said
<1>2. Whole(s)
  BY WholeConcat DEF Said
<1> HIDE DEF s
<1>3. ASSUME NEW i \in 1 .. Len(s)
      PROVE  s[i].kind # "prompt" /\ (s[i].kind = "line" => s[i].of = q)
  <2>1. CASE i <= Len(b)
    BY <1>1, <2>1 DEF Said
  <2>2. CASE i > Len(b)
    <3>1. i - Len(b) \in 1 .. Len(c) /\ s[i] = c[i - Len(b)]
      BY <1>1, <2>2
    <3> QED
      BY <3>1 DEF Said
  <2> QED
    BY <1>1, <2>1, <2>2
<1> QED
  BY <1>1, <1>2, <1>3 DEF Said, s

LEMMA PromptEnds ==
    ASSUME NEW q, NEW b, NEW p \in Tokens, Said(b, q), p.kind = "prompt", p.of = q
    PROVE  AnswerOf(b \o <<p>>, q)
<1> DEFINE s == b \o <<p>>
<1>1. /\ Len(s) = Len(b) + 1 /\ Len(b) \in Nat /\ s \in Seq(Tokens)
      /\ s[Len(b) + 1] = p /\ \A i \in 1 .. Len(b) : s[i] = b[i]
  <2>1. s = Append(b, p) /\ b \in Seq(Tokens)
    BY AppendIsConcat DEF Said
  <2> QED
    BY <2>1, AppendProperties
<1>2. Whole(s)
  <2>1. Whole(<<p>>) /\ <<p>> \in Seq(Tokens)
    BY DEF Whole
  <2> QED
    BY <2>1, WholeConcat DEF Said
<1> HIDE DEF s
<1>3. ASSUME NEW i \in 1 .. Len(s)
      PROVE  /\ s[i].kind = "prompt" <=> i = Len(s)
             /\ s[i].kind \in {"line", "prompt"} => s[i].of = q
  <2>1. CASE i = Len(s)
    BY <1>1, <2>1
  <2>2. CASE i # Len(s)
    <3>1. i \in 1 .. Len(b) /\ s[i] = b[i]
      BY <1>1, <2>2
    <3> QED
      BY <2>2, <3>1 DEF Said
  <2> QED
    BY <2>1, <2>2
<1> QED
  BY <1>1, <1>2, <1>3 DEF AnswerOf, s

LEMMA AnswerShape ==
    ASSUME NEW q \in Queries, q \notin Long, NEW out \in Answers(q)
    PROVE  AnswerOf(out, q)
<1> DEFINE l == Token("line", q)
           o == Token("open", None)
           e == Token("close", None)
           p == Token("prompt", q)
<1>1. /\ l \in Tokens /\ o \in Tokens /\ e \in Tokens /\ p \in Tokens
      /\ l.kind = "line" /\ o.kind = "open" /\ e.kind = "close" /\ p.kind = "prompt"
      /\ l.of = q /\ p.of = q
  BY DEF Token, Tokens
<1>2. out \in {<<p>>, <<l>> \o <<p>>, <<l>> \o <<o, e>> \o <<p>>, <<o, e>> \o <<l>> \o <<p>>}
  BY DEF Answers
<1> HIDE DEF l, o, e, p
<1>3. Said(<<l>>, q) /\ Said(<<o, e>>, q)
  BY <1>1 DEF Said, Whole
<1>4. Said(<<l>> \o <<o, e>>, q) /\ Said(<<o, e>> \o <<l>>, q)
  BY <1>3, SaidConcat
<1>5. AnswerOf(<<p>>, q)
  BY <1>1 DEF AnswerOf, Whole
<1>6. /\ AnswerOf(<<l>> \o <<p>>, q)
      /\ AnswerOf(<<l>> \o <<o, e>> \o <<p>>, q) /\ AnswerOf(<<o, e>> \o <<l>> \o <<p>>, q)
  BY <1>1, <1>3, <1>4, PromptEnds
<1> QED
  BY <1>2, <1>5, <1>6

\* The daemon's answer to the first command follows what it has written before.
LEMMA AnsweredPipeline ==
    ASSUME NEW t \in Seq(Tokens), NEW p \in Seq(Requests), NEW c \in Seq(Queries), c # <<>>,
           NEW up, up, Pipeline(t, p, c, up), NEW out, AnswerOf(out, Head(c))
    PROVE  Pipeline(t \o out, p, Tail(c), up)
<1>1. PICK f : Numbered(t, f) /\ Owned(t, f, p) /\ Queued(t, f, p, c)
  BY DEF Pipeline
<1> DEFINE s == t \o out
           n == Len(t)
           k == Len(out)
           m == f[n + 1]
           g == [i \in 1 .. n + k + 1 |->
                   IF i <= n THEN f[i] ELSE IF i <= n + k THEN m ELSE m + 1]
<1>2. /\ Len(s) = n + k /\ n \in Nat /\ k \in Nat /\ k >= 1
      /\ \A i \in 1 .. n + k : s[i] = IF i <= n THEN t[i] ELSE out[i - n]
  BY ConcatProperties DEF AnswerOf
<1>3. /\ f \in [1 .. n + 1 -> Int] /\ f[1] = 1 /\ m \in Int /\ m >= 1
      /\ \A i \in 1 .. n : f[i + 1] = IF t[i].kind = "prompt" THEN f[i] + 1 ELSE f[i]
      /\ \A i, j \in 1 .. n + 1 : i <= j => f[i] <= f[j]
  BY <1>1, <1>2 DEF Numbered
<1>4. /\ \A i \in 1 .. k : out[i].kind = "prompt" <=> i = k
      /\ \A i \in 1 .. k : out[i].kind \in {"line", "prompt"} => out[i].of = Head(c)
      /\ Whole(out)
  BY DEF AnswerOf
<1>w. Whole(s)
  BY <1>4, WholeConcat DEF AnswerOf, Pipeline
<1>5. /\ Len(p) = m - 1 + Len(c) /\ Len(c) \in Nat /\ Len(c) >= 1
      /\ Head(c) = p[m].query
      /\ \A j \in 1 .. Len(c) : c[j] = p[m - 1 + j].query
  <2>1. Len(c) \in Nat /\ Len(c) >= 1 /\ Head(c) = c[1]
    BY HeadTailProperties
  <2>2. Len(p) = m - 1 + Len(c) /\ \A j \in 1 .. Len(c) : c[j] = p[m - 1 + j].query
    BY <1>1 DEF Queued
  <2>3. m - 1 + 1 = m
    BY <1>3
  <2> QED
    BY <2>1, <2>2, <2>3
<1>6. /\ g \in [1 .. n + k + 1 -> Int]
      /\ \A i \in 1 .. n + k + 1 :
           g[i] = IF i <= n THEN f[i] ELSE IF i <= n + k THEN m ELSE m + 1
      /\ \A i \in 1 .. n + 1 : g[i] = f[i]
  BY <1>2, <1>3
<1> HIDE DEF s, g, m, k, n
<1>7. Numbered(s, g)
  <2>1. g[1] = 1
    BY <1>2, <1>3, <1>6
  <2>2. ASSUME NEW i \in 1 .. n + k
        PROVE  g[i + 1] = IF s[i].kind = "prompt" THEN g[i] + 1 ELSE g[i]
    <3>1. CASE i <= n
      <4>1. i + 1 \in 1 .. n + 1 /\ i \in 1 .. n /\ s[i] = t[i]
        BY <1>2, <3>1
      <4>2. g[i] = f[i] /\ g[i + 1] = f[i + 1]
        BY <1>2, <1>6, <4>1
      <4> QED
        BY <1>3, <4>1, <4>2
    <3>2. CASE n < i /\ i < n + k
      <4>1. i - n \in 1 .. k /\ s[i] = out[i - n] /\ i - n # k
        BY <1>2, <3>2
      <4>2. g[i] = m /\ g[i + 1] = m
        <5>1. /\ i + 1 \in 1 .. n + k + 1 /\ ~(i + 1 <= n) /\ i + 1 <= n + k
              /\ i \in 1 .. n + k + 1 /\ ~(i <= n) /\ i <= n + k
          BY <1>2, <3>2
        <5> QED
          BY <1>6, <5>1
      <4> QED
        BY <1>4, <4>1, <4>2
    <3>3. CASE i = n + k
      <4>1. i - n \in 1 .. k /\ s[i] = out[i - n] /\ i - n = k
        BY <1>2, <3>3
      <4>2. g[i] = m /\ g[i + 1] = m + 1
        BY <1>2, <1>6, <3>3
      <4> QED
        BY <1>4, <4>1, <4>2
    <3> QED
      BY <1>2, <3>1, <3>2, <3>3
  <2>3. ASSUME NEW i \in 1 .. n + k + 1, NEW j \in 1 .. n + k + 1, i <= j
        PROVE  g[i] <= g[j]
    <3>1. \A x \in 1 .. n + 1 : f[x] <= m /\ f[x] \in Int
      <4>1. n + 1 \in 1 .. n + 1 /\ m = f[n + 1]
        BY <1>2 DEF m
      <4> QED
        BY <1>2, <1>3, <4>1
    <3>2. CASE j <= n
      <4>1. i \in 1 .. n + 1 /\ j \in 1 .. n + 1
        BY <1>2, <2>3, <3>2
      <4>2. g[i] = f[i] /\ g[j] = f[j]
        BY <1>6, <4>1
      <4> QED
        BY <1>3, <2>3, <4>1, <4>2
    <3>3. CASE j > n
      <4>1. g[i] \in Int /\ g[j] = IF j <= n + k THEN m ELSE m + 1
        BY <1>2, <1>6, <3>3
      <4>2. g[i] <= m \/ (g[i] = m + 1 /\ ~(i <= n + k))
        <5>1. CASE i <= n
          <6>1. i \in 1 .. n + 1 /\ g[i] = f[i]
            BY <1>2, <1>6, <5>1
          <6> QED
            BY <3>1, <6>1
        <5>2. CASE ~(i <= n)
          <6>1. g[i] = IF i <= n + k THEN m ELSE m + 1
            BY <1>6, <5>2
          <6> QED
            BY <1>3, <6>1
        <5> QED
          BY <5>1, <5>2
      <4>3. ~(i <= n + k) => ~(j <= n + k)
        BY <1>2, <2>3
      <4> QED
        BY <1>3, <4>1, <4>2, <4>3
    <3> QED
      BY <1>2, <3>2, <3>3
  <2> QED
    BY <1>2, <1>6, <2>1, <2>2, <2>3 DEF Numbered
<1>8. Owned(s, g, p)
  <2> SUFFICES ASSUME NEW i \in 1 .. n + k, s[i].kind \in {"line", "prompt"}
               PROVE  g[i] <= Len(p) /\ s[i].of = p[g[i]].query
    BY <1>2 DEF Owned
  <2>1. CASE i <= n
    <3>1. i \in 1 .. Len(t) /\ s[i] = t[i] /\ g[i] = f[i]
      BY <1>2, <1>6, <2>1 DEF n
    <3> QED
      BY <1>1, <3>1 DEF Owned
  <2>2. CASE i > n
    <3>1. i - n \in 1 .. k /\ s[i] = out[i - n] /\ g[i] = m
      BY <1>2, <1>6, <2>2
    <3>2. s[i].of = p[m].query
      BY <1>4, <1>5, <3>1
    <3> QED
      BY <1>3, <1>5, <3>1, <3>2
  <2> QED
    BY <1>2, <2>1, <2>2
<1>9. Queued(s, g, p, Tail(c))
  <2>1. g[Len(s) + 1] = m + 1
    BY <1>2, <1>6
  <2>2. /\ Len(Tail(c)) = Len(c) - 1
        /\ \A j \in 1 .. Len(c) - 1 : Tail(c)[j] = c[j + 1]
    BY HeadTailProperties
  <2>3. \A j \in 1 .. Len(c) - 1 : Tail(c)[j] = p[(m + 1) - 1 + j].query
    <3> SUFFICES ASSUME NEW j \in 1 .. Len(c) - 1
                 PROVE  Tail(c)[j] = p[(m + 1) - 1 + j].query
      OBVIOUS
    <3>1. j + 1 \in 1 .. Len(c) /\ m - 1 + (j + 1) = (m + 1) - 1 + j
      BY <1>3, <1>5
    <3> QED
      BY <1>5, <2>2, <3>1
  <2>4. Len(p) = (m + 1) - 1 + Len(Tail(c))
    BY <1>3, <1>5, <2>2
  <2> QED
    BY <2>1, <2>2, <2>3, <2>4 DEF Queued
<1> QED
  BY <1>w, <1>7, <1>8, <1>9 DEF Pipeline, s

------------------------------------------------------------------------------
\* Of an agent: nothing happens before it is created; until the daemon greets,
\* nothing is written to it; then the requests written and what is on its way
\* are in the same order, and the lines collected are of the next answer.
Unused(a) ==
    status[a] = "none" =>
      ~onLine[a] /\ leftOver[a] = <<>> /\ fromDaemon[a] = <<>> /\ toDaemon[a] = <<>>
Greets(a) ==
    status[a] = "alive" /\ ~onLine[a] =>
      /\ processingFIFO[a] = <<>> /\ toDaemon[a] = <<>>
      /\ \/ InFlight(a) = <<Token("line", None), Token("prompt", None)>>
         \/ InFlight(a) = <<Token("prompt", None)>>
Flows(a) ==
    status[a] \in {"alive", "doomed"} /\ onLine[a] =>
      Pipeline(InFlight(a), processingFIFO[a], toDaemon[a], daemon[a] = "up")
Collects(a) ==
    status[a] = "alive" /\ onLine[a] /\ ~(busy = a /\ call # None) =>
      Collected(answerBuffer[a], processingFIFO[a])
Held(a) == busy = a => status[a] = "alive" /\ leftOver[a] = <<>>
Piped(a) ==
    /\ Unused(a) /\ Greets(a) /\ Flows(a) /\ Collects(a) /\ Held(a)
    /\ status[a] = "deleted" => daemon[a] = "dead"

Calls == call # None => pc = "callback"

PipeInv == Calls /\ \A a \in Agents : Piped(a)

LEMMA FlightType == ASSUME TypeOK, NEW a \in Agents PROVE InFlight(a) \in Seq(Tokens)
<1>1. /\ buf \in Seq(Tokens) /\ <<>> \in Seq(Tokens)
      /\ leftOver[a] \in Seq(Tokens) /\ fromDaemon[a] \in Seq(Tokens)
  BY DEF TypeOK
<1>2. (IF busy = a THEN buf ELSE <<>>) \in Seq(Tokens)
  BY <1>1
<1> DEFINE first == IF busy = a THEN buf ELSE <<>>
<1>3. first \in Seq(Tokens) /\ InFlight(a) = (first \o leftOver[a]) \o fromDaemon[a]
  BY <1>2 DEF InFlight
<1> HIDE DEF first
<1> QED
  BY <1>1, <1>3, SeqFacts

LEMMA FirstOfConcat ==
    ASSUME NEW S, NEW t \in Seq(S), NEW u \in Seq(S), t # <<>>
    PROVE  /\ t \o u \in Seq(S) /\ t \o u # <<>>
           /\ Tail(t \o u) = Tail(t) \o u /\ (t \o u)[1] = t[1]
<1>1. Len(t) \in Nat /\ Len(t) >= 1
  BY HeadTailProperties
<1>2. (t \o u)[1] = t[1] /\ t \o u \in Seq(S)
  BY <1>1, ConcatProperties
<1> QED
  BY <1>2, TailOfFirst

\* What processAnswer() reads next is the first token on its way.
LEMMA ReadsFirst ==
    ASSUME TypeOK, NEW a \in Agents, busy = a, buf # <<>>
    PROVE  /\ InFlight(a) # <<>> /\ InFlight(a)[1] = Head(buf)
           /\ Tail(InFlight(a)) = (Tail(buf) \o leftOver[a]) \o fromDaemon[a]
<1>1. /\ buf \in Seq(Tokens) /\ leftOver[a] \in Seq(Tokens) /\ fromDaemon[a] \in Seq(Tokens)
      /\ InFlight(a) = (buf \o leftOver[a]) \o fromDaemon[a]
  BY DEF TypeOK, InFlight
<1> DEFINE here == buf \o leftOver[a]
           rest == fromDaemon[a]
<1>2. /\ here \in Seq(Tokens) /\ here # <<>> /\ InFlight(a) = here \o rest
      /\ here[1] = buf[1] /\ Tail(here) = Tail(buf) \o leftOver[a]
  BY <1>1, FirstOfConcat
<1>3. rest \in Seq(Tokens)
  BY <1>1
<1> HIDE DEF here, rest
<1>4. /\ InFlight(a) # <<>> /\ InFlight(a)[1] = here[1]
      /\ Tail(InFlight(a)) = Tail(here) \o rest
  BY <1>2, <1>3, FirstOfConcat
<1>5. Head(buf) = buf[1]
  OBVIOUS
<1> QED
  BY <1>2, <1>4, <1>5 DEF rest

\* A step that leaves all of an agent alone.
LEMMA PipedSame ==
    ASSUME NEW b \in Agents, Piped(b), InFlight(b)' = InFlight(b),
           status'[b] = status[b], onLine'[b] = onLine[b],
           processingFIFO'[b] = processingFIFO[b], toDaemon'[b] = toDaemon[b],
           daemon'[b] = daemon[b], fromDaemon'[b] = fromDaemon[b],
           leftOver'[b] = leftOver[b], answerBuffer'[b] = answerBuffer[b],
           busy' = b <=> busy = b, busy = b => (call' = None <=> call = None)
    PROVE  Piped(b)'
<1>1. Unused(b)' /\ Greets(b)' /\ Held(b)' /\ (status'[b] = "deleted" => daemon'[b] = "dead")
  BY DEF Piped, Unused, Greets, Held
<1>2. Flows(b)'
  BY DEF Piped, Flows
<1>3. Collects(b)'
  BY DEF Piped, Collects
<1> QED
  BY <1>1, <1>2, <1>3 DEF Piped

\* A first command is written.
LEMMA CollectedAppend ==
    ASSUME NEW l, NEW p \in Seq(Requests), NEW r \in Requests, Collected(l, p)
    PROVE  Collected(l, Append(p, r))
<1>1. /\ Append(p, r) # <<>> /\ Len(p) \in Nat
      /\ p # <<>> => Append(p, r)[1] = p[1]
  <2>1. Append(p, r) # <<>> /\ \A i \in 1 .. Len(p) : Append(p, r)[i] = p[i]
    BY AppendProperties
  <2>2. p # <<>> => Len(p) >= 1
    OBVIOUS
  <2> QED
    BY <2>1, <2>2
<1> QED
  BY <1>1 DEF Collected

LEMMA WriteKeepsPiped ==
    ASSUME TypeOK, NEW a \in Agents, status[a] = "alive", onLine[a],
           NEW in \in Seq(Requests), in # <<>>, WriteFirst(a, in),
           NEW b \in Agents, Piped(b), InFlight(b)' = InFlight(b),
           UNCHANGED <<status, onLine, leftOver, daemon, fromDaemon, answerBuffer, call>>,
           busy' = b => busy = b, busy = b /\ busy' # b => call = None
    PROVE  Piped(b)'
<1>1. CASE b # a
  <2>1. processingFIFO'[b] = processingFIFO[b] /\ toDaemon'[b] = toDaemon[b]
    BY <1>1 DEF WriteFirst, Put, TypeOK
  <2>2. Unused(b)' /\ Greets(b)' /\ Held(b)' /\ (status'[b] = "deleted" => daemon'[b] = "dead")
    BY <2>1 DEF Piped, Unused, Greets, Held
  <2>3. Flows(b)'
    BY <2>1 DEF Piped, Flows
  <2>4. Collects(b)'
    BY <2>1 DEF Piped, Collects
  <2> QED
    BY <2>2, <2>3, <2>4 DEF Piped
<1>2. CASE b = a
  <2> DEFINE r == Head(in)
             p == processingFIFO[b]
             c == toDaemon[b]
  <2>1. /\ r \in Requests /\ r.query \in Queries /\ p \in Seq(Requests) /\ c \in Seq(Queries)
    <3>1. r \in Requests
      BY SeqFacts
    <3>2. p \in Seq(Requests) /\ c \in Seq(Queries)
      BY DEF TypeOK
    <3> HIDE DEF r
    <3> QED
      BY <3>1, <3>2 DEF Requests
  <2>2. /\ processingFIFO'[b] = Append(p, r)
        /\ daemon[b] = "up" => toDaemon'[b] = Append(c, r.query)
    BY <1>2 DEF WriteFirst, Put, TypeOK
  <2>3. Flows(b)'
    <3>1. InFlight(b) \in Seq(Tokens)
      BY FlightType
    <3>2. Pipeline(InFlight(b), p, c, daemon[b] = "up")
      BY <1>2 DEF Piped, Flows
    <3> HIDE DEF r, p, c
    <3>3. Pipeline(InFlight(b), Append(p, r), toDaemon'[b], daemon[b] = "up")
      BY <2>1, <2>2, <3>1, <3>2, WrittenPipeline
    <3> QED
      BY <2>2, <3>3 DEF Flows
  <2>4. Collects(b)'
    <3> SUFFICES ASSUME ~(busy' = b /\ call' # None)
                 PROVE  Collected(answerBuffer'[b], processingFIFO'[b])
      BY DEF Collects
    <3>1. Collected(answerBuffer[b], p)
      BY <1>2 DEF Piped, Collects
    <3> HIDE DEF r, p
    <3> QED
      BY <2>1, <2>2, <3>1, CollectedAppend
  <2>5. Unused(b)' /\ Greets(b)' /\ Held(b)' /\ (status'[b] = "deleted" => daemon'[b] = "dead")
    BY <1>2 DEF Piped, Unused, Greets, Held
  <2> QED
    BY <2>3, <2>4, <2>5 DEF Piped
<1> QED
  BY <1>1, <1>2

LEMMA ExecuteKeepsPiped ==
    ASSUME ~Socket, TypeOK, NEW a \in Agents, status[a] = "alive",
           NEW in \in Seq(Requests), ExecuteCommand(a, in),
           NEW b \in Agents, Piped(b), InFlight(b)' = InFlight(b),
           UNCHANGED <<status, onLine, leftOver, daemon, fromDaemon, answerBuffer, call>>,
           busy' = b => busy = b, busy = b /\ busy' # b => call = None
    PROVE  Piped(b)'
<1>1. CASE onLine[a] /\ in # <<>>
  <2>1. WriteFirst(a, in)
    BY <1>1 DEF ExecuteCommand
  <2> QED
    BY <1>1, <2>1, WriteKeepsPiped
<1>2. CASE ~(onLine[a] /\ in # <<>>)
  <2>1. processingFIFO' = processingFIFO /\ toDaemon' = toDaemon
    BY <1>2 DEF ExecuteCommand
  <2>2. Unused(b)' /\ Greets(b)' /\ Held(b)' /\ (status'[b] = "deleted" => daemon'[b] = "dead")
    BY <2>1 DEF Piped, Unused, Greets, Held
  <2>3. Flows(b)'
    BY <2>1 DEF Piped, Flows
  <2>4. Collects(b)'
    BY <2>1 DEF Piped, Collects
  <2> QED
    BY <2>2, <2>3, <2>4 DEF Piped
<1> QED
  BY <1>1, <1>2

\* processAnswer() steps over a line ...
LEMMA LineKeepsPiped ==
    ASSUME TypeOK, PipeInv, ParseLine, NEW b \in Agents PROVE Piped(b)'
<1>1. /\ busy \in Agents /\ pc = "parse" /\ buf # <<>> /\ Head(buf).kind = "line"
      /\ answerBuffer' = Put(answerBuffer, busy, Append(answerBuffer[busy], Head(buf)))
      /\ buf' = Tail(buf) /\ call = None
      /\ UNCHANGED <<status, onLine, leftOver, daemon, fromDaemon, busy, call,
                     processingFIFO, toDaemon>>
  BY DEF ParseLine, Parsing, TypeOK, PipeInv, Calls, hosts, queues
<1>2. Piped(b)
  BY DEF PipeInv
<1>3. CASE b # busy
  <2>1. answerBuffer'[b] = answerBuffer[b] /\ InFlight(b)' = InFlight(b)
    BY <1>1, <1>3 DEF Put, TypeOK, InFlight
  <2> QED
    BY <1>1, <1>2, <2>1, PipedSame
<1>4. CASE b = busy
  <2> DEFINE t == InFlight(b)
             p == processingFIFO[b]
  <2>1. /\ t \in Seq(Tokens) /\ t # <<>> /\ t[1] = Head(buf) /\ InFlight(b)' = Tail(t)
        /\ Head(buf) \in Tokens /\ answerBuffer[b] \in Seq(Tokens)
    <3>1. InFlight(b)' = (Tail(buf) \o leftOver[b]) \o fromDaemon[b]
      BY <1>1, <1>4 DEF InFlight
    <3>2. Head(buf) \in Tokens /\ answerBuffer[b] \in Seq(Tokens)
      BY <1>1, SeqFacts DEF TypeOK
    <3> QED
      BY <1>1, <1>4, <3>1, <3>2, FlightType, ReadsFirst
  <2>2. status[b] = "alive" /\ leftOver[b] = <<>>
    BY <1>2, <1>4 DEF Piped, Held
  <2>3. CASE onLine[b]
    <3>1. Pipeline(t, p, toDaemon[b], daemon[b] = "up")
      BY <1>2, <2>2, <2>3 DEF Piped, Flows
    <3>2. /\ Pipeline(Tail(t), p, toDaemon[b], daemon[b] = "up")
          /\ Len(p) >= 1 /\ Head(buf).of = p[1].query
      <4> HIDE DEF t, p
      <4> QED
        BY <1>1, <2>1, <3>1, DropOther
    <3>3. Flows(b)'
      BY <1>1, <2>1, <3>2 DEF Flows
    <3>4. Collected(answerBuffer[b], p)
      BY <1>1, <1>2, <2>2, <2>3 DEF Piped, Collects
    <3>5. Collected(Append(answerBuffer[b], Head(buf)), p)
      <4> DEFINE l == answerBuffer[b]
                 x == Head(buf)
      <4>1. /\ Len(Append(l, x)) = Len(l) + 1 /\ Append(l, x)[Len(l) + 1] = x
            /\ Len(l) \in Nat /\ \A i \in 1 .. Len(l) : Append(l, x)[i] = l[i]
        BY <2>1, AppendProperties
      <4>2. p # <<>> /\ x.of = p[1].query
        BY <3>2
      <4> HIDE DEF l, x, p
      <4> QED
        BY <3>4, <4>1, <4>2 DEF Collected, l, x
    <3>6. Collects(b)'
      BY <1>1, <1>4, <3>5 DEF Collects, Put, TypeOK
    <3>7. Unused(b)' /\ Greets(b)' /\ Held(b)' /\ status'[b] # "deleted"
      BY <1>1, <2>2, <2>3 DEF Unused, Greets, Held
    <3> QED
      BY <3>3, <3>6, <3>7 DEF Piped
  <2>4. CASE ~onLine[b]
    <3>1. /\ p = <<>> /\ toDaemon[b] = <<>>
          /\ \/ t = <<Token("line", None), Token("prompt", None)>>
             \/ t = <<Token("prompt", None)>>
      BY <1>2, <2>2, <2>4 DEF Piped, Greets
    <3>2. t[1].kind = "line"
      BY <1>1, <2>1
    <3> HIDE DEF t
    <3>3. t = <<Token("line", None), Token("prompt", None)>>
      BY <3>1, <3>2 DEF Token
    <3>4. Tail(t) = <<Token("prompt", None)>>
      BY <3>3
    <3> QED
      BY <1>1, <2>1, <2>2, <2>4, <3>1, <3>4
      DEF Piped, Unused, Greets, Flows, Collects, Held
  <2> QED
    BY <2>3, <2>4
<1> QED
  BY <1>3, <1>4

\* ... a message, whose end it may have to wait for ...
LEMMA MessageKeepsPiped ==
    ASSUME TypeOK, PipeInv, ParseMessage, NEW b \in Agents PROVE Piped(b)'
<1>1. /\ busy \in Agents /\ pc = "parse" /\ buf # <<>> /\ Head(buf).kind = "open"
      /\ call = None
      /\ UNCHANGED <<status, onLine, daemon, fromDaemon, answerBuffer, call,
                     processingFIFO, toDaemon>>
  BY DEF ParseMessage, Parsing, TypeOK, PipeInv, Calls, hosts, queues
<1>2. Piped(b)
  BY DEF PipeInv
<1>3. buf \in Seq(Tokens) /\ leftOver \in [Agents -> Seq(Tokens)] /\ busy # None
  BY <1>1, SensorAssumption DEF TypeOK, Agents
<1>4. CASE Len(buf) > 1 /\ buf' = Tail(Tail(buf)) /\ UNCHANGED <<leftOver, busy>>
  <2>1. CASE b # busy
    <3>1. InFlight(b)' = InFlight(b)
      BY <1>1, <1>4, <2>1 DEF InFlight
    <3> QED
      BY <1>1, <1>2, <1>4, <3>1, PipedSame
  <2>2. CASE b = busy
    <3> DEFINE t == InFlight(b)
               p == processingFIFO[b]
    <3>1. /\ t \in Seq(Tokens) /\ t # <<>> /\ t[1].kind = "open"
          /\ Tail(t) = (Tail(buf) \o leftOver[b]) \o fromDaemon[b]
      BY <1>1, <2>2, FlightType, ReadsFirst
    <3>2. status[b] = "alive" /\ leftOver[b] = <<>>
      BY <1>2, <2>2 DEF Piped, Held
    <3>3. onLine[b]
      <4> SUFFICES ASSUME ~onLine[b] PROVE FALSE
        OBVIOUS
      <4>1. \/ t = <<Token("line", None), Token("prompt", None)>>
            \/ t = <<Token("prompt", None)>>
        BY <1>2, <3>2 DEF Piped, Greets
      <4> HIDE DEF t
      <4> QED
        BY <3>1, <4>1 DEF Token
    <3>4. Tail(buf) \in Seq(Tokens) /\ Tail(buf) # <<>>
      <4>1. Tail(buf) \in Seq(Tokens) /\ Len(Tail(buf)) > 0
        BY <1>1, <1>3, <1>4, HeadTailProperties
      <4> QED
        BY <4>1, SeqFacts
    <3>5. /\ InFlight(b)' = Tail(Tail(t)) /\ Tail(t) # <<>> /\ Tail(t) \in Seq(Tokens)
      <4> DEFINE u == Tail(buf)
                 l == leftOver[b]
                 f == fromDaemon[b]
      <4>1. /\ InFlight(b)' = (Tail(u) \o l) \o f /\ Tail(t) = (u \o l) \o f
            /\ l \in Seq(Tokens) /\ f \in Seq(Tokens)
        BY <1>1, <1>3, <1>4, <2>2, <3>1 DEF InFlight, TypeOK
      <4>2. u \in Seq(Tokens) /\ u # <<>>
        BY <3>4
      <4> HIDE DEF u, l, f, t
      <4>3. u \o l \in Seq(Tokens) /\ u \o l # <<>> /\ Tail(u \o l) = Tail(u) \o l
        BY <4>1, <4>2, FirstOfConcat
      <4> DEFINE v == u \o l
      <4>5. v \in Seq(Tokens) /\ v # <<>>
        BY <4>3
      <4> HIDE DEF v
      <4>4. v \o f \in Seq(Tokens) /\ v \o f # <<>> /\ Tail(v \o f) = Tail(v) \o f
        BY <4>1, <4>5, FirstOfConcat
      <4> QED
        BY <4>1, <4>3, <4>4 DEF v
    <3>6. Pipeline(t, p, toDaemon[b], daemon[b] = "up")
      BY <1>2, <3>2, <3>3 DEF Piped, Flows
    <3> HIDE DEF t, p
    <3>7. /\ Pipeline(Tail(t), p, toDaemon[b], daemon[b] = "up")
          /\ Len(t) > 1 /\ t[2].kind = "close"
      BY <3>1, <3>6, DropOther
    <3>8. Tail(t)[1] = t[2]
      BY <3>1, <3>7, HeadTailProperties
    <3>9. Pipeline(Tail(Tail(t)), p, toDaemon[b], daemon[b] = "up")
      <4> DEFINE u == Tail(t)
      <4>1. /\ u \in Seq(Tokens) /\ u # <<>> /\ u[1].kind # "prompt"
            /\ Pipeline(u, p, toDaemon[b], daemon[b] = "up")
        BY <3>5, <3>7, <3>8
      <4> HIDE DEF u
      <4>2. Pipeline(Tail(u), p, toDaemon[b], daemon[b] = "up")
        BY <4>1, DropOther
      <4> QED
        BY <4>2 DEF u
    <3>10. Flows(b)'
      BY <1>1, <3>5, <3>9 DEF Flows, p
    <3>11. Unused(b)' /\ Greets(b)' /\ Held(b)' /\ status'[b] # "deleted"
      BY <1>1, <3>2, <3>3, <1>4 DEF Unused, Greets, Held
    <3>12. Collects(b)'
      BY <1>1, <1>2, <1>4 DEF Piped, Collects
    <3> QED
      BY <3>10, <3>11, <3>12 DEF Piped
  <2> QED
    BY <2>1, <2>2
<1>5. CASE /\ Len(buf) = 1 /\ leftOver' = Put(leftOver, busy, buf)
           /\ buf' = <<>> /\ busy' = None
  <2>1. busy' # b
    BY <1>5, SensorAssumption DEF Agents
  <2>2. CASE b # busy
    <3>1. leftOver'[b] = leftOver[b]
      BY <1>3, <1>5, <2>2 DEF Put
    <3>2. InFlight(b)' = InFlight(b)
      BY <1>1, <2>1, <2>2, <3>1 DEF InFlight
    <3> QED
      BY <1>1, <1>2, <2>1, <2>2, <3>1, <3>2, PipedSame
  <2>3. CASE b = busy
    <3>1. leftOver[b] = <<>> /\ leftOver'[b] = buf /\ status[b] = "alive"
      BY <1>2, <1>3, <1>5, <2>3 DEF Piped, Held, Put
    <3>2. InFlight(b)' = InFlight(b)
      <4>1. InFlight(b) = (buf \o <<>>) \o fromDaemon[b]
        BY <2>3, <3>1 DEF InFlight
      <4>2. InFlight(b)' = (<<>> \o buf) \o fromDaemon[b]
        BY <1>1, <2>1, <3>1 DEF InFlight
      <4> QED
        BY <1>3, <4>1, <4>2, ConcatEmptySeq
    <3>3. Unused(b)' /\ Greets(b)' /\ Held(b)' /\ status'[b] # "deleted"
      BY <1>1, <1>2, <2>1, <3>1, <3>2 DEF Piped, Unused, Greets, Held
    <3>4. Flows(b)'
      BY <1>1, <1>2, <3>2 DEF Piped, Flows
    <3>5. Collects(b)'
      BY <1>1, <1>2 DEF Piped, Collects
    <3> QED
      BY <3>3, <3>4, <3>5 DEF Piped
  <2> QED
    BY <2>2, <2>3
<1> QED
  BY <1>4, <1>5 DEF ParseMessage

\* ... and a prompt, which ends the answer to the first request.
LEMMA PromptKeepsPiped ==
    ASSUME TypeOK, PipeInv, ParsePrompt, NEW b \in Agents
    PROVE  Piped(b)' /\ (b = busy => call' = None \/ Routed')
<1>1. /\ busy \in Agents /\ pc = "parse" /\ buf # <<>> /\ Head(buf).kind = "prompt"
      /\ buf' = Tail(buf) /\ call = None /\ onLine' = Put(onLine, busy, TRUE)
      /\ UNCHANGED <<status, leftOver, daemon, fromDaemon, busy, toDaemon>>
      /\ processingFIFO' = IF onLine[busy] /\ processingFIFO[busy] # <<>>
                           THEN Put(processingFIFO, busy, Tail(processingFIFO[busy]))
                           ELSE processingFIFO
      /\ \/ /\ onLine[busy] /\ processingFIFO[busy] # <<>>
            /\ call' = [request |-> Head(processingFIFO[busy]),
                        answer |-> answerBuffer[busy], of |-> Head(buf).of]
            /\ answerBuffer' = answerBuffer
         \/ answerBuffer' = Put(answerBuffer, busy, <<>>) /\ call' = None
  BY DEF ParsePrompt, Parsing, TypeOK, PipeInv, Calls, hosts
<1>2. Piped(b)
  BY DEF PipeInv
<1>3. CASE b # busy
  <2>1. /\ answerBuffer'[b] = answerBuffer[b] /\ onLine'[b] = onLine[b]
        /\ processingFIFO'[b] = processingFIFO[b] /\ InFlight(b)' = InFlight(b)
    BY <1>1, <1>3 DEF Put, TypeOK, InFlight
  <2>2. Piped(b)'
    BY <1>1, <1>2, <1>3, <2>1, PipedSame
  <2> QED
    BY <1>3, <2>2
<1>4. CASE b = busy
  <2> DEFINE t == InFlight(b)
             p == processingFIFO[b]
             c == toDaemon[b]
  <2>1. /\ t \in Seq(Tokens) /\ t # <<>> /\ t[1] = Head(buf) /\ InFlight(b)' = Tail(t)
        /\ p \in Seq(Requests) /\ c \in Seq(Queries)
    <3>1. InFlight(b)' = (Tail(buf) \o leftOver[b]) \o fromDaemon[b]
      BY <1>1, <1>4 DEF InFlight
    <3>2. p \in Seq(Requests) /\ c \in Seq(Queries)
      BY DEF TypeOK
    <3> QED
      BY <1>1, <1>4, <3>1, <3>2, FlightType, ReadsFirst
  <2>2. status[b] = "alive" /\ leftOver[b] = <<>> /\ onLine'[b]
    BY <1>1, <1>2, <1>4 DEF Piped, Held, Put, TypeOK
  <2>3. Unused(b)' /\ Greets(b)' /\ Held(b)' /\ status'[b] # "deleted"
    BY <1>1, <2>2 DEF Unused, Greets, Held
  <2>4. CASE onLine[b]
    <3>1. Pipeline(t, p, c, daemon[b] = "up") /\ Collected(answerBuffer[b], p)
      BY <1>1, <1>2, <2>2, <2>4 DEF Piped, Flows, Collects
    <3>2. /\ p # <<>> /\ Head(buf).of = p[1].query
          /\ Pipeline(Tail(t), Tail(p), c, daemon[b] = "up")
      <4> HIDE DEF t, p, c
      <4> QED
        BY <1>1, <2>1, <3>1, DropPrompt
    <3>3. processingFIFO'[b] = Tail(p)
      BY <1>1, <1>4, <2>4, <3>2 DEF Put, TypeOK
    <3>4. Flows(b)'
      BY <1>1, <2>1, <3>2, <3>3 DEF Flows
    <3>5. CASE answerBuffer' = answerBuffer
               /\ call' = [request |-> Head(p), answer |-> answerBuffer[b], of |-> Head(buf).of]
      <4>1. call' # None
        <5>1. /\ Head(p) \in Requests /\ answerBuffer[b] \in Seq(Tokens)
              /\ Head(buf).of \in Queries \cup {None}
          <6>1. Head(p) \in Requests /\ buf \in Seq(Tokens)
            BY <2>1, <3>2, SeqFacts DEF TypeOK
          <6>2. Head(buf) \in Tokens
            BY <1>1, <6>1, SeqFacts
          <6> QED
            BY <6>1, <6>2 DEF TypeOK, Tokens
        <5>2. call' \in Deliveries
          BY <3>5, <5>1 DEF Deliveries
        <5> QED
          BY <5>2, NoneIsNoDelivery
      <4>2. Collects(b)'
        BY <1>1, <1>4, <4>1 DEF Collects
      <4>3. Routed'
        <5>1. /\ call'.of = Head(buf).of /\ call'.request = Head(p)
              /\ call'.answer = answerBuffer[b] /\ Head(p) = p[1]
          BY <2>1, <3>2, <3>5
        <5> QED
          BY <3>1, <3>2, <5>1 DEF Routed, Collected
      <4> QED
        BY <2>3, <3>4, <4>2, <4>3 DEF Piped
    <3>6. CASE answerBuffer' = Put(answerBuffer, busy, <<>>) /\ call' = None
      <4>1. answerBuffer'[b] = <<>>
        BY <1>4, <3>6 DEF Put, TypeOK
      <4>2. Collects(b)'
        BY <4>1 DEF Collects, Collected
      <4> QED
        BY <2>3, <3>4, <3>6, <4>2 DEF Piped
    <3> QED
      BY <1>1, <1>4, <3>5, <3>6
  <2>5. CASE ~onLine[b]
    <3>1. /\ p = <<>> /\ c = <<>>
          /\ \/ t = <<Token("line", None), Token("prompt", None)>>
             \/ t = <<Token("prompt", None)>>
      BY <1>2, <2>2, <2>5 DEF Piped, Greets
    <3>2. t[1].kind = "prompt"
      BY <1>1, <2>1
    <3>3. Tail(t) = <<>>
      <4> HIDE DEF t
      <4>1. t = <<Token("prompt", None)>>
        BY <3>1, <3>2 DEF Token
      <4> QED
        BY <4>1
    <3>4. call' = None /\ answerBuffer'[b] = <<>> /\ processingFIFO'[b] = <<>>
      BY <1>1, <1>4, <2>5, <3>1 DEF Put, TypeOK
    <3>5. Pipeline(<<>>, <<>>, <<>>, daemon[b] = "up")
      BY NothingOnItsWay
    <3>6. Flows(b)'
      BY <1>1, <2>1, <3>1, <3>3, <3>4, <3>5 DEF Flows
    <3>7. Collects(b)'
      BY <3>4 DEF Collects, Collected
    <3> QED
      BY <2>3, <3>4, <3>6, <3>7 DEF Piped
  <2> QED
    BY <2>4, <2>5
<1> QED
  BY <1>3, <1>4

\* A chunk moves from the pipe to the buffer.
LEMMA ReadKeepsPiped ==
    ASSUME TypeOK, PipeInv, NEW a \in Agents, NEW n \in 0 .. Len(fromDaemon[a]), Read(a, n),
           NEW b \in Agents
    PROVE  Piped(b)'
<1>1. /\ pc = "loop" /\ status[a] = "alive" /\ busy = None /\ busy' = a /\ call = None
      /\ fromDaemon' = Put(fromDaemon, a, SubSeq(fromDaemon[a], n + 1, Len(fromDaemon[a])))
      /\ leftOver' = Put(leftOver, a, <<>>)
      /\ buf' = leftOver[a] \o SubSeq(fromDaemon[a], 1, n)
      /\ UNCHANGED <<status, onLine, daemon, answerBuffer, call, processingFIFO, toDaemon>>
  BY DEF Read, TypeOK, PipeInv, Calls, hosts, queues
<1>2. Piped(b) /\ b # None
  BY SensorAssumption DEF PipeInv, Agents
<1>3. CASE b # a
  <2>1. fromDaemon'[b] = fromDaemon[b] /\ leftOver'[b] = leftOver[b]
    BY <1>1, <1>3 DEF Put, TypeOK
  <2>2. InFlight(b)' = InFlight(b)
    BY <1>1, <1>2, <1>3, <2>1 DEF InFlight
  <2> QED
    BY <1>1, <1>2, <1>3, <2>1, <2>2, PipedSame
<1>4. CASE b = a
  <2> DEFINE f == fromDaemon[b]
             l == leftOver[b]
             x == SubSeq(f, 1, n)
             y == SubSeq(f, n + 1, Len(f))
  <2>1. f \in Seq(Tokens) /\ l \in Seq(Tokens)
    BY DEF TypeOK
  <2>2. x \in Seq(Tokens) /\ y \in Seq(Tokens) /\ x \o y = f
    <3>1. n \in 0 .. Len(f)
      BY <1>4
    <3> HIDE DEF f
    <3>2. /\ Len(f) \in Nat /\ x \in Seq(Tokens) /\ Len(x) = n
          /\ y \in Seq(Tokens) /\ Len(y) = Len(f) - n
          /\ \A i \in 1 .. n : x[i] = f[i]
          /\ \A i \in 1 .. Len(f) - n : y[i] = f[n + i]
      BY <2>1, <3>1
    <3> HIDE DEF x, y
    <3>3. /\ x \o y \in Seq(Tokens) /\ Len(x \o y) = Len(f)
          /\ \A i \in 1 .. Len(f) : (x \o y)[i] = f[i]
      <4>1. /\ x \o y \in Seq(Tokens) /\ Len(x \o y) = Len(x) + Len(y)
            /\ \A i \in 1 .. Len(x) + Len(y) :
                 (x \o y)[i] = IF i <= Len(x) THEN x[i] ELSE y[i - Len(x)]
        BY <3>2, ConcatProperties
      <4>2. \A i \in 1 .. Len(f) : i > n => i - n \in 1 .. Len(f) - n /\ n + (i - n) = i
        BY <3>1, <3>2
      <4> QED
        <5>1. Len(x) + Len(y) = Len(f) /\ Len(x) = n
          BY <3>1, <3>2
        <5>2. ASSUME NEW i \in 1 .. Len(f) PROVE (x \o y)[i] = f[i]
          <6>1. (x \o y)[i] = IF i <= n THEN x[i] ELSE y[i - n]
            BY <4>1, <5>1
          <6>2. i <= n => i \in 1 .. n
            BY <3>2
          <6>3. ~(i <= n) => i > n
            BY <3>1, <3>2
          <6> QED
            BY <3>2, <4>2, <6>1, <6>2, <6>3
        <5> QED
          BY <4>1, <5>1, <5>2
    <3> QED
      BY <2>1, <3>2, <3>3, SeqEqual
  <2>3. /\ leftOver'[b] = <<>> /\ fromDaemon'[b] = y /\ buf' = l \o x /\ busy' = b
    BY <1>1, <1>4 DEF Put, TypeOK
  <2>4. InFlight(b)' = InFlight(b)
    <3>1. InFlight(b)' = ((l \o x) \o <<>>) \o y
      BY <2>3 DEF InFlight
    <3>2. InFlight(b) = (<<>> \o l) \o f
      BY <1>1, <1>2 DEF InFlight
    <3> HIDE DEF f, l, x, y
    <3>3. l \o x \in Seq(Tokens)
      BY <2>1, <2>2, ConcatProperties
    <3>4. (l \o x) \o <<>> = l \o x /\ <<>> \o l = l
      BY <2>1, <3>3, ConcatEmptySeq
    <3>5. (l \o x) \o y = l \o (x \o y)
      <4>1. l \in Seq(Tokens) /\ x \in Seq(Tokens) /\ y \in Seq(Tokens)
        BY <2>1, <2>2
      <4> QED
        BY <4>1, ConcatAssociative
    <3> QED
      BY <2>2, <3>1, <3>2, <3>4, <3>5
  <2>5. Unused(b)' /\ Greets(b)' /\ Held(b)' /\ status'[b] # "deleted"
    BY <1>1, <1>2, <1>4, <2>3, <2>4 DEF Piped, Unused, Greets, Held
  <2>6. Flows(b)'
    BY <1>1, <1>2, <2>4 DEF Piped, Flows
  <2>7. Collects(b)'
    BY <1>1, <1>2 DEF Piped, Collects
  <2> QED
    BY <2>5, <2>6, <2>7 DEF Piped
<1> QED
  BY <1>3, <1>4

\* The daemon answers, as long as no command is cut in two.
LEMMA ServesKeepsPiped ==
    ASSUME Long = {}, TypeOK, PipeInv, NEW a \in Agents, DaemonServes(a), NEW b \in Agents
    PROVE  Piped(b)'
<1>1. /\ daemon[a] = "up" /\ toDaemon[a] # <<>> /\ toDaemon' = Put(toDaemon, a, Tail(toDaemon[a]))
      /\ UNCHANGED <<status, onLine, daemon, answerBuffer, call, processingFIFO, leftOver,
                     busy, buf>>
  BY DEF DaemonServes, hosts, reader
<1>2. PICK out \in Answers(Head(toDaemon[a])) :
        fromDaemon' = Put(fromDaemon, a, fromDaemon[a] \o out)
  BY DEF DaemonServes
<1>3. Piped(b)
  BY DEF PipeInv
<1>4. CASE b # a
  <2>1. fromDaemon'[b] = fromDaemon[b] /\ toDaemon'[b] = toDaemon[b]
    BY <1>1, <1>2, <1>4 DEF Put, TypeOK
  <2>2. InFlight(b)' = InFlight(b)
    BY <1>1, <2>1 DEF InFlight
  <2> QED
    BY <1>1, <1>3, <2>1, <2>2, PipedSame
<1>5. CASE b = a
  <2> DEFINE t == InFlight(b)
             p == processingFIFO[b]
             c == toDaemon[b]
  <2>1. t \in Seq(Tokens) /\ p \in Seq(Requests) /\ c \in Seq(Queries) /\ c # <<>>
    BY <1>1, <1>5, FlightType DEF TypeOK
  <2>2. AnswerOf(out, Head(c))
    BY <1>5, <2>1, AnswerShape
  <2>3. InFlight(b)' = t \o out /\ toDaemon'[b] = Tail(c)
    <3> DEFINE u == (IF busy = b THEN buf ELSE <<>>) \o leftOver[b]
               f == fromDaemon[b]
    <3>1. u \in Seq(Tokens) /\ f \in Seq(Tokens) /\ out \in Seq(Tokens)
      <4>1. (IF busy = b THEN buf ELSE <<>>) \in Seq(Tokens) /\ leftOver[b] \in Seq(Tokens)
        BY DEF TypeOK
      <4> QED
        BY <2>2, <4>1, SeqFacts DEF TypeOK, AnswerOf
    <3>2. InFlight(b)' = u \o (f \o out) /\ t = u \o f
      BY <1>1, <1>2, <1>5 DEF InFlight, Put, TypeOK
    <3>3. toDaemon'[b] = Tail(c)
      BY <1>1, <1>5 DEF Put, TypeOK
    <3> HIDE DEF u, f, t
    <3> QED
      BY <3>1, <3>2, <3>3, ConcatAssociative
  <2>4. status[b] # "none" /\ status[b] # "deleted" /\ (status[b] = "alive" => onLine[b])
    BY <1>1, <1>3, <1>5 DEF Piped, Unused, Greets
  <2>5. Flows(b)'
    <3> SUFFICES ASSUME status[b] \in {"alive", "doomed"}, onLine[b]
                 PROVE  Pipeline(InFlight(b)', p, toDaemon'[b], daemon[b] = "up")
      BY <1>1 DEF Flows
    <3>1. Pipeline(t, p, c, daemon[b] = "up") /\ daemon[b] = "up"
      BY <1>1, <1>3, <1>5 DEF Piped, Flows
    <3> HIDE DEF t, p, c
    <3>2. Pipeline(t \o out, p, Tail(c), daemon[b] = "up")
      BY <2>1, <2>2, <3>1, AnsweredPipeline
    <3> QED
      BY <2>3, <3>2
  <2>6. Unused(b)' /\ Greets(b)' /\ Held(b)' /\ status'[b] # "deleted"
    BY <1>1, <1>3, <2>4 DEF Piped, Unused, Greets, Held
  <2>7. Collects(b)'
    BY <1>1, <1>3 DEF Piped, Collects
  <2> QED
    BY <2>5, <2>6, <2>7 DEF Piped
<1> QED
  BY <1>4, <1>5

\* The daemon dies: what it has written can still be read.
LEMMA DiesKeepsPiped ==
    ASSUME TypeOK, PipeInv, NEW a \in Agents, DaemonDies(a), NEW b \in Agents
    PROVE  Piped(b)'
<1>1. /\ status[a] # "none" /\ daemon' = Put(daemon, a, "dead")
      /\ toDaemon' = Put(toDaemon, a, <<>>)
      /\ UNCHANGED <<status, onLine, fromDaemon, answerBuffer, call, processingFIFO, leftOver,
                     busy, buf>>
  BY DEF DaemonDies, hosts, reader
<1>2. Piped(b) /\ InFlight(b)' = InFlight(b)
  BY <1>1 DEF PipeInv, InFlight
<1>3. CASE b # a
  <2>1. daemon'[b] = daemon[b] /\ toDaemon'[b] = toDaemon[b]
    BY <1>1, <1>3 DEF Put, TypeOK
  <2> QED
    BY <1>1, <1>2, <2>1, PipedSame
<1>4. CASE b = a
  <2>1. daemon'[b] = "dead" /\ toDaemon'[b] = <<>> /\ status[b] # "none"
    BY <1>1, <1>4 DEF Put, TypeOK
  <2>2. Unused(b)' /\ Greets(b)' /\ Held(b)'
    BY <1>1, <1>2, <2>1 DEF Piped, Unused, Greets, Held
  <2>3. Collects(b)'
    BY <1>1, <1>2 DEF Piped, Collects
  <2>4. Flows(b)'
    BY <1>1, <1>2, <2>1 DEF Piped, Flows, Pipeline
  <2> QED
    BY <2>1, <2>2, <2>3, <2>4 DEF Piped
<1> QED
  BY <1>3, <1>4

\* A client is destroyed: its requests keep their places.
LEMMA DestroyKeepsPiped ==
    ASSUME TypeOK, PipeInv, NEW c \in Clients, Destroy(c), NEW b \in Agents
    PROVE  Piped(b)'
<1>1. UNCHANGED <<status, onLine, fromDaemon, answerBuffer, call, leftOver, toDaemon, daemon,
                  busy, buf>>
  BY DEF Destroy, hosts, reader
<1>2. Piped(b) /\ InFlight(b)' = InFlight(b)
  BY <1>1 DEF PipeInv, InFlight
<1>3. CASE processingFIFO'[b] = processingFIFO[b]
  BY <1>1, <1>2, <1>3, PipedSame
<1>4. CASE processingFIFO'[b] = Without(processingFIFO[b], c)
  <2> DEFINE p == processingFIFO[b]
             q == processingFIFO'[b]
  <2>1. /\ p \in Seq(Requests) /\ q \in Seq(Requests) /\ Len(q) = Len(p)
        /\ \A i \in 1 .. Len(p) : q[i].query = p[i].query
    <3>1. p \in Seq(Requests)
      BY DEF TypeOK
    <3>2. /\ Without(p, c) \in Seq(Requests) /\ Len(Without(p, c)) = Len(p)
          /\ \A i \in 1 .. Len(p) :
               Without(p, c)[i] = IF p[i].client = c
                                  THEN [client |-> None, query |-> p[i].query]
                                  ELSE p[i]
      BY <3>1, WithoutFacts
    <3>3. \A i \in 1 .. Len(p) : Without(p, c)[i].query = p[i].query
      <4> SUFFICES ASSUME NEW i \in 1 .. Len(p) PROVE Without(p, c)[i].query = p[i].query
        OBVIOUS
      <4>1. CASE p[i].client = c
        <5>1. Without(p, c)[i] = [client |-> None, query |-> p[i].query]
          BY <3>2, <4>1
        <5> QED
          BY <5>1
      <4>2. CASE p[i].client # c
        BY <3>2, <4>2
      <4> QED
        BY <4>1, <4>2
    <3> QED
      BY <1>4, <3>1, <3>2, <3>3
  <2>2. q = <<>> <=> p = <<>>
    BY <2>1, EmptySeq
  <2>3. Flows(b)'
    <3> SUFFICES ASSUME status[b] \in {"alive", "doomed"}, onLine[b]
                 PROVE  Pipeline(InFlight(b), q, toDaemon[b], daemon[b] = "up")
      BY <1>1, <1>2 DEF Flows
    <3>1. Pipeline(InFlight(b), p, toDaemon[b], daemon[b] = "up")
      BY <1>2 DEF Piped, Flows
    <3>2. InFlight(b) \in Seq(Tokens) /\ toDaemon[b] \in Seq(Queries)
      BY FlightType DEF TypeOK
    <3> HIDE DEF p, q
    <3> QED
      BY <2>1, <3>1, <3>2, DisconnectedPipeline
  <2>4. Collects(b)'
    <3> SUFFICES ASSUME Collected(answerBuffer[b], p) PROVE Collected(answerBuffer[b], q)
      BY <1>1, <1>2 DEF Piped, Collects
    <3>1. p # <<>> => 1 \in 1 .. Len(p)
      BY <2>1
    <3> HIDE DEF p, q
    <3> QED
      BY <2>1, <2>2, <3>1 DEF Collected
  <2>5. Unused(b)' /\ Greets(b)' /\ Held(b)' /\ (status'[b] = "deleted" => daemon'[b] = "dead")
    BY <1>1, <1>2, <2>2 DEF Piped, Unused, Greets, Held
  <2> QED
    BY <2>3, <2>4, <2>5 DEF Piped
<1>5. \/ processingFIFO'[b] = processingFIFO[b]
      \/ processingFIFO'[b] = Without(processingFIFO[b], c)
  BY DEF Destroy, Put, TypeOK
<1> QED
  BY <1>3, <1>4, <1>5

\* A new agent, whose daemon has greeted.
LEMMA NewKeepsPiped ==
    ASSUME TypeOK, Started, PipeInv, NewAgent,
           UNCHANGED <<processingFIFO, onLine, answerBuffer, call, leftOver, toDaemon, daemon,
                       busy, buf>>,
           NEW b \in Agents
    PROVE  Piped(b)'
<1>1. /\ status' = Put(status, made + 1, "alive")
      /\ fromDaemon' = Put(fromDaemon, made + 1, <<Token("line", None), Token("prompt", None)>>)
  BY DEF NewAgent
<1>2. Piped(b)
  BY DEF PipeInv
<1>3. CASE b # made + 1
  <2>1. status'[b] = status[b] /\ fromDaemon'[b] = fromDaemon[b]
    BY <1>1, <1>3 DEF Put, TypeOK
  <2>2. InFlight(b)' = InFlight(b)
    BY <2>1 DEF InFlight
  <2> QED
    BY <1>2, <2>1, <2>2, PipedSame
<1>4. CASE b = made + 1
  <2> DEFINE g == <<Token("line", None), Token("prompt", None)>>
  <2>1. /\ status[b] = "none" /\ ~onLine[b] /\ processingFIFO[b] = <<>> /\ busy # b
    <3>1. made \in Nat /\ b \in Nat /\ b > made /\ b # None
      <4>1. made \in Nat
        BY SensorAssumption DEF TypeOK
      <4>2. b \in Nat /\ b > made
        BY <1>4, <4>1
      <4> QED
        BY <4>1, <4>2, SensorAssumption
    <3>2. busy # b
      BY <3>1 DEF Started
    <3> QED
      BY <3>1, <3>2 DEF Started
  <2>2. toDaemon[b] = <<>> /\ leftOver[b] = <<>>
    BY <1>2, <2>1 DEF Piped, Unused
  <2>3. status'[b] = "alive" /\ fromDaemon'[b] = g
    BY <1>1, <1>4 DEF Put, TypeOK
  <2>4. InFlight(b)' = g
    <3>1. InFlight(b)' = (<<>> \o <<>>) \o g
      BY <2>1, <2>2, <2>3 DEF InFlight
    <3>2. g \in Seq(Tokens) /\ <<>> \in Seq(Tokens)
      BY DEF Token, Tokens
    <3> HIDE DEF g
    <3> QED
      BY <3>1, <3>2, ConcatEmptySeq
  <2> QED
    BY <2>1, <2>2, <2>3, <2>4 DEF Piped, Unused, Greets, Flows, Collects, Held
<1> QED
  BY <1>3, <1>4

LEMMA PipedStep ==
    ASSUME ~Socket, Long = {}, TypeOK, Started, PipeInv, [Next]_vars, NEW b \in Agents
    PROVE  Piped(b)'
<1> USE SensorAssumption
<1>p. Piped(b) /\ Calls /\ b # None
  BY DEF PipeInv, Agents
<1>1. ASSUME NEW c \in Clients, NEW q \in Queries, SendRequest(c, q) PROVE Piped(b)'
  <2> DEFINE r == [client |-> c, query |-> q]
  <2>1. /\ agent \in Agents /\ status[agent] = "alive" /\ r \in Requests
        /\ AgentSendRequest(agent, r)
        /\ UNCHANGED <<status, onLine, leftOver, daemon, fromDaemon, answerBuffer, call,
                       busy, buf>>
    BY <1>1 DEF SendRequest, TypeOK, Agents, Requests, hosts, reader
  <2>2. InFlight(b)' = InFlight(b)
    BY <2>1 DEF InFlight
  <2> HIDE DEF r
  <2>3. ASSUME NEW in \in Seq(Requests), ExecuteCommand(agent, in) PROVE Piped(b)'
    BY <1>p, <2>1, <2>2, <2>3, ExecuteKeepsPiped
  <2>4. CASE UNCHANGED queues
    BY <1>p, <2>1, <2>2, <2>4, PipedSame DEF queues
  <2>5. inputFIFO[agent] \in Seq(Requests) /\ Append(inputFIFO[agent], r) \in Seq(Requests)
    BY <2>1 DEF TypeOK
  <2> QED
    BY <2>1, <2>3, <2>4, <2>5 DEF AgentSendRequest
<1>2. ASSUME NEW c \in Clients, NEW q \in Queries, Reengage(c, q) PROVE Piped(b)'
  BY <1>2, NewKeepsPiped DEF Reengage, reader
<1>16. CASE Engage
  BY <1>16, NewKeepsPiped DEF Engage, reader, queues
<1>17. ASSUME NEW a \in Agents, MsgSent(a) PROVE Piped(b)'
  <2>1. /\ status[a] = "alive" /\ inputFIFO[a] \in Seq(Requests)
        /\ UNCHANGED <<status, onLine, leftOver, daemon, fromDaemon, answerBuffer, call,
                       busy, buf>>
    BY <1>17 DEF MsgSent, hosts, reader, TypeOK
  <2>2. InFlight(b)' = InFlight(b)
    BY <2>1 DEF InFlight
  <2>3. CASE UNCHANGED <<processingFIFO, toDaemon>>
    BY <1>p, <2>1, <2>2, <2>3, PipedSame
  <2>4. CASE onLine[a] /\ inputFIFO[a] # <<>> /\ WriteFirst(a, inputFIFO[a])
    BY <1>p, <2>1, <2>2, <2>4, WriteKeepsPiped
  <2> QED
    BY <1>17, <2>3, <2>4 DEF MsgSent
<1>o. ASSUME status'[b] = "doomed", busy' # b,
             status[b] = "alive", onLine'[b] => onLine[b],
             UNCHANGED <<leftOver, daemon, fromDaemon, processingFIFO, toDaemon, busy, buf>>
      PROVE  Piped(b)'
  <2>1. InFlight(b)' = InFlight(b)
    BY <1>o DEF InFlight
  <2>2. Flows(b)'
    BY <1>o, <1>p, <2>1 DEF Piped, Flows
  <2> QED
    BY <1>o, <2>2 DEF Piped, Unused, Greets, Collects, Held
<1>3. CASE Disengage
  <2>1. /\ agent \in Agents /\ status[agent] = "alive" /\ status' = Put(status, agent, "doomed")
        /\ busy = None
        /\ UNCHANGED <<onLine, leftOver, daemon, fromDaemon, answerBuffer, call,
                       busy, buf, processingFIFO, toDaemon>>
    BY <1>3 DEF Disengage, TypeOK, Agents, reader, queues
  <2>2. CASE b = agent
    BY <1>o, <1>p, <2>1, <2>2 DEF Put, TypeOK
  <2>3. CASE b # agent
    <3>1. InFlight(b)' = InFlight(b) /\ status'[b] = status[b]
      BY <2>1, <2>3 DEF InFlight, Put, TypeOK
    <3> QED
      BY <1>p, <2>1, <3>1, PipedSame
  <2> QED
    BY <2>2, <2>3
<1>4. ASSUME NEW c \in Clients, Destroy(c) PROVE Piped(b)'
  BY <1>4, DestroyKeepsPiped
<1>5. CASE ParseLine
  BY <1>5, LineKeepsPiped
<1>6. CASE ParseMessage
  BY <1>6, MessageKeepsPiped
<1>7. CASE ParsePrompt
  BY <1>7, PromptKeepsPiped
<1>8. CASE Return
  <2>1. /\ call' = None /\ busy \in Agents
        /\ answerBuffer' = IF call = None THEN answerBuffer ELSE Put(answerBuffer, busy, <<>>)
        /\ UNCHANGED <<status, onLine, leftOver, daemon, fromDaemon, busy, buf,
                       processingFIFO, toDaemon>>
    BY <1>8 DEF Return, TypeOK, hosts, queues
  <2>2. InFlight(b)' = InFlight(b)
    BY <2>1 DEF InFlight
  <2>3. CASE busy # b
    <3>1. answerBuffer'[b] = answerBuffer[b]
      BY <2>1, <2>3 DEF Put, TypeOK
    <3> QED
      BY <1>p, <2>1, <2>2, <2>3, <3>1, PipedSame
  <2>4. CASE busy = b /\ call # None
    <3>1. answerBuffer'[b] = <<>>
      BY <2>1, <2>4 DEF Put, TypeOK
    <3>2. Collects(b)'
      BY <3>1 DEF Collects, Collected
    <3>3. Flows(b)'
      BY <1>p, <2>1, <2>2 DEF Piped, Flows
    <3>4. Unused(b)' /\ Greets(b)' /\ Held(b)' /\ (status'[b] = "deleted" => daemon'[b] = "dead")
      BY <1>p, <2>1, <2>2 DEF Piped, Unused, Greets, Held
    <3> QED
      BY <3>2, <3>3, <3>4 DEF Piped
  <2>5. CASE call = None
    BY <1>p, <2>1, <2>2, <2>5, PipedSame
  <2> QED
    BY <2>3, <2>4, <2>5
<1>9. CASE ParseEnd
  <2>1. /\ busy \in Agents /\ pc = "parse" /\ buf = <<>> /\ busy' = None
        /\ ExecuteCommand(busy, inputFIFO[busy]) /\ inputFIFO[busy] \in Seq(Requests)
        /\ UNCHANGED <<status, onLine, leftOver, daemon, fromDaemon, answerBuffer, call, buf>>
    BY <1>9 DEF ParseEnd, TypeOK, hosts
  <2>2. call = None /\ status[busy] = "alive"
    BY <1>p, <2>1 DEF Calls, PipeInv, Piped, Held
  <2>3. InFlight(b)' = InFlight(b)
    BY <1>p, <2>1 DEF InFlight
  <2> QED
    BY <1>p, <2>1, <2>2, <2>3, ExecuteKeepsPiped
<1>10. ASSUME NEW a \in Agents, DeleteLater(a) PROVE Piped(b)'
  <2>1. /\ busy = None /\ status' = Put(status, a, "deleted") /\ daemon' = Put(daemon, a, "dead")
        /\ processingFIFO' = Put(processingFIFO, a, <<>>)
        /\ toDaemon' = Put(toDaemon, a, <<>>) /\ fromDaemon' = Put(fromDaemon, a, <<>>)
        /\ leftOver' = Put(leftOver, a, <<>>)
        /\ UNCHANGED <<onLine, answerBuffer, call, busy, buf>>
    BY <1>10 DEF DeleteLater, TypeOK, reader
  <2>2. CASE b = a
    <3>1. status'[b] = "deleted" /\ daemon'[b] = "dead" /\ busy' # b
      BY <1>p, <2>1, <2>2 DEF Put, TypeOK
    <3> QED
      BY <3>1 DEF Piped, Unused, Greets, Flows, Collects, Held
  <2>3. CASE b # a
    <3>1. /\ status'[b] = status[b] /\ daemon'[b] = daemon[b]
          /\ processingFIFO'[b] = processingFIFO[b] /\ toDaemon'[b] = toDaemon[b]
          /\ fromDaemon'[b] = fromDaemon[b] /\ leftOver'[b] = leftOver[b]
      BY <2>1, <2>3 DEF Put, TypeOK
    <3>2. InFlight(b)' = InFlight(b)
      BY <2>1, <3>1 DEF InFlight
    <3> QED
      BY <1>p, <2>1, <3>1, <3>2, PipedSame
  <2> QED
    BY <2>2, <2>3
<1>11. ASSUME NEW a \in Agents, DaemonExited(a) PROVE Piped(b)'
  <2>1. /\ busy = None /\ status[a] = "alive" /\ status' = Put(status, a, "doomed")
        /\ onLine' = Put(onLine, a, FALSE)
        /\ UNCHANGED <<leftOver, daemon, fromDaemon, answerBuffer, call,
                       busy, buf, processingFIFO, toDaemon>>
    BY <1>11 DEF DaemonExited, TypeOK, reader, queues
  <2>2. CASE b = a
    BY <1>o, <1>p, <2>1, <2>2 DEF Put, TypeOK
  <2>3. CASE b # a
    <3>1. InFlight(b)' = InFlight(b) /\ status'[b] = status[b] /\ onLine'[b] = onLine[b]
      BY <2>1, <2>3 DEF InFlight, Put, TypeOK
    <3> QED
      BY <1>p, <2>1, <3>1, PipedSame
  <2> QED
    BY <2>2, <2>3
<1>12. ASSUME NEW a \in Agents, DaemonDies(a) PROVE Piped(b)'
  BY <1>12, DiesKeepsPiped
<1>13. ASSUME NEW a \in Agents, DaemonServes(a) PROVE Piped(b)'
  BY <1>13, ServesKeepsPiped
<1>14. ASSUME NEW a \in Agents, NEW n \in 0 .. Len(fromDaemon[a]), Read(a, n)
       PROVE  Piped(b)'
  BY <1>14, ReadKeepsPiped
<1>15. CASE UNCHANGED vars
  <2>1. UNCHANGED <<status, onLine, leftOver, daemon, fromDaemon, answerBuffer, call,
                    busy, buf, processingFIFO, toDaemon>>
    BY <1>15 DEF vars, hosts, queues, reader
  <2>2. InFlight(b)' = InFlight(b)
    BY <2>1 DEF InFlight
  <2> QED
    BY <1>p, <2>1, <2>2, PipedSame
<1> QED
  BY <1>1, <1>2, <1>3, <1>4, <1>5, <1>6, <1>7, <1>8, <1>9, <1>10, <1>11, <1>12,
     <1>13, <1>14, <1>15, <1>16, <1>17 DEF Next, Parse

LEMMA RoutedStep ==
    ASSUME TypeOK, PipeInv, Routed, [Next]_vars
    PROVE  Calls' /\ Routed'
<1>k. ASSUME UNCHANGED <<call, pc>> PROVE Calls' /\ Routed'
  BY <1>k DEF PipeInv, Calls, Routed
<1>n. ASSUME call' = None PROVE Calls' /\ Routed'
  BY <1>n DEF Calls, Routed
<1>1. ASSUME NEW c \in Clients, NEW q \in Queries, SendRequest(c, q) \/ Reengage(c, q)
      PROVE  Calls' /\ Routed'
  BY <1>1, <1>k DEF SendRequest, Reengage, reader
<1>2. CASE Engage \/ Disengage
  BY <1>2, <1>k DEF Engage, Disengage, reader
<1>3. ASSUME NEW c \in Clients, Destroy(c) PROVE Calls' /\ Routed'
  BY <1>3, <1>k DEF Destroy, reader
<1>4. CASE ParseLine \/ ParseMessage \/ ParseEnd
  <2>1. call = None /\ call' = call
    BY <1>4 DEF ParseLine, ParseMessage, ParseEnd, Parsing, PipeInv, Calls
  <2> QED
    BY <1>n, <2>1
<1>5. CASE ParsePrompt
  <2>1. busy \in Agents
    BY <1>5 DEF ParsePrompt, Parsing, TypeOK
  <2>2. call' = None \/ Routed'
    BY <1>5, <2>1, PromptKeepsPiped
  <2>3. pc' = "callback" \/ call' = None
    BY <1>5 DEF ParsePrompt, Parsing, PipeInv, Calls
  <2> QED
    BY <1>n, <2>2, <2>3 DEF Calls
<1>6. CASE Return
  BY <1>6, <1>n DEF Return
<1>7. ASSUME NEW a \in Agents,
             \/ DeleteLater(a) \/ MsgSent(a) \/ DaemonExited(a) \/ DaemonDies(a)
             \/ DaemonServes(a)
      PROVE  Calls' /\ Routed'
  BY <1>7, <1>k DEF DeleteLater, MsgSent, DaemonExited, DaemonDies, DaemonServes, reader
<1>8. ASSUME NEW a \in Agents, NEW n \in 0 .. Len(fromDaemon[a]), Read(a, n)
      PROVE  Calls' /\ Routed'
  <2>1. call = None /\ call' = call
    BY <1>8 DEF Read, PipeInv, Calls
  <2> QED
    BY <1>n, <2>1
<1>9. CASE UNCHANGED vars
  BY <1>9, <1>k DEF vars, reader
<1> QED
  BY <1>1, <1>2, <1>3, <1>4, <1>5, <1>6, <1>7, <1>8, <1>9 DEF Next, Parse

LEMMA PipeInit == Init => PipeInv /\ Routed /\ Started
BY SensorAssumption
DEF Init, PipeInv, Calls, Routed, Started, Piped, Unused, Greets, Flows, Collects, Held, Agents

LEMMA PipeCorrect == ASSUME ~Socket, Long = {} PROVE Spec => [](PipeInv /\ Routed)
<1>1. TypeOK /\ Started /\ PipeInv /\ Routed /\ [Next]_vars => Started' /\ PipeInv' /\ Routed'
  <2> SUFFICES ASSUME TypeOK, Started, PipeInv, Routed, [Next]_vars
               PROVE  Started' /\ PipeInv' /\ Routed'
    OBVIOUS
  <2>1. Started'
    BY StartedStep
  <2>2. Calls' /\ Routed'
    BY RoutedStep
  <2>3. \A b \in Agents : Piped(b)'
    BY PipedStep
  <2> QED
    BY <2>1, <2>2, <2>3 DEF PipeInv, Agents
<1> QED
  BY <1>1, PipeInit, SensorTypeCorrect, PTL DEF Spec

\* Every answer is handed to the client whose request it answers, with the lines
\* the daemon wrote for it: however the output is cut into chunks, whatever
\* messages are in it, whoever disconnects, and whatever the call backs send.
\* (Through a process; and no command line is longer than the daemon's buffer.)
THEOREM AnswersRouted == ASSUME ~Socket, Long = {} PROVE Spec => []Routed
BY PipeCorrect, PTL

\* What stands for induction: a set of naturals has a least element.
LEMMA Least ==
    ASSUME NEW D \in SUBSET Nat, D # {}
    PROVE  \E i \in D : \A j \in D : i <= j
<1> DEFINE Less == {p \in Nat \X Nat : p[1] < p[2]}
<1>1. IsWellFoundedOn(Less, Nat)
  BY NatLessThanWellFounded DEF OpToRel
<1>2. PICK i \in D : \A j \in D : <<j, i>> \notin Less
  BY <1>1, WFMin
<1> SUFFICES ASSUME NEW j \in D PROVE i <= j
  OBVIOUS
<1>3. i \in Nat /\ j \in Nat
  OBVIOUS
<1>4. j < i => <<j, i>> \in Less
  BY <1>3
<1> QED
  BY <1>2, <1>3, <1>4

LEMMA TurnStep ==
    ASSUME NEW t
    PROVE  /\ Turn(t, 1) = 1
           /\ \A i \in Nat \ {0} :
                /\ Turn(t, i) \in Nat
                /\ Turn(t, i + 1) = IF t[i].kind = "prompt" THEN Turn(t, i) + 1 ELSE Turn(t, i)
<1> DEFINE P(i) == {j \in 1 .. i - 1 : t[j].kind = "prompt"}
<1>1. Turn(t, 1) = 1
  <2>1. P(1) = {}
    OBVIOUS
  <2> HIDE DEF P
  <2>2. Cardinality(P(1)) = 0
    BY <2>1, FS_EmptySet
  <2> QED
    BY <2>2 DEF Turn, P
<1>2. ASSUME NEW i \in Nat \ {0}
      PROVE  /\ Turn(t, i) \in Nat
             /\ Turn(t, i + 1) = IF t[i].kind = "prompt" THEN Turn(t, i) + 1 ELSE Turn(t, i)
  <2>1. IsFiniteSet(P(i))
    <3>1. IsFiniteSet(1 .. i - 1)
      BY FS_Interval
    <3> QED
      BY <3>1, FS_Subset
  <2>2. P(i + 1) = IF t[i].kind = "prompt" THEN P(i) \cup {i} ELSE P(i)
    <3>1. 1 .. (i + 1) - 1 = (1 .. i - 1) \cup {i}
      OBVIOUS
    <3> QED
      BY <3>1
  <2>3. i \notin P(i)
    OBVIOUS
  <2>4. Turn(t, i) = 1 + Cardinality(P(i)) /\ Turn(t, i + 1) = 1 + Cardinality(P(i + 1))
    BY DEF Turn
  <2> HIDE DEF P
  <2>5. Cardinality(P(i)) \in Nat
    BY <2>1, FS_CardinalityType
  <2>6. Cardinality(P(i) \cup {i}) = Cardinality(P(i)) + 1
    BY <2>1, <2>3, FS_AddElement
  <2> QED
    BY <2>2, <2>4, <2>5, <2>6
<1> QED
  BY <1>1, <1>2

\* There is one numbering, and Turn is it.
LEMMA NumberedTurn ==
    ASSUME NEW t \in Seq(Tokens), NEW f, Numbered(t, f)
    PROVE  \A i \in 1 .. Len(t) + 1 : f[i] = Turn(t, i)
<1> DEFINE D == {i \in 1 .. Len(t) + 1 : f[i] # Turn(t, i)}
<1> SUFFICES ASSUME D # {} PROVE FALSE
  OBVIOUS
<1>1. Len(t) \in Nat
  OBVIOUS
<1>2. PICK i \in D : \A j \in D : i <= j
  <2>1. D \in SUBSET Nat
    BY <1>1
  <2> HIDE DEF D
  <2> QED
    BY <2>1, Least
<1>3. i # 1
  BY <1>2, TurnStep DEF Numbered
<1> DEFINE k == i - 1
<1>4. k \in 1 .. Len(t) /\ k \in Nat \ {0} /\ k + 1 = i /\ k \in 1 .. Len(t) + 1
  BY <1>1, <1>2, <1>3
<1>5. f[k] = Turn(t, k)
  BY <1>1, <1>2, <1>4
<1> HIDE DEF k
<1>6. f[k + 1] = IF t[k].kind = "prompt" THEN f[k] + 1 ELSE f[k]
  BY <1>4 DEF Numbered
<1>7. Turn(t, k + 1) = IF t[k].kind = "prompt" THEN Turn(t, k) + 1 ELSE Turn(t, k)
  BY <1>4, TurnStep
<1> QED
  BY <1>2, <1>4, <1>5, <1>6, <1>7

LEMMA PipedAligned == TypeOK /\ PipeInv => Aligned
<1> SUFFICES ASSUME TypeOK, PipeInv, NEW a \in Agents, daemon[a] = "up", onLine[a]
             PROVE  LET tokens == InFlight(a)
                        answered == Turn(tokens, Len(tokens) + 1) - 1
                    IN  /\ Len(processingFIFO[a]) = answered + Len(toDaemon[a])
                        /\ \A i \in 1 .. Len(tokens) : tokens[i].kind \in {"line", "prompt"} =>
                             tokens[i].of = processingFIFO[a][Turn(tokens, i)].query
                        /\ \A i \in 1 .. Len(toDaemon[a]) :
                             toDaemon[a][i] = processingFIFO[a][answered + i].query
  BY DEF Aligned
<1> DEFINE t == InFlight(a)
           p == processingFIFO[a]
           c == toDaemon[a]
<1>1. Pipeline(t, p, c, daemon[a] = "up")
  BY DEF PipeInv, Piped, Unused, Flows, TypeOK
<1>2. t \in Seq(Tokens)
  BY FlightType
<1> HIDE DEF t, p, c
<1>3. PICK f : Numbered(t, f) /\ Owned(t, f, p) /\ Queued(t, f, p, c)
  BY <1>1 DEF Pipeline
<1>4. \A i \in 1 .. Len(t) + 1 : f[i] = Turn(t, i)
  BY <1>2, <1>3, NumberedTurn
<1>5. Len(t) \in Nat
  BY <1>2
<1>6. \A i \in 1 .. Len(t) : t[i].kind \in {"line", "prompt"} => t[i].of = p[Turn(t, i)].query
  BY <1>3, <1>4, <1>5 DEF Owned
<1> DEFINE m == Turn(t, Len(t) + 1)
<1>7. /\ Len(p) = m - 1 + Len(c)
      /\ \A i \in 1 .. Len(c) : c[i] = p[m - 1 + i].query
  <2>1. f[Len(t) + 1] = m
    BY <1>4, <1>5
  <2> HIDE DEF m
  <2> QED
    BY <1>3, <2>1 DEF Queued
<1> QED
  BY <1>6, <1>7 DEF t, p, c

\* The daemon's output and the requests written are in the same order: the
\* invariant that Routed rests on, with the place of each command in the FIFO
\* the number of prompts in front of it.
THEOREM PipelineAligned == ASSUME ~Socket, Long = {} PROVE Spec => []Aligned
BY PipeCorrect, SensorTypeCorrect, PipedAligned, PTL

===============================================================================
