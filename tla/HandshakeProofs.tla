--------------------------- MODULE HandshakeProofs ---------------------------
(***************************************************************************)
(* Proofs about Handshake, for every request, any number of channels and   *)
(* any number of repetitions.  The inductive invariant comes in layers:    *)
(* types, one answer per channel, what a response says of the request, the *)
(* order of the data keys, what is sealed, and who has the next move.      *)
(***************************************************************************)
EXTENDS Handshake, SequenceTheorems, TLAPS

AnySeal == Nat \X {"none", "first", "second"}
In ==
    [kind : {"request"}, actions : Seq(ActionTypes)]
    \cup [kind : {"challenge", "exit"}, seal : AnySeal]
    \cup [kind : {"complete", "garbled", "terminate", "retired"}]
    \cup [kind : {"output"}, type : {"Output", "Undefined"}, seal : AnySeal]
Out ==
    [kind : {"response"}, failed : BOOLEAN, key : Nat]
    \cup [kind : {"answer", "input"}, seal : AnySeal]

(* Layer 1: types, with no bound on the keys.                               *)
TypeInv ==
    /\ nextKey \in Nat /\ crypto \in Nat /\ agentKey \in Nat
    /\ status \in {"open", "lost", "over"}
    /\ reason \in {"none", "protocol", "unsupported", "agent"}
    /\ handler \in [state : {"AwaitingRequest", "AwaitingComplete", "Completed", "Failed"},
                    crypto : Nat]
    /\ reader \in [pc : {"idle", "actions", "respond", "install", "answer", "answered"},
                   todo : Seq(ActionTypes), failed : BOOLEAN]
    /\ reader.pc = "respond" => reader.todo = <<>>
    /\ reader.pc # "idle" => stream # <<>>
    /\ stream \in Seq(In) /\ sent \in Seq(Out) /\ late \in Seq(Out)
    /\ command \in Seq(AnySeal)
    /\ agent \in {"new", "asked", "challenged", "complete", "legacy", "ended"}
    /\ request \in Seq(ActionTypes)
    /\ shown \in Seq(AnySeal)

(* Layer 2: a handler that has answered is past its request.                *)
AnswerInv ==
    /\ answers \in 0..1
    /\ handler.state = "AwaitingRequest" => answers = 0
    /\ reader.pc = "actions" => handler.state = "AwaitingRequest"
    /\ reader.pc = "respond" => answers = 0 /\ handler.state # "AwaitingRequest"
    /\ handler.state = "AwaitingRequest" /\ reader.pc # "actions" => handler.crypto = NoKey

(* Layer 3: a request that nothing can fail and that asks for no key, and   *)
(* what follows from one.                                                   *)
Benign == \A i \in DOMAIN request : request[i] = "SessionType"

(* A response that promises success without a key.                          *)
Bare(m) == m.kind = "response" /\ ~m.failed /\ m.key = NoKey

(* An agent that has not asked was told nothing, and every request is the   *)
(* same; the reader answers the one at the head of the stream.              *)
AskInv ==
    /\ agent = "new" =>
         /\ stream = <<>> /\ late = <<>> /\ reader.pc = "idle"
         /\ \A i \in DOMAIN sent : sent[i].kind = "input"
    /\ agent \in {"new", "legacy"} => Benign
    /\ \A i \in DOMAIN stream : stream[i].kind = "request" => stream[i].actions = request
    /\ reader.pc \in {"actions", "respond", "install"} => stream[1].kind = "request"

(* What the response will say, as far as it is known.                       *)
RefuseInv ==
    /\ Benign => nextKey = 0 /\ handler.state # "Failed" /\ reason # "unsupported"
    /\ Benign /\ reader.pc = "actions" =>
         ~reader.failed /\ \A i \in DOMAIN reader.todo : reader.todo[i] = "SessionType"
    /\ reader.pc \in {"actions", "respond"} =>
         \/ reader.failed \/ handler.crypto # NoKey \/ Benign
         \/ \E i \in DOMAIN reader.todo : reader.todo[i] # "SessionType"

(* What a response on its way says.                                         *)
BareInv ==
    /\ \A i \in DOMAIN sent : Bare(sent[i]) => Benign
    /\ \A i \in DOMAIN late : Bare(late[i]) => Benign

RequestInv == AskInv /\ RefuseInv /\ BareInv

(* Layer 4: a channel's key is newer than all before it, and the agent      *)
(* takes the key of the first response it reads.                            *)
IsResponse(i) == sent[i].kind = "response"

NoRequests == \A i \in DOMAIN stream : stream[i].kind # "request"

(* An answer to the agent's challenge is on its way.                        *)
Answering ==
    \/ reader.pc = "answer"
    \/ \E i \in DOMAIN sent : sent[i].kind = "answer"
    \/ \E i \in DOMAIN late : late[i].kind = "answer"

KeyBound ==
    /\ handler.crypto \in {NoKey, nextKey} /\ crypto <= nextKey /\ agentKey <= nextKey
    /\ \A i \in DOMAIN sent : IsResponse(i) => sent[i].key <= nextKey
    /\ \A i \in DOMAIN late : late[i].kind = "response" => late[i].key <= nextKey
    /\ agentKey # NoKey => agent \in {"challenged", "complete", "ended"}
    /\ agent = "challenged" => agentKey # NoKey

(* Of the responses the agent has yet to read, one whose key is not newer   *)
(* than the installed cipher comes first.                                   *)
InstalledFirst ==
    /\ \E i \in DOMAIN sent : IsResponse(i) /\ sent[i].key <= crypto
    /\ \A j \in DOMAIN sent : IsResponse(j) /\ sent[j].key > crypto =>
         \E i \in DOMAIN sent : i < j /\ IsResponse(i) /\ sent[i].key <= crypto

KeyOrder ==
    /\ crypto # NoKey => agentKey <= crypto
    /\ reader.pc = "install" /\ agent = "asked" => \E i \in DOMAIN sent : IsResponse(i)
    /\ crypto # NoKey /\ agent = "asked" => InstalledFirst
    /\ handler.crypto # NoKey /\ status = "open" /\ reader.pc \notin {"actions", "respond", "install"} =>
         crypto # NoKey

KeyInv == KeyBound /\ KeyOrder

(* The agent's challenge is sealed with its key, and no request follows.    *)
Challenges ==
    \A i \in DOMAIN stream : stream[i].kind = "challenge" =>
      /\ stream[i].seal = <<agentKey, "first">> /\ agentKey # NoKey
      /\ \A j \in DOMAIN stream : i < j => stream[j].kind # "request"

ChallengeInv ==
    /\ Challenges
    /\ Answering => NoRequests /\ crypto = agentKey /\ agentKey # NoKey
    /\ reader.pc = "answer" => handler.crypto = agentKey
    /\ agent = "complete" => crypto = agentKey /\ (NoRequests \/ Benign)
    /\ reason = "unsupported" => /\ status = "over" /\ reader.pc = "idle" /\ agent # "complete"
                                 /\ ~Answering

(* Layer 5: only a payload that this client can open is sealed.             *)
SealInv ==
    /\ \A i \in DOMAIN stream :
         stream[i].kind = "output" =>
           stream[i].seal = Plain \/ (stream[i].type # "Undefined" /\ crypto # NoKey)
    /\ ShownIsPlain

(* Layer 6: the handshake never stands still.  What the agent waits for is  *)
(* on its way to it, or what it asked is on its way to the client.          *)
Holds(q, kind) == \E i \in DOMAIN q : q[i].kind = kind

NoStandOff ==
    status # "over" /\ ~Stranded =>
      /\ agent = "asked" => Holds(stream, "request") \/ Holds(sent, "response")
      /\ agent = "challenged" => Holds(stream, "challenge") \/ Holds(sent, "answer")

(* A handler that will ignore a repeated request has answered the first one *)
(* on this very channel; a resumed channel's handler answers again.         *)
StandOffInv ==
    /\ NoStandOff
    /\ agent = "new" => handler.state = "AwaitingRequest"
    /\ agent = "asked" /\ status = "open" /\ Answered /\ reader.pc # "respond" =>
         Holds(sent, "response")
    /\ reader.pc \in {"answer", "answered"} => stream[1].kind = "challenge"
    /\ reader.pc = "answered" /\ agent = "challenged" => Holds(sent, "answer")

-----------------------------------------------------------------------------
(* Sequences and messages                                                   *)

(* A message appended.                                                      *)
LEMMA AppendDomain ==
    ASSUME NEW S, NEW q \in Seq(S), NEW e \in S, NEW t, t = Append(q, e)
    PROVE  /\ t \in Seq(S) /\ Len(q) + 1 \in DOMAIN t /\ t[Len(q) + 1] = e
           /\ \A i \in DOMAIN q : i \in DOMAIN t /\ t[i] = q[i] /\ i \in Nat /\ i < Len(q) + 1
           /\ \A i \in DOMAIN t : (i \in DOMAIN q /\ t[i] = q[i]) \/ (i = Len(q) + 1 /\ t[i] = e)
<1>1. Len(q) \in Nat /\ DOMAIN q = 1..Len(q)
  BY LenProperties, Zenon
<1>2. /\ t \in Seq(S) /\ Len(t) = Len(q) + 1
      /\ \A i \in 1..Len(q) : t[i] = q[i]
      /\ t[Len(q) + 1] = e
  BY <1>1, AppendProperties
<1>3. DOMAIN t = 1..(Len(q) + 1)
  BY <1>2, LenProperties, Zenon
<1>4. ASSUME NEW i \in 1..(Len(q) + 1)
      PROVE  (i \in 1..Len(q) /\ t[i] = q[i]) \/ i = Len(q) + 1
  <2>1. i \in 1..Len(q) \/ i = Len(q) + 1
    BY <1>1
  <2> QED
    BY <1>2, <2>1, Zenon
<1> QED
  BY <1>1, <1>2, <1>3, <1>4

(* The head of a sequence taken off.                                        *)
LEMMA TailDomain ==
    ASSUME NEW S, NEW q \in Seq(S), q # <<>>
    PROVE  /\ Head(q) \in S /\ Head(q) = q[1] /\ 1 \in DOMAIN q
           /\ Tail(q) \in Seq(S)
           /\ \A i \in DOMAIN Tail(q) : i + 1 \in DOMAIN q /\ Tail(q)[i] = q[i + 1] /\ i \in Nat
           /\ \A i \in DOMAIN q : i # 1 => i - 1 \in DOMAIN Tail(q) /\ Tail(q)[i - 1] = q[i]
           /\ \A i \in DOMAIN q : i \in Nat /\ i >= 1
  OBVIOUS

(* A request is a sequence of actions.                                      *)
LEMMA RequestsTyped == Requests \subseteq Seq(ActionTypes)
<1>1. Actions \subseteq ActionTypes
  BY HandshakeAssumption, Zenon
<1>2. <<>> \in Seq(ActionTypes)
  OBVIOUS
<1>3. \A a \in Actions : <<a>> \in Seq(ActionTypes)
  BY <1>1
<1>4. ASSUME NEW s \in Actions \X Actions PROVE s \in Seq(ActionTypes)
  <2>1. PICK a \in Actions, b \in Actions : s = <<a, b>>
    OBVIOUS
  <2> QED
    BY <1>1, <2>1
<1> QED
  BY <1>2, <1>3, <1>4, Zenon DEF Requests

(* What a message is follows from its kind.                                 *)
LEMMA MessageKinds ==
    /\ \A m \in In : /\ m.kind = "request" => m.actions \in Seq(ActionTypes)
                     /\ m.kind \in {"challenge", "exit", "output"} => m.seal \in AnySeal
                     /\ m.kind = "output" => m.type \in {"Output", "Undefined"}
    /\ \A m \in Out : /\ m.kind = "response" => m.key \in Nat
                      /\ m.kind \in {"response", "answer", "input"}
    /\ Plain \in AnySeal
    /\ \A k \in Nat : <<k, "first">> \in AnySeal /\ <<k, "second">> \in AnySeal
  BY Zenon DEF In, Out, AnySeal, Plain, NoKey

(* What the reader of a lost channel may still number.                      *)
LEMMA ReplyCases ==
    ASSUME TypeInv
    PROVE  \/ Reply = <<>>
           \/ /\ reader.pc \in {"actions", "respond"} /\ reader.todo = <<>>
              /\ Reply = <<[kind |-> "response", failed |-> reader.failed, key |-> handler.crypto]>>
           \/ /\ reader.pc = "answer"
              /\ Reply = <<[kind |-> "answer", seal |-> Encrypt(handler.crypto)]>>
  BY Zenon DEF Reply

(* And what it does number.                                                 *)
LEMMA ReplyNow ==
    ASSUME TypeInv
    PROVE  /\ reader.pc = "respond" =>
                Reply = <<[kind |-> "response", failed |-> reader.failed, key |-> handler.crypto]>>
           /\ reader.pc = "answer" =>
                Reply = <<[kind |-> "answer", seal |-> Encrypt(handler.crypto)]>>
  BY Zenon DEF Reply, TypeInv

(* A reply is a message to the agent, or none.                              *)
LEMMA ReplyTyped ==
    ASSUME TypeInv
    PROVE  /\ Reply \in Seq(Out)
           /\ [kind |-> "response", failed |-> reader.failed, key |-> handler.crypto] \in Out
           /\ [kind |-> "answer", seal |-> Encrypt(handler.crypto)] \in Out
<1>1. handler.crypto \in Nat /\ reader.failed \in BOOLEAN
  BY Zenon DEF TypeInv
<1>2. [kind |-> "response", failed |-> reader.failed, key |-> handler.crypto] \in Out
  BY <1>1, Zenon DEF Out
<1>3. [kind |-> "answer", seal |-> Encrypt(handler.crypto)] \in Out
  BY <1>1, Zenon DEF Out, Encrypt, AnySeal
<1>4. \A m \in Out : <<m>> \in Seq(Out)
  OBVIOUS
<1>5. <<>> \in Seq(Out)
  OBVIOUS
<1> QED
  BY <1>2, <1>3, <1>4, <1>5, ReplyCases, Zenon

-----------------------------------------------------------------------------
(* The steps that differ in little: nothing the layers speak of; a message  *)
(* taken for which the client only notes that it came; the channel closes.  *)
core == <<nextKey, crypto, agentKey, status, reason, handler, reader, stream, sent, late, agent,
          request, shown, answers>>

Quiet == UNCHANGED core /\ command' \in Seq(AnySeal)

Passes ==
    /\ status = "open" /\ reader.pc = "idle" /\ stream # <<>> /\ Delivered
    /\ Head(stream).kind \notin {"challenge", "retired"}
    /\ Head(stream).kind = "request" => Answered
    /\ \/ UNCHANGED <<status, reason>>
       \/ status' = "over" /\ reason' = "agent"
    /\ \/ handler' = handler
       \/ handler.state = "AwaitingComplete" /\ handler' = [handler EXCEPT !.state = "Completed"]
    /\ UNCHANGED <<nextKey, crypto, agentKey, reader, sent, late, agent, request, shown, answers,
                   command>>

Stops ==
    /\ status = "open"
    /\ \/ status' = "over" /\ reason' \in {"protocol", "agent"}
       \/ status' = "lost" /\ reason' = reason
    /\ UNCHANGED <<nextKey, crypto, agentKey, handler, reader, stream, sent, late, agent, request,
                   shown, answers, command>>

(* Every step is one of these or one of the rest of the actions.            *)
LEMMA NextCases ==
    ASSUME TypeInv, [Next]_vars
    PROVE  \/ Quiet \/ Passes \/ Stops
           \/ DeliverOutput \/ TakeRequest \/ HandleSessionType \/ RefuseKmsEncryption
           \/ NegotiateKey \/ ActionsDone \/ SendResponse \/ AfterResponse \/ SendFails
           \/ DeliverChallenge \/ SendAnswer \/ AfterAnswer
           \/ NumberInput \/ Resume \/ LateReply
           \/ (\E actions \in Requests : AgentAsks(actions)) \/ AgentRepeats \/ AgentIsLegacy
           \/ AgentReadsResponse \/ AgentReadsAnswer \/ AgentReadsInput
           \/ AgentExits \/ AgentGarbles
           \/ \E type \in {"Output", "Undefined"} : AgentOutputs(type)
<1> USE DEF clientVars, coreVars, agentVars, histVars, core
<1>1. CASE IgnoreRequest \/ DeliverExitCode
  BY <1>1, Zenon DEF IgnoreRequest, DeliverExitCode, Next1, Passes
<1>2. CASE DeliverComplete
  BY <1>2, Zenon DEF DeliverComplete, Next1, Passes
<1>3. CASE DeliverTerminate
  BY <1>3, Zenon DEF DeliverTerminate, EndsWith, Next1, Passes
<1>4. CASE ProtocolError \/ ChannelClosed \/ Lose
  BY <1>4, Zenon DEF ProtocolError, ChannelClosed, EndsWith, Lose, Stops
<1>5. CASE Publication \/ UNCHANGED vars
  <2>1. command \in Seq(AnySeal)
    BY Zenon DEF TypeInv
  <2> QED
    BY <1>5, <2>1, Zenon DEF Publication, Quiet, vars
<1>6. CASE Compose
  <2>1. command' \in Seq(AnySeal)
    <3>1. crypto \in Nat
      BY Zenon DEF TypeInv
    <3>2. (IF crypto = NoKey THEN Plain ELSE Encrypt(crypto)) \in AnySeal
      BY <3>1, MessageKinds, Zenon DEF Encrypt
    <3>3. \A e \in AnySeal : <<e>> \in Seq(AnySeal)
      OBVIOUS
    <3> QED
      BY <1>6, <3>1, <3>2, <3>3, Zenon DEF Compose
  <2> QED
    BY <1>6, <2>1, Zenon DEF Compose, Quiet
<1> QED
  BY <1>1, <1>2, <1>3, <1>4, <1>5, <1>6, Zenon DEF Next, ReaderNext, AgentReads

-----------------------------------------------------------------------------
(* Types                                                                    *)

(* The place at the head of the stream is left empty.                       *)
Vacated ==
    /\ DOMAIN stream' = DOMAIN stream /\ 1 \in DOMAIN stream /\ stream'[1].kind = "retired"
    /\ \A i \in DOMAIN stream : i # 1 => stream'[i] = stream[i]

(* deliver gives up on the message at the head: it stays, or its place is   *)
(* left empty.                                                              *)
LEMMA GivesUpCases ==
    ASSUME TypeInv, reader.pc # "idle", GivesUp
    PROVE  /\ stream' \in Seq(In) /\ stream' # <<>>
           /\ stream' = stream \/ Vacated
<1>1. stream \in Seq(In) /\ stream # <<>> /\ Retired \in In /\ Retired.kind = "retired"
  BY Zenon DEF TypeInv, Retired, In
<1>2. Len(stream) \in Nat /\ DOMAIN stream = 1..Len(stream) /\ Len(stream) # 0
  BY <1>1, LenProperties, EmptySeq
<1>3. CASE stream' = [stream EXCEPT ![1] = Retired]
  <2>1. 1 \in DOMAIN stream /\ DOMAIN stream' = DOMAIN stream
    BY <1>2, <1>3
  <2>2. stream'[1] = Retired /\ \A i \in DOMAIN stream : i # 1 => stream'[i] = stream[i]
    BY <1>3, <2>1, Zenon
  <2>3. stream' \in Seq(In) /\ Len(stream') = Len(stream)
    BY <1>1, <1>3, <2>1, ExceptSeq
  <2>4. stream' # <<>>
    BY <1>2, <2>3, EmptySeq
  <2> QED
    BY <1>1, <2>1, <2>2, <2>3, <2>4, Zenon DEF Vacated
<1> QED
  BY <1>1, <1>3, Zenon DEF GivesUp

(* What the agent says is a message to the client.                          *)
LEMMA SaysTyped ==
    ASSUME TypeInv, NEW m \in In, Says(m)
    PROVE  stream' \in Seq(In) /\ stream' # <<>>
<1>1. stream \in Seq(In) /\ stream' = Append(stream, m)
  BY Zenon DEF Says, TypeInv
<1>2. stream' \in Seq(In) /\ Len(stream') = Len(stream) + 1 /\ Len(stream) \in Nat
  BY <1>1, AppendProperties, LenProperties, Zenon
<1> QED
  BY <1>2, EmptySeq

(* The messages of the agent.                                               *)
LEMMA AgentMessages ==
    ASSUME TypeInv
    PROVE  /\ \A a \in Seq(ActionTypes) : [kind |-> "request", actions |-> a] \in In
           /\ \A k \in Nat : [kind |-> "challenge", seal |-> <<k, "first">>] \in In
           /\ [kind |-> "complete"] \in In /\ [kind |-> "garbled"] \in In
           /\ [kind |-> "terminate"] \in In
           /\ AgentSeal \in AnySeal /\ Plain \in AnySeal
           /\ \A e \in AnySeal : [kind |-> "exit", seal |-> e] \in In
           /\ \A e \in AnySeal, t \in {"Output", "Undefined"} :
                [kind |-> "output", type |-> t, seal |-> e] \in In
  BY MessageKinds, Zenon DEF In, AgentSeal, TypeInv

(* A fresh SessionCore, and an agent that has said nothing.                 *)
LEMMA TypeInit == Init => TypeInv
<1> SUFFICES ASSUME Init PROVE TypeInv
  OBVIOUS
<1>1. /\ stream \in Seq(In) /\ sent \in Seq(Out) /\ late \in Seq(Out) /\ command \in Seq(AnySeal)
      /\ request \in Seq(ActionTypes) /\ shown \in Seq(AnySeal)
  BY DEF Init
<1>2. /\ Idle \in [pc : {"idle", "actions", "respond", "install", "answer", "answered"},
                   todo : Seq(ActionTypes), failed : BOOLEAN]
      /\ Idle.pc = "idle"
  BY DEF Idle
<1>3. Fresh \in [state : {"AwaitingRequest", "AwaitingComplete", "Completed", "Failed"}, crypto : Nat]
  BY Zenon DEF Fresh, NoKey
<1> QED
  BY <1>1, <1>2, <1>3, Zenon DEF Init, TypeInv, NoKey

(* Every step keeps the types.                                              *)
LEMMA TypeStep == TypeInv /\ [Next]_vars => TypeInv'
<1> SUFFICES ASSUME TypeInv, [Next]_vars PROVE TypeInv'
  OBVIOUS
<1> USE DEF clientVars, coreVars, agentVars, histVars, core, NoKey
<1>0. /\ Idle \in [pc : {"idle", "actions", "respond", "install", "answer", "answered"},
                   todo : Seq(ActionTypes), failed : BOOLEAN]
      /\ Idle.pc = "idle"
      /\ Fresh \in [state : {"AwaitingRequest", "AwaitingComplete", "Completed", "Failed"}, crypto : Nat]
  BY DEF Idle, Fresh
<1>1. CASE Quiet \/ Stops
  <2>1. CASE Quiet
    <3>1. UNCHANGED <<nextKey, crypto, agentKey, status, reason, handler, reader, stream, sent, late,
                      agent, request, shown>>
      BY <2>1, Zenon DEF Quiet
    <3> QED
      BY <2>1, <3>1, ZenonT(30) DEF Quiet, TypeInv
  <2>2. CASE Stops
    BY <2>2, ZenonT(30) DEF Stops, TypeInv
  <2> QED
    BY <1>1, <2>1, <2>2, Zenon
<1>2. CASE Passes
  <2>1. stream' \in Seq(In)
    BY <1>2, TailDomain, Zenon DEF Passes, Delivered, TypeInv
  <2> QED
    BY <1>2, <2>1, Zenon DEF Passes, TypeInv
<1>3. CASE DeliverOutput
  <2>1. /\ stream' \in Seq(In) /\ Head(stream) \in In /\ Head(stream).kind = "output"
    BY <1>3, TailDomain, Zenon DEF DeliverOutput, Delivered, Next1, TypeInv
  <2>2. Opened(Head(stream)) \in AnySeal
    BY <2>1, MessageKinds, Zenon DEF Opened
  <2>3. shown' \in Seq(AnySeal)
    BY <1>3, <2>2, AppendProperties, Zenon DEF DeliverOutput, TypeInv
  <2> QED
    BY <1>3, <2>1, <2>3, Zenon DEF DeliverOutput, Next1, TypeInv
<1>4. CASE TakeRequest
  <2>1. Head(stream).actions \in Seq(ActionTypes)
    BY <1>4, TailDomain, MessageKinds, Zenon DEF TakeRequest, Next1, TypeInv
  <2>2. /\ reader' \in [pc : {"idle", "actions", "respond", "install", "answer", "answered"},
                        todo : Seq(ActionTypes), failed : BOOLEAN]
        /\ reader'.pc = "actions"
    BY <1>4, <2>1, Zenon DEF TakeRequest
  <2> QED
    BY <1>4, <2>2, Zenon DEF TakeRequest, Next1, TypeInv
<1>5. ASSUME NEW b \in BOOLEAN, ActionDone(b), reader.pc = "actions", reader.todo # <<>>
      PROVE  /\ reader' \in [pc : {"idle", "actions", "respond", "install", "answer", "answered"},
                             todo : Seq(ActionTypes), failed : BOOLEAN]
             /\ reader'.pc = "actions"
  <2>1. Tail(reader.todo) \in Seq(ActionTypes)
    BY <1>5, TailDomain, Zenon DEF TypeInv
  <2>2. (reader.failed \/ b) \in BOOLEAN
    OBVIOUS
  <2> QED
    BY <1>5, <2>1, <2>2, Zenon DEF ActionDone, TypeInv
<1>6. CASE HandleSessionType \/ RefuseKmsEncryption
  <2>1. /\ reader' \in [pc : {"idle", "actions", "respond", "install", "answer", "answered"},
                        todo : Seq(ActionTypes), failed : BOOLEAN]
        /\ reader'.pc = "actions"
    BY <1>5, <1>6, Zenon DEF HandleSessionType, RefuseKmsEncryption
  <2> QED
    BY <1>6, <2>1, Zenon DEF HandleSessionType, RefuseKmsEncryption, TypeInv
<1>7. CASE NegotiateKey
  <2>1. /\ reader' \in [pc : {"idle", "actions", "respond", "install", "answer", "answered"},
                        todo : Seq(ActionTypes), failed : BOOLEAN]
        /\ reader'.pc = "actions"
    BY <1>5, <1>7, Zenon DEF NegotiateKey
  <2>2. nextKey' \in Nat /\ handler' = [handler EXCEPT !.crypto = nextKey']
    BY <1>7 DEF NegotiateKey, TypeInv
  <2>3. handler' \in [state : {"AwaitingRequest", "AwaitingComplete", "Completed", "Failed"}, crypto : Nat]
    BY <2>2, Zenon DEF TypeInv
  <2>4. UNCHANGED <<crypto, agentKey, status, reason, stream, sent, late, command, agent, request, shown>>
    BY <1>7, Zenon DEF NegotiateKey
  <2>5. stream # <<>>
    BY <1>7, Zenon DEF NegotiateKey, TypeInv
  <2> QED
    BY <2>1, <2>2, <2>3, <2>4, <2>5, Zenon DEF TypeInv
<1>8. CASE ActionsDone
  BY <1>8, Zenon DEF ActionsDone, TypeInv
<1>9. CASE SendResponse \/ SendAnswer
  <2>1. sent' \in Seq(Out)
    <3>1. sent \in Seq(Out) /\ Reply \in Seq(Out) /\ sent' = sent \o Reply
      BY <1>9, ReplyTyped, Zenon DEF SendResponse, SendAnswer, TypeInv
    <3> QED
      BY <3>1, ConcatProperties, SMTT(30)
  <2> QED
    BY <1>9, <2>1, Zenon DEF SendResponse, SendAnswer, TypeInv
<1>10. CASE AfterResponse
  <2>1. stream' \in Seq(In)
    <3>1. stream \in Seq(In) /\ stream # <<>>
      BY <1>10, Zenon DEF AfterResponse, TypeInv
    <3>2. GivesUp \/ stream' = Tail(stream)
      BY <1>10, Zenon DEF AfterResponse, Delivered
    <3>3. reader.pc # "idle"
      BY <1>10, Zenon DEF AfterResponse
    <3> QED
      BY <3>1, <3>2, <3>3, GivesUpCases, TailDomain, Zenon
  <2>2. crypto' \in Nat
    BY <1>10, Zenon DEF AfterResponse, Cipher, TypeInv
  <2> QED
    BY <1>0, <1>10, <2>1, <2>2 DEF AfterResponse, EndsWith, TypeInv
<1>11. CASE SendFails
  <2>1. stream' \in Seq(In)
    BY <1>11, GivesUpCases, Zenon DEF SendFails
  <2> QED
    BY <1>0, <1>11, <2>1, Zenon DEF SendFails, TypeInv
<1>12. CASE DeliverChallenge
  BY <1>12, Zenon DEF DeliverChallenge, Next1, TypeInv
<1>13. CASE AfterAnswer
  <2>1. stream' \in Seq(In)
    BY <1>13, TailDomain, Zenon DEF AfterAnswer, Delivered, TypeInv
  <2> QED
    BY <1>0, <1>13, <2>1, Zenon DEF AfterAnswer, TypeInv
<1>14. CASE NumberInput
  <2>1. command[1] \in AnySeal /\ command' \in Seq(AnySeal)
    BY <1>14, TailDomain DEF NumberInput, TypeInv
  <2>2. [kind |-> "input", seal |-> command[1]] \in Out
    BY <2>1, Zenon DEF Out
  <2>3. sent' \in Seq(Out)
    BY <1>14, <2>2, AppendProperties, Zenon DEF NumberInput, TypeInv
  <2> QED
    BY <1>14, <2>1, <2>3 DEF NumberInput, TypeInv
<1>15. CASE Resume
  <2>1. late' \in Seq(Out) /\ command' \in Seq(AnySeal)
    <3>1. Reply \in Seq(Out) /\ <<>> \in Seq(Out) /\ <<>> \in Seq(AnySeal)
      BY ReplyTyped
    <3> QED
      BY <1>15, <3>1, Zenon DEF Resume
  <2>2. stream' \in Seq(In)
    BY <1>15, GivesUpCases, Zenon DEF Resume, TypeInv
  <2> QED
    BY <1>0, <1>15, <2>1, <2>2, Zenon DEF Resume, InheritedCipher, NewHandler, TypeInv
<1>16. CASE LateReply
  <2>1. sent' \in Seq(Out) /\ late' \in Seq(Out)
    BY <1>16, ConcatProperties DEF LateReply, TypeInv
  <2> QED
    BY <1>16, <2>1 DEF LateReply, TypeInv
<1>17. ASSUME NEW a \in Requests, AgentAsks(a) PROVE TypeInv'
  <2>1. a \in Seq(ActionTypes)
    BY RequestsTyped, Zenon
  <2>2. stream' \in Seq(In) /\ stream' # <<>>
    BY <1>17, <2>1, AgentMessages, SaysTyped, Zenon DEF AgentAsks
  <2> QED
    BY <1>17, <2>1, <2>2 DEF AgentAsks, TypeInv
<1>18. CASE AgentRepeats \/ AgentGarbles
  <2>1. stream' \in Seq(In) /\ stream' # <<>>
    BY <1>18, AgentMessages, SaysTyped, Zenon DEF AgentRepeats, AgentGarbles, TypeInv
  <2> QED
    BY <1>18, <2>1, Zenon DEF AgentRepeats, AgentGarbles, TypeInv
<1>19. CASE AgentIsLegacy
  BY <1>19 DEF AgentIsLegacy, TypeInv
<1>20. CASE AgentReadsResponse
  <2>1. sent' \in Seq(Out) /\ Head(sent).key \in Nat
    BY <1>20, TailDomain, MessageKinds, Zenon DEF AgentReadsResponse, Reads, TypeInv
  <2>2. stream' \in Seq(In) /\ (stream # <<>> => stream' # <<>>)
    BY <1>20, <2>1, AgentMessages, SaysTyped, Zenon DEF AgentReadsResponse, TypeInv
  <2>3. agentKey' \in Nat /\ agent' \in {"new", "asked", "challenged", "complete", "legacy", "ended"}
    BY <1>20, <2>1, Zenon DEF AgentReadsResponse, TypeInv
  <2>4. UNCHANGED <<nextKey, crypto, status, reason, handler, reader, late, command, request, shown>>
    BY <1>20, Zenon DEF AgentReadsResponse
  <2> QED
    BY <2>1, <2>2, <2>3, <2>4, Zenon DEF TypeInv
<1>21. CASE AgentReadsAnswer
  <2>1. sent' \in Seq(Out)
    BY <1>21, TailDomain, Zenon DEF AgentReadsAnswer, Reads, TypeInv
  <2>2. stream' \in Seq(In) /\ (stream # <<>> => stream' # <<>>)
    BY <1>21, AgentMessages, SaysTyped, Zenon DEF AgentReadsAnswer, TypeInv
  <2> QED
    BY <1>21, <2>1, <2>2 DEF AgentReadsAnswer, TypeInv
<1>22. CASE AgentReadsInput
  <2>1. sent' \in Seq(Out)
    BY <1>22, TailDomain, Zenon DEF AgentReadsInput, Reads, TypeInv
  <2> QED
    BY <1>22, <2>1 DEF AgentReadsInput, TypeInv
<1>23. CASE AgentExits
  <2>1. stream' \in Seq(In) /\ (stream # <<>> => stream' # <<>>)
    <3>1. [kind |-> "exit", seal |-> AgentSeal] \in In /\ [kind |-> "terminate"] \in In
      BY AgentMessages, Zenon
    <3>2. <<[kind |-> "exit", seal |-> AgentSeal], [kind |-> "terminate"]>> \in Seq(In)
      BY <3>1
    <3> QED
      BY <1>23, <3>2, ConcatProperties DEF AgentExits, TypeInv
  <2> QED
    BY <1>23, <2>1 DEF AgentExits, TypeInv
<1>24. ASSUME NEW t \in {"Output", "Undefined"}, AgentOutputs(t) PROVE TypeInv'
  <2>1. stream' \in Seq(In) /\ stream' # <<>>
    BY <1>24, AgentMessages, SaysTyped, Zenon DEF AgentOutputs
  <2> QED
    BY <1>24, <2>1 DEF AgentOutputs, TypeInv
<1> QED
  BY <1>1, <1>2, <1>3, <1>4, <1>6, <1>7, <1>8, <1>9, <1>10, <1>11, <1>12, <1>13, <1>14, <1>15,
     <1>16, <1>17, <1>18, <1>19, <1>20, <1>21, <1>22, <1>23, <1>24, NextCases, Zenon

(* The types hold in every reachable state.                                 *)
LEMMA TypeInvHolds == Spec => []TypeInv
  BY TypeInit, TypeStep, PTL DEF Spec

-----------------------------------------------------------------------------
(* One answer per channel                                                   *)

(* on_request is past its request when the response is numbered.            *)
LEMMA AnswerStep == TypeInv /\ AnswerInv /\ [Next]_vars => AnswerInv'
<1> SUFFICES ASSUME TypeInv, AnswerInv, [Next]_vars PROVE AnswerInv'
  OBVIOUS
<1> USE DEF clientVars, coreVars, agentVars, histVars, core, NoKey
<1>0. /\ handler \in [state : {"AwaitingRequest", "AwaitingComplete", "Completed", "Failed"}, crypto : Nat]
      /\ reader.pc \in {"idle", "actions", "respond", "install", "answer", "answered"}
      /\ \A p, t : [reader EXCEPT !.pc = p].pc = p
      /\ \A b \in BOOLEAN : ActionDone(b) => reader'.pc = reader.pc
  BY Zenon DEF TypeInv, ActionDone
<1>1. CASE UNCHANGED <<handler, reader, answers>>
  BY <1>1, Zenon DEF AnswerInv
<1>2. CASE Passes
  BY <1>0, <1>2, Zenon DEF Passes, AnswerInv
<1>3. CASE TakeRequest
  <2>1. handler.state = "AwaitingRequest" /\ handler' = handler /\ answers' = answers
    BY <1>0, <1>3, Zenon DEF TakeRequest, Answered
  <2>2. reader'.pc = "actions" /\ reader.pc = "idle"
    BY <1>3, Zenon DEF TakeRequest, Next1
  <2> QED
    BY <2>1, <2>2, Zenon DEF AnswerInv
<1>4. CASE HandleSessionType \/ RefuseKmsEncryption
  <2>1. reader'.pc = reader.pc /\ UNCHANGED <<handler, answers>>
    BY <1>0, <1>4, Zenon DEF HandleSessionType, RefuseKmsEncryption
  <2> QED
    BY <2>1, Zenon DEF AnswerInv
<1>5. CASE NegotiateKey
  <2>1. reader'.pc = "actions" /\ reader.pc = "actions" /\ answers' = answers
    BY <1>0, <1>5, Zenon DEF NegotiateKey
  <2>2. handler'.state = handler.state
    BY <1>0, <1>5, Zenon DEF NegotiateKey
  <2> QED
    BY <2>1, <2>2, Zenon DEF AnswerInv
<1>6. CASE ActionsDone
  <2>1. reader'.pc = "respond" /\ reader.pc = "actions" /\ answers' = answers
    BY <1>0, <1>6, Zenon DEF ActionsDone
  <2>2. handler'.state # "AwaitingRequest"
    BY <1>0, <1>6, Zenon DEF ActionsDone
  <2> QED
    BY <2>1, <2>2, Zenon DEF AnswerInv
<1>7. CASE SendResponse
  <2>1. reader'.pc = "install" /\ reader.pc = "respond" /\ answers' = answers + 1 /\ handler' = handler
    BY <1>0, <1>7, Zenon DEF SendResponse
  <2> QED
    BY <2>1 DEF AnswerInv
<1>8. CASE AfterResponse \/ SendFails \/ AfterAnswer
  <2>1. reader'.pc = "idle" /\ reader.pc \notin {"actions", "idle"} /\ UNCHANGED <<handler, answers>>
    BY <1>8 DEF AfterResponse, SendFails, AfterAnswer, Idle
  <2> QED
    BY <2>1, Zenon DEF AnswerInv
<1>9. CASE DeliverChallenge \/ SendAnswer
  <2>1. /\ reader'.pc \in {"answer", "answered"} /\ reader.pc \in {"idle", "answer"}
        /\ UNCHANGED <<handler, answers>>
    BY <1>0, <1>9, Zenon DEF DeliverChallenge, Next1, SendAnswer
  <2> QED
    BY <2>1, Zenon DEF AnswerInv
<1>10. CASE Resume
  BY <1>10 DEF Resume, NewHandler, Fresh, Idle, AnswerInv
<1> QED
  BY <1>1, <1>2, <1>3, <1>4, <1>5, <1>6, <1>7, <1>8, <1>9, <1>10, NextCases, Zenon
  DEF Quiet, Stops, DeliverOutput, NumberInput, LateReply, AgentAsks, AgentRepeats, AgentIsLegacy,
      AgentReadsResponse, AgentReadsAnswer, AgentReadsInput, AgentExits, AgentGarbles, AgentOutputs

(* The handler of a channel answers in step with its state.                 *)
LEMMA AnswerInvHolds == Spec => []AnswerInv
<1>1. Init => AnswerInv
  BY DEF Init, AnswerInv, Fresh, Idle, NoKey
<1> QED
  BY <1>1, AnswerStep, TypeInvHolds, PTL DEF Spec

(* on_request answers at most once on a channel, however often the agent    *)
(* repeats its request, whatever its actions are and whichever fail.        *)
THEOREM OneAnswer == Spec => []AnsweredOnce
<1>1. AnswerInv => AnsweredOnce
  BY DEF AnswerInv, AnsweredOnce
<1> QED
  BY <1>1, AnswerInvHolds, PTL

-----------------------------------------------------------------------------
(* The two streams                                                          *)

(* r is q without its head; r is q with more behind it, from S.             *)
Shifted(q, r) ==
    /\ 1 \in DOMAIN q /\ \A i \in DOMAIN q : i \in Nat /\ i >= 1
    /\ \A i \in DOMAIN r : i + 1 \in DOMAIN q /\ r[i] = q[i + 1] /\ i \in Nat
    /\ \A i \in DOMAIN q : i # 1 => i - 1 \in DOMAIN r /\ r[i - 1] = q[i]
Extended(q, r, S) ==
    /\ \A i \in DOMAIN q : i \in DOMAIN r /\ r[i] = q[i]
    /\ \A i \in DOMAIN r :
         \/ i \in DOMAIN q /\ r[i] = q[i]
         \/ r[i] \in S /\ i \notin DOMAIN q /\ \A j \in DOMAIN q : j < i

(* Tail shifts a queue: what is read off the wire or the inbox.             *)
LEMMA TailShifts ==
    ASSUME NEW T, NEW q \in Seq(T), q # <<>>, NEW r, r = Tail(q)
    PROVE  Shifted(q, r) /\ Head(q) = q[1] /\ Head(q) \in T
  BY TailDomain, Zenon DEF Shifted

(* Append extends a queue by the one message that is put on it.             *)
LEMMA AppendExtends ==
    ASSUME NEW T, NEW q \in Seq(T), NEW e \in T, NEW r, r = Append(q, e)
    PROVE  Extended(q, r, {e}) /\ \E i \in DOMAIN r : r[i] = e /\ \A j \in DOMAIN q : j < i
<1>1. /\ Len(q) + 1 \in DOMAIN r /\ r[Len(q) + 1] = e
      /\ \A i \in DOMAIN q : i \in DOMAIN r /\ r[i] = q[i] /\ i \in Nat /\ i < Len(q) + 1
      /\ \A i \in DOMAIN r : (i \in DOMAIN q /\ r[i] = q[i]) \/ (i = Len(q) + 1 /\ r[i] = e)
  BY AppendDomain, SMTT(30)
<1>2. Len(q) + 1 \notin DOMAIN q
  BY LenProperties
<1> QED
  BY <1>1, <1>2, Zenon DEF Extended

(* So does \o by several messages, each of which it then holds.             *)
LEMMA ConcatExtends ==
    ASSUME NEW T, NEW q \in Seq(T), NEW p \in Seq(T), NEW r, r = q \o p
    PROVE  /\ Extended(q, r, {p[k] : k \in DOMAIN p})
           /\ \A k \in DOMAIN p : \E i \in DOMAIN r : r[i] = p[k]
<1>1. /\ Len(q) \in Nat /\ DOMAIN q = 1..Len(q)
      /\ Len(p) \in Nat /\ DOMAIN p = 1..Len(p)
  BY LenProperties, Zenon
<1>2. /\ r \in Seq(T) /\ Len(r) = Len(q) + Len(p)
      /\ \A i \in 1..(Len(q) + Len(p)) : r[i] = IF i <= Len(q) THEN q[i] ELSE p[i - Len(q)]
  BY ConcatProperties, Zenon
<1>3. DOMAIN r = 1..(Len(q) + Len(p))
  BY <1>2, LenProperties, Zenon
<1>4. \A i \in DOMAIN q : i \in DOMAIN r /\ r[i] = q[i] /\ i \in Nat /\ i <= Len(q)
  BY <1>1, <1>2, <1>3
<1>5. ASSUME NEW k \in DOMAIN p PROVE Len(q) + k \in DOMAIN r /\ r[Len(q) + k] = p[k]
  <2>1. k \in Nat /\ k >= 1 /\ k <= Len(p)
    BY <1>1
  <2>2. Len(q) + k \in 1..(Len(q) + Len(p)) /\ ~(Len(q) + k <= Len(q)) /\ (Len(q) + k) - Len(q) = k
    BY <1>1, <2>1
  <2> QED
    BY <1>2, <1>3, <2>2, Zenon
<1>6. ASSUME NEW i \in DOMAIN r
      PROVE  \/ i \in DOMAIN q /\ r[i] = q[i]
             \/ \E k \in DOMAIN p : i = Len(q) + k /\ r[i] = p[k] /\ i > Len(q)
  <2>1. i \in Nat /\ i >= 1 /\ i <= Len(q) + Len(p)
    BY <1>1, <1>3
  <2>2. CASE i <= Len(q)
    BY <1>1, <1>2, <2>1, <2>2
  <2>3. CASE ~(i <= Len(q))
    <3>1. i - Len(q) \in 1..Len(p) /\ i = Len(q) + (i - Len(q)) /\ i > Len(q)
      BY <1>1, <2>1, <2>3
    <3>2. r[i] = p[i - Len(q)]
      BY <1>2, <1>3, <2>3, Zenon
    <3> QED
      BY <1>1, <3>1, <3>2, Zenon
  <2> QED
    BY <2>2, <2>3, Zenon
<1>7. ASSUME NEW i \in DOMAIN r, ~(i \in DOMAIN q /\ r[i] = q[i])
      PROVE  r[i] \in {p[k] : k \in DOMAIN p} /\ i \notin DOMAIN q /\ \A j \in DOMAIN q : j < i
  <2>1. PICK k \in DOMAIN p : i = Len(q) + k /\ r[i] = p[k] /\ i > Len(q)
    BY <1>6, <1>7, Zenon
  <2>2. i \in Nat
    BY <1>1, <2>1
  <2> QED
    BY <1>1, <1>4, <2>1, <2>2
<1>8. \A k \in DOMAIN p : \E i \in DOMAIN r : r[i] = p[k]
  BY <1>5, Zenon
<1> QED
  BY <1>4, <1>7, <1>8, Zenon DEF Extended

(* How the stream to the client changes.                                    *)
ClientTakes ==
    /\ Shifted(stream, stream') /\ reader'.pc = "idle" /\ reader.pc \in {"idle", "install", "answered"}
    /\ reader.pc = "idle" =>
         /\ stream[1].kind \notin {"challenge", "retired"}
         /\ stream[1].kind = "request" => status = "open" /\ Answered
    /\ UNCHANGED <<agent, agentKey, request, sent, late>>
ClientGivesUp ==
    /\ Vacated /\ reader.pc # "idle" /\ reader'.pc = "idle"
    /\ UNCHANGED <<agent, agentKey, request, sent>>
SaysRequest ==
    /\ agent \in {"new", "asked"} /\ agent' = "asked"
    /\ Extended(stream, stream', {[kind |-> "request", actions |-> request']})
SaysChallenge ==
    /\ agent = "asked" /\ agent' = "challenged" /\ agentKey' # NoKey
    /\ Extended(stream, stream', {[kind |-> "challenge", seal |-> <<agentKey', "first">>]})
SaysOutput ==
    /\ agent \in {"complete", "legacy"}
    /\ \E t \in {"Output", "Undefined"} :
         Extended(stream, stream', {[kind |-> "output", type |-> t,
                                     seal |-> IF t = "Undefined" THEN Plain ELSE AgentSeal]})
    /\ UNCHANGED <<agent, agentKey>>
SaysOther ==
    \E S : /\ Extended(stream, stream', S)
           /\ \A m \in S : m.kind \in {"complete", "garbled", "exit", "terminate"}

(* Every step does one of these to it, or nothing.                          *)
LEMMA StreamCases ==
    ASSUME TypeInv, [Next]_vars
    PROVE  \/ stream' = stream \/ ClientTakes \/ ClientGivesUp
           \/ SaysRequest \/ SaysChallenge \/ SaysOutput \/ SaysOther
<1> USE DEF clientVars, coreVars, agentVars, histVars, core
<1>0. stream \in Seq(In) /\ (reader.pc # "idle" => stream # <<>>) /\ agentKey \in Nat
  BY Zenon DEF TypeInv
<1>1. ASSUME stream # <<>>, Delivered PROVE Shifted(stream, stream') /\ Head(stream) = stream[1]
  BY <1>0, <1>1, TailShifts, Zenon DEF Delivered
<1>2. ASSUME NEW m \in In, Says(m) PROVE Extended(stream, stream', {m})
  BY <1>0, <1>2, AppendExtends, Zenon DEF Says
<1>12. ASSUME NEW m \in In, Says(m), m.kind \in {"complete", "garbled", "exit", "terminate"}
       PROVE  SaysOther
  <2> DEFINE S == {m}
  <2>1. Extended(stream, stream', S)
    BY <1>2, <1>12, Zenon
  <2>2. \A x \in S : x.kind \in {"complete", "garbled", "exit", "terminate"}
    BY <1>12, Zenon
  <2> HIDE DEF S
  <2> QED
    BY <2>1, <2>2, Zenon DEF SaysOther
<1>3. CASE Passes
  BY <1>1, <1>3, Zenon DEF Passes, ClientTakes
<1>4. CASE DeliverOutput
  BY <1>1, <1>4, Zenon DEF DeliverOutput, Next1, ClientTakes
<1>5. CASE AfterResponse \/ AfterAnswer
  <2>1. reader.pc \in {"install", "answered"} /\ reader'.pc = "idle"
    BY <1>5 DEF AfterResponse, AfterAnswer, Idle
  <2>2. GivesUp \/ Delivered
    BY <1>5, Zenon DEF AfterResponse, AfterAnswer
  <2>3. UNCHANGED <<agent, agentKey, request, sent, late>>
    BY <1>5, Zenon DEF AfterResponse, AfterAnswer
  <2>4. stream # <<>>
    BY <1>0, <2>1, Zenon
  <2> QED
    BY <1>1, <2>1, <2>2, <2>3, <2>4, GivesUpCases, Zenon DEF ClientTakes, ClientGivesUp
<1>13. CASE SendFails \/ Resume
  <2>1. /\ stream' = stream \/ (reader.pc # "idle" /\ GivesUp)
        /\ reader'.pc = "idle" /\ UNCHANGED <<agent, agentKey, request, sent>>
    <3>1. Idle.pc = "idle"
      BY DEF Idle
    <3>2. CASE SendFails
      BY <3>1, <3>2, Zenon DEF SendFails
    <3>3. CASE Resume
      BY <3>1, <3>3, Zenon DEF Resume
    <3> QED
      BY <1>13, <3>2, <3>3, Zenon
  <2> QED
    BY <2>1, GivesUpCases, Zenon DEF ClientGivesUp
<1>6. ASSUME NEW a \in Requests, AgentAsks(a) PROVE SaysRequest
  <2>1. a \in Seq(ActionTypes)
    BY RequestsTyped, Zenon
  <2>2. [kind |-> "request", actions |-> a] \in In
    BY <2>1, AgentMessages, Zenon
  <2> QED
    BY <1>2, <1>6, <2>2, Zenon DEF AgentAsks, SaysRequest
<1>7. CASE AgentRepeats
  <2>1. [kind |-> "request", actions |-> request] \in In
    BY AgentMessages, Zenon DEF TypeInv
  <2> QED
    BY <1>2, <1>7, <2>1, Zenon DEF AgentRepeats, SaysRequest
<1>8. CASE AgentReadsResponse
  <2>1. Head(sent).key \in Nat
    BY <1>8, TailDomain, MessageKinds, Zenon DEF AgentReadsResponse, Reads, TypeInv
  <2>2. /\ [kind |-> "challenge", seal |-> <<Head(sent).key, "first">>] \in In
        /\ [kind |-> "complete"] \in In /\ [kind |-> "complete"].kind = "complete"
    BY <2>1, AgentMessages, Zenon
  <2>3. CASE agent' = "challenged" /\ agent = "asked"
    BY <1>2, <1>8, <2>2, <2>3, Zenon DEF AgentReadsResponse, SaysChallenge
  <2>4. CASE Says([kind |-> "complete"])
    BY <1>12, <2>2, <2>4, Zenon
  <2> QED
    BY <1>8, <2>3, <2>4, Zenon DEF AgentReadsResponse
<1>9. CASE AgentReadsAnswer \/ AgentGarbles
  <2>1. /\ [kind |-> "complete"] \in In /\ [kind |-> "complete"].kind = "complete"
        /\ [kind |-> "garbled"] \in In /\ [kind |-> "garbled"].kind = "garbled"
    BY AgentMessages, Zenon
  <2>2. stream' = stream \/ Says([kind |-> "complete"]) \/ Says([kind |-> "garbled"])
    BY <1>9, Zenon DEF AgentReadsAnswer, AgentGarbles
  <2> QED
    BY <1>12, <2>1, <2>2, Zenon
<1>10. CASE AgentExits
  <2> DEFINE p == <<[kind |-> "exit", seal |-> AgentSeal], [kind |-> "terminate"]>>
             S == {p[k] : k \in DOMAIN p}
  <2>1. [kind |-> "exit", seal |-> AgentSeal] \in In /\ [kind |-> "terminate"] \in In
    BY AgentMessages, Zenon
  <2>2. p \in Seq(In)
    BY <2>1
  <2>3. Extended(stream, stream', S)
    BY <1>0, <1>10, <2>2, ConcatExtends, Zenon DEF AgentExits
  <2>4. \A m \in S : m.kind \in {"complete", "garbled", "exit", "terminate"}
    OBVIOUS
  <2> HIDE DEF S
  <2> QED
    BY <2>3, <2>4, Zenon DEF SaysOther
<1>11. ASSUME NEW t \in {"Output", "Undefined"}, AgentOutputs(t) PROVE SaysOutput
  <2>1. [kind |-> "output", type |-> t, seal |-> IF t = "Undefined" THEN Plain ELSE AgentSeal] \in In
    BY AgentMessages, Zenon
  <2> QED
    BY <1>2, <1>11, <2>1, Zenon DEF AgentOutputs, SaysOutput
<1> QED
  BY <1>3, <1>4, <1>5, <1>6, <1>7, <1>8, <1>9, <1>10, <1>11, <1>13, NextCases, Zenon
  DEF Quiet, Stops, TakeRequest, HandleSessionType, RefuseKmsEncryption, NegotiateKey, ActionsDone,
      SendResponse, DeliverChallenge, SendAnswer, NumberInput, LateReply, AgentIsLegacy,
      AgentReadsInput

(* How the stream to the agent changes.                                     *)
Response == [kind |-> "response", failed |-> reader.failed, key |-> handler.crypto]

AgentTakes(kind) == sent # <<>> /\ Shifted(sent, sent') /\ sent[1] = Head(sent) /\ sent[1].kind = kind
NumbersResponse ==
    /\ SendResponse /\ Extended(sent, sent', {Response}) /\ reader.todo = <<>>
    /\ \E i \in DOMAIN sent' : sent'[i].kind = "response"
NumbersAnswer ==
    /\ SendAnswer
    /\ \E m : m.kind = "answer" /\ Extended(sent, sent', {m})
    /\ \E i \in DOMAIN sent' : sent'[i].kind = "answer"
NumbersInput == NumberInput /\ \E m : m.kind = "input" /\ Extended(sent, sent', {m})
NumbersLate == LateReply /\ Extended(sent, sent', {late[k] : k \in DOMAIN late})

(* Each action that changes it, in these terms.                             *)
LEMMA SentCases ==
    ASSUME TypeInv
    PROVE  /\ SendResponse => NumbersResponse
           /\ SendAnswer => NumbersAnswer
           /\ NumberInput => NumbersInput
           /\ LateReply => NumbersLate
           /\ \A kind : Reads(kind) => AgentTakes(kind)
<1>0. sent \in Seq(Out) /\ late \in Seq(Out) /\ Response \in Out
  BY ReplyTyped, Zenon DEF TypeInv, Response
<1>1. ASSUME NEW m \in Out, NEW p, p = <<m>>, sent' = sent \o p
      PROVE  Extended(sent, sent', {m}) /\ \E i \in DOMAIN sent' : sent'[i] = m
  <2>1. sent' = Append(sent, m)
    BY <1>0, <1>1, AppendIsConcat, Zenon
  <2>2. Extended(sent, sent', {m})
    BY <1>0, <2>1, AppendExtends, Zenon
  <2>3. Len(sent) + 1 \in DOMAIN sent' /\ sent'[Len(sent) + 1] = m
    BY <1>0, <2>1, AppendDomain
  <2> QED
    BY <2>2, <2>3, Zenon
<1>2. ASSUME SendResponse PROVE NumbersResponse
  <2>1. Reply = <<Response>> /\ sent' = sent \o Reply /\ reader.todo = <<>>
    BY <1>2, ReplyNow, Zenon DEF SendResponse, Response, TypeInv
  <2>2. Response.kind = "response"
    BY Zenon DEF Response
  <2>3. Extended(sent, sent', {Response}) /\ \E i \in DOMAIN sent' : sent'[i] = Response
    BY <1>0, <1>1, <2>1, Zenon
  <2> QED
    BY <1>2, <2>1, <2>2, <2>3, Zenon DEF NumbersResponse
<1>3. ASSUME SendAnswer PROVE NumbersAnswer
  <2> DEFINE m == [kind |-> "answer", seal |-> Encrypt(handler.crypto)]
  <2>1. Reply = <<m>> /\ sent' = sent \o Reply /\ m \in Out /\ m.kind = "answer"
    BY <1>3, ReplyNow, ReplyTyped, Zenon DEF SendAnswer
  <2> HIDE DEF m
  <2>2. Extended(sent, sent', {m}) /\ \E i \in DOMAIN sent' : sent'[i] = m
    BY <1>1, <2>1, Zenon
  <2> QED
    BY <1>3, <2>1, <2>2, Zenon DEF NumbersAnswer
<1>4. ASSUME NumberInput PROVE NumbersInput
  <2> DEFINE m == [kind |-> "input", seal |-> command[1]]
  <2>1. command[1] \in AnySeal
    BY <1>4, TailDomain DEF NumberInput, TypeInv
  <2>2. m \in Out /\ m.kind = "input" /\ sent' = Append(sent, m)
    BY <1>4, <2>1, Zenon DEF Out, NumberInput
  <2> HIDE DEF m
  <2>3. Extended(sent, sent', {m})
    BY <1>0, <2>2, AppendExtends, Zenon
  <2> QED
    BY <1>4, <2>2, <2>3, Zenon DEF NumbersInput
<1>5. ASSUME LateReply PROVE NumbersLate
  <2>1. sent' = sent \o late
    BY <1>5, Zenon DEF LateReply
  <2>2. Extended(sent, sent', {late[k] : k \in DOMAIN late})
    BY <1>0, <2>1, ConcatExtends, Zenon
  <2> QED
    BY <1>5, <2>2, Zenon DEF NumbersLate
<1>6. ASSUME NEW kind, Reads(kind) PROVE AgentTakes(kind)
  BY <1>0, <1>6, TailShifts, Zenon DEF Reads, AgentTakes
<1> QED
  BY <1>2, <1>3, <1>4, <1>5, <1>6, Zenon

(* All that can be on its way to the agent was there, or is one of these.   *)
LEMMA SentStays ==
    ASSUME TypeInv, [Next]_vars
    PROVE  \/ UNCHANGED sent
           \/ SendResponse \/ SendAnswer \/ NumberInput \/ LateReply
           \/ AgentReadsResponse \/ AgentReadsAnswer \/ AgentReadsInput
  BY NextCases, Zenon
  DEF clientVars, coreVars, agentVars, histVars, core, Quiet, Passes, Stops, DeliverOutput,
      TakeRequest, HandleSessionType, RefuseKmsEncryption, NegotiateKey, ActionsDone, AfterResponse,
      SendFails, DeliverChallenge, AfterAnswer, Resume, AgentAsks, AgentRepeats, AgentIsLegacy,
      AgentExits, AgentGarbles, AgentOutputs

(* What the reader of a lost channel left behind is numbered once.          *)
LEMMA LateCases ==
    ASSUME TypeInv, [Next]_vars
    PROVE  late' = late \/ late' = <<>> \/ (Resume /\ late' = Reply)
<1>1. CASE Resume
  BY <1>1, Zenon DEF Resume
<1> QED
  BY <1>1, NextCases, Zenon
  DEF clientVars, coreVars, agentVars, histVars, core, Quiet, Passes, Stops, DeliverOutput,
      TakeRequest, HandleSessionType, RefuseKmsEncryption, NegotiateKey, ActionsDone, SendResponse,
      AfterResponse, SendFails, DeliverChallenge, SendAnswer, AfterAnswer, NumberInput, LateReply,
      AgentAsks, AgentRepeats, AgentIsLegacy, AgentReadsResponse, AgentReadsAnswer,
      AgentReadsInput, AgentExits, AgentGarbles, AgentOutputs

-----------------------------------------------------------------------------
(* The request and its response                                             *)

(* Where the reader is, and what became of the agent and its request.       *)
LEMMA ControlSteps ==
    ASSUME TypeInv, [Next]_vars
    PROVE  /\ reader'.pc \in {"actions", "respond", "install"} =>
                TakeRequest \/ reader.pc \in {"actions", "respond", "install"}
           /\ reader'.pc = "answer" => DeliverChallenge \/ reader.pc = "answer"
           /\ agent' = "new" => agent = "new"
           /\ agent' = "legacy" => agent \in {"new", "legacy"}
           /\ request' = request \/ \E a \in Requests : AgentAsks(a)
<1> USE DEF clientVars, coreVars, agentVars, histVars, core
<1>0. /\ \A p, t : [reader EXCEPT !.pc = p].pc = p
      /\ \A b \in BOOLEAN : ActionDone(b) => reader'.pc = reader.pc
      /\ Idle.pc = "idle"
  BY Zenon DEF TypeInv, ActionDone, Idle
<1>1. CASE \/ Quiet \/ Passes \/ Stops \/ DeliverOutput \/ NumberInput \/ LateReply
           \/ (\E a \in Requests : AgentAsks(a)) \/ AgentRepeats \/ AgentIsLegacy
           \/ AgentReadsResponse \/ AgentReadsAnswer \/ AgentReadsInput
           \/ AgentExits \/ AgentGarbles
           \/ \E type \in {"Output", "Undefined"} : AgentOutputs(type)
  <2>1. reader' = reader
    BY <1>1, Zenon
    DEF Quiet, Passes, Stops, DeliverOutput, NumberInput, LateReply, AgentAsks, AgentRepeats,
        AgentIsLegacy, AgentReadsResponse, AgentReadsAnswer, AgentReadsInput, AgentExits,
        AgentGarbles, AgentOutputs
  <2>2. \/ agent' = agent
        \/ agent' = "legacy" /\ agent = "new"
        \/ agent' \in {"asked", "ended", "challenged", "complete"}
    BY <1>1, Zenon
    DEF Quiet, Passes, Stops, DeliverOutput, NumberInput, LateReply, AgentAsks, AgentRepeats,
        AgentIsLegacy, AgentReadsResponse, AgentReadsAnswer, AgentReadsInput, AgentExits,
        AgentGarbles, AgentOutputs
  <2>3. request' = request \/ \E a \in Requests : AgentAsks(a)
    BY <1>1, Zenon
    DEF Quiet, Passes, Stops, DeliverOutput, NumberInput, LateReply, AgentRepeats,
        AgentIsLegacy, AgentReadsResponse, AgentReadsAnswer, AgentReadsInput, AgentExits,
        AgentGarbles, AgentOutputs
  <2> QED
    BY <2>1, <2>2, <2>3, Zenon
<1>2. CASE HandleSessionType \/ RefuseKmsEncryption \/ NegotiateKey
  <2>1. reader'.pc = reader.pc
    BY <1>0, <1>2, Zenon DEF HandleSessionType, RefuseKmsEncryption, NegotiateKey
  <2>2. agent' = agent /\ request' = request
    BY <1>2, Zenon DEF HandleSessionType, RefuseKmsEncryption, NegotiateKey
  <2> QED
    BY <2>1, <2>2, Zenon
<1>3. CASE ActionsDone \/ SendResponse
  <2>1. reader.pc \in {"actions", "respond"} /\ reader'.pc \in {"respond", "install"}
    BY <1>0, <1>3, Zenon DEF ActionsDone, SendResponse
  <2>2. agent' = agent /\ request' = request
    BY <1>3, Zenon DEF ActionsDone, SendResponse
  <2> QED
    BY <2>1, <2>2, Zenon
<1>4. CASE AfterResponse \/ SendFails \/ AfterAnswer \/ Resume \/ SendAnswer
  <2>1. reader'.pc \in {"idle", "answered"}
    BY <1>0, <1>4, Zenon DEF AfterResponse, SendFails, AfterAnswer, Resume, SendAnswer
  <2>2. agent' = agent /\ request' = request
    BY <1>4, Zenon DEF AfterResponse, SendFails, AfterAnswer, Resume, SendAnswer
  <2> QED
    BY <2>1, <2>2, Zenon
<1>5. CASE DeliverChallenge \/ TakeRequest
  <2>1. DeliverChallenge => reader'.pc = "answer"
    BY <1>0, Zenon DEF DeliverChallenge
  <2>3. TakeRequest => reader'.pc = "actions"
    BY DEF TakeRequest
  <2>2. agent' = agent /\ request' = request
    BY <1>5, Zenon DEF DeliverChallenge, TakeRequest
  <2> QED
    BY <1>5, <2>1, <2>2, <2>3, Zenon
<1> QED
  BY <1>1, <1>2, <1>3, <1>4, <1>5, NextCases, Zenon

(* Before it asks, an agent says nothing and reads only input.              *)
LEMMA BeforeAsking ==
    ASSUME TypeInv, AskInv, [Next]_vars, agent = "new"
    PROVE  \/ Quiet \/ Stops \/ NumberInput \/ Resume \/ AgentReadsInput
           \/ agent' # "new"
<1>1. /\ stream = <<>> /\ late = <<>> /\ reader.pc = "idle"
      /\ \A i \in DOMAIN sent : sent[i].kind = "input"
  BY Zenon DEF AskInv
<1>2. ~AgentReadsResponse /\ ~AgentReadsAnswer
  <2>1. \A kind : Reads(kind) => kind = "input"
    <3> SUFFICES ASSUME NEW kind, Reads(kind) PROVE kind = "input"
      OBVIOUS
    <3>1. AgentTakes(kind)
      BY SentCases, Zenon
    <3>2. 1 \in DOMAIN sent /\ sent[1].kind = kind
      BY <3>1, Zenon DEF AgentTakes, Shifted
    <3> QED
      BY <1>1, <3>2, Zenon
  <2> QED
    BY <2>1, Zenon DEF AgentReadsResponse, AgentReadsAnswer
<1>3. /\ ~Passes /\ ~DeliverOutput /\ ~TakeRequest /\ ~DeliverChallenge /\ ~LateReply
  BY <1>1, Zenon DEF Passes, DeliverOutput, TakeRequest, DeliverChallenge, LateReply, Next1
<1>4. /\ ~HandleSessionType /\ ~RefuseKmsEncryption /\ ~NegotiateKey /\ ~ActionsDone
      /\ ~SendResponse /\ ~AfterResponse /\ ~SendFails /\ ~SendAnswer /\ ~AfterAnswer
  BY <1>1, Zenon DEF HandleSessionType, RefuseKmsEncryption, NegotiateKey, ActionsDone, SendResponse,
              AfterResponse, SendFails, SendAnswer, AfterAnswer
<1>5. /\ ~AgentRepeats /\ ~AgentExits /\ \A type : ~AgentOutputs(type)
  BY Zenon DEF AgentRepeats, AgentExits, AgentOutputs
<1>6. AgentIsLegacy \/ AgentGarbles \/ (\E a \in Requests : AgentAsks(a)) => agent' # "new"
  BY Zenon DEF AgentIsLegacy, AgentGarbles, AgentAsks
<1> QED
  BY <1>2, <1>3, <1>4, <1>5, <1>6, NextCases, Zenon

(* The agent's request stays what it is while it is on its way.             *)
LEMMA AskStep == TypeInv /\ AskInv /\ [Next]_vars => AskInv'
<1> SUFFICES ASSUME TypeInv, AskInv, [Next]_vars PROVE AskInv'
  OBVIOUS
<1>0. stream \in Seq(In) /\ (reader.pc # "idle" => stream # <<>>)
  BY Zenon DEF TypeInv
<1>1. ASSUME NEW a \in Requests, AgentAsks(a) PROVE AskInv'
  <2>1. stream = <<>> /\ reader.pc = "idle"
    BY <1>1, Zenon DEF AgentAsks, AskInv
  <2>2. agent' = "asked" /\ request' = a /\ reader' = reader
    BY <1>1, Zenon DEF AgentAsks, clientVars
  <2>3. stream' = <<[kind |-> "request", actions |-> a]>>
    BY <1>1, <2>1 DEF AgentAsks, Says
  <2>4. \A i \in DOMAIN stream' : stream'[i].actions = a
    BY <2>3
  <2> QED
    BY <2>1, <2>2, <2>4, Zenon DEF AskInv
<1>2. CASE request' = request
  <2>1. Benign' = Benign
    BY <1>2, Zenon DEF Benign
  <2>2. ASSUME agent' = "new"
        PROVE  /\ stream' = <<>> /\ late' = <<>> /\ reader'.pc = "idle"
               /\ \A i \in DOMAIN sent' : sent'[i].kind = "input"
    <3>0. /\ agent = "new" /\ stream = <<>> /\ late = <<>> /\ reader.pc = "idle"
          /\ \A i \in DOMAIN sent : sent[i].kind = "input"
      BY <2>2, ControlSteps, Zenon DEF AskInv
    <3>1. CASE Quiet \/ Stops
      BY <3>0, <3>1, Zenon DEF Quiet, Stops, core
    <3>2. CASE NumberInput
      <4>1. PICK m : m.kind = "input" /\ Extended(sent, sent', {m})
        BY <3>2, SentCases, Zenon DEF NumbersInput
      <4>2. \A i \in DOMAIN sent' : sent'[i].kind = "input"
        BY <3>0, <4>1, Zenon DEF Extended
      <4> QED
        BY <3>0, <3>2, <4>2, Zenon DEF NumberInput
    <3>3. CASE Resume
      <4>1. Reply = <<>>
        BY <3>0, Zenon DEF Reply
      <4> QED
        BY <3>0, <3>3, <4>1, Zenon DEF Resume, Idle
    <3>4. CASE AgentReadsInput
      <4>1. Shifted(sent, sent')
        BY <3>4, SentCases, Zenon DEF AgentReadsInput, AgentTakes
      <4>2. \A i \in DOMAIN sent' : sent'[i].kind = "input"
        BY <3>0, <4>1 DEF Shifted
      <4> QED
        BY <3>0, <3>4, <4>2, Zenon DEF AgentReadsInput, clientVars
    <3> QED
      BY <2>2, <3>0, <3>1, <3>2, <3>3, <3>4, BeforeAsking, Zenon
  <2>3. agent' \in {"new", "legacy"} => Benign'
    BY <2>1, ControlSteps, Zenon DEF AskInv
  <2>4. \A i \in DOMAIN stream' : stream'[i].kind = "request" => stream'[i].actions = request'
    <3>0. \A i \in DOMAIN stream : stream[i].kind = "request" => stream[i].actions = request'
      BY <1>2, Zenon DEF AskInv
    <3>1. CASE stream' = stream
      BY <3>0, <3>1, Zenon
    <3>2. CASE ClientTakes
      BY <3>0, <3>2 DEF ClientTakes, Shifted
    <3>7. CASE ClientGivesUp
      BY <3>0, <3>7, Zenon DEF ClientGivesUp, Vacated
    <3>3. CASE SaysRequest
      BY <3>0, <3>3 DEF SaysRequest, Extended
    <3>4. CASE SaysChallenge
      BY <3>0, <3>4 DEF SaysChallenge, Extended
    <3>5. CASE SaysOutput
      <4>1. PICK m : m.kind = "output" /\ Extended(stream, stream', {m})
        BY <3>5, Zenon DEF SaysOutput
      <4> QED
        BY <3>0, <4>1, Zenon DEF Extended
    <3>6. CASE SaysOther
      BY <3>0, <3>6, Zenon DEF SaysOther, Extended
    <3> QED
      BY <3>1, <3>2, <3>3, <3>4, <3>5, <3>6, <3>7, StreamCases, Zenon
  <2>5. ASSUME reader'.pc \in {"actions", "respond", "install"} PROVE stream'[1].kind = "request"
    <3>1. CASE TakeRequest
      <4>1. stream' = stream /\ stream # <<>> /\ Head(stream).kind = "request"
        BY <3>1, Zenon DEF TakeRequest, Next1
      <4> QED
        BY <1>0, <4>1, TailDomain, Zenon
    <3>2. CASE reader.pc \in {"actions", "respond", "install"}
      <4>1. 1 \in DOMAIN stream /\ stream[1].kind = "request"
        BY <1>0, <3>2, TailDomain, Zenon DEF AskInv
      <4>2. ~ClientTakes /\ ~ClientGivesUp
        BY <2>5, Zenon DEF ClientTakes, ClientGivesUp
      <4>3. \A S : Extended(stream, stream', S) => stream'[1] = stream[1]
        BY <4>1, Zenon DEF Extended
      <4> QED
        BY <4>1, <4>2, <4>3, StreamCases, Zenon DEF SaysRequest, SaysChallenge, SaysOutput, SaysOther
    <3> QED
      BY <2>5, <3>1, <3>2, ControlSteps, Zenon
  <2> QED
    BY <2>2, <2>3, <2>4, <2>5, Zenon DEF AskInv
<1> QED
  BY <1>1, <1>2, ControlSteps, Zenon

(* on_request fails only what the request asks for.                         *)
LEMMA RefuseStep == TypeInv /\ AskInv /\ RefuseInv /\ [Next]_vars => RefuseInv'
<1> SUFFICES ASSUME TypeInv, AskInv, RefuseInv, [Next]_vars PROVE RefuseInv'
  OBVIOUS
<1> USE DEF clientVars, coreVars, agentVars, histVars, core, NoKey
<1>0. /\ handler \in [state : {"AwaitingRequest", "AwaitingComplete", "Completed", "Failed"}, crypto : Nat]
      /\ reader \in [pc : {"idle", "actions", "respond", "install", "answer", "answered"},
                     todo : Seq(ActionTypes), failed : BOOLEAN]
      /\ stream \in Seq(In) /\ nextKey \in Nat
      /\ Idle.pc = "idle" /\ Fresh.state # "Failed"
      /\ \A p : [reader EXCEPT !.pc = p].pc = p
  BY Zenon DEF TypeInv, Idle, Fresh
<1>1. ASSUME NEW a \in Requests, AgentAsks(a) PROVE RefuseInv'
  <2>1. Benign /\ reader.pc = "idle"
    BY <1>1, Zenon DEF AgentAsks, AskInv
  <2>2. UNCHANGED <<nextKey, handler, reason, reader>>
    BY <1>1, Zenon DEF AgentAsks
  <2> QED
    BY <2>1, <2>2, Zenon DEF RefuseInv
<1>2. CASE request' = request
  <2>b. Benign' = Benign
    BY <1>2, Zenon DEF Benign
  <2>1. CASE UNCHANGED <<nextKey, handler, reason, reader>>
    BY <2>b, <2>1, Zenon DEF RefuseInv
  <2>2. CASE Passes
    <3>1. UNCHANGED <<nextKey, reader>> /\ (reason' = reason \/ reason' = "agent")
      BY <2>2, Zenon DEF Passes
    <3>2. handler'.crypto = handler.crypto /\ (handler'.state = "Failed" => handler.state = "Failed")
      BY <1>0, <2>2, Zenon DEF Passes
    <3> QED
      BY <2>b, <3>1, <3>2, Zenon DEF RefuseInv
  <2>3. CASE Stops
    BY <2>b, <2>3, Zenon DEF Stops, RefuseInv
  <2>4. CASE TakeRequest
    <3>1. /\ UNCHANGED <<nextKey, handler, reason>>
          /\ reader'.pc = "actions" /\ reader'.failed = FALSE /\ reader'.todo = Head(stream).actions
      BY <2>4, Zenon DEF TakeRequest
    <3>2. Head(stream).actions = request
      BY <1>0, <2>4, TailDomain DEF TakeRequest, Next1, AskInv
    <3> QED
      BY <2>b, <3>1, <3>2, Zenon DEF RefuseInv, Benign
  <2>5. ASSUME reader.pc = "actions", reader.todo # <<>>
        PROVE  /\ Head(reader.todo) = reader.todo[1] /\ 1 \in DOMAIN reader.todo
               /\ \A i \in DOMAIN Tail(reader.todo) :
                    i + 1 \in DOMAIN reader.todo /\ Tail(reader.todo)[i] = reader.todo[i + 1]
               /\ \A i \in DOMAIN reader.todo : i # 1 =>
                    i - 1 \in DOMAIN Tail(reader.todo) /\ Tail(reader.todo)[i - 1] = reader.todo[i]
    BY <1>0, <2>5, TailDomain
  <2>6. ASSUME NEW b \in BOOLEAN, ActionDone(b)
        PROVE  reader'.pc = reader.pc /\ reader'.todo = Tail(reader.todo) /\ reader'.failed = (reader.failed \/ b)
    BY <1>0, <2>6, Zenon DEF ActionDone
  <2>7. CASE HandleSessionType
    <3> DEFINE b == Head(reader.todo) = "BadSessionType"
    <3>1. /\ UNCHANGED <<nextKey, handler, reason>> /\ reader.pc = "actions" /\ reader.todo # <<>>
          /\ Head(reader.todo) \in {"SessionType", "BadSessionType"} /\ ActionDone(b) /\ b \in BOOLEAN
      BY <2>7, Zenon DEF HandleSessionType
    <3>2. reader'.pc = "actions" /\ reader'.todo = Tail(reader.todo) /\ reader'.failed = (reader.failed \/ b)
      BY <2>6, <3>1, Zenon
    <3>3. Benign => ~reader'.failed /\ \A i \in DOMAIN reader'.todo : reader'.todo[i] = "SessionType"
      BY <2>5, <3>1, <3>2, Zenon DEF RefuseInv
    <3>4. \/ reader'.failed \/ handler.crypto # NoKey \/ Benign
          \/ \E i \in DOMAIN reader'.todo : reader'.todo[i] # "SessionType"
      <4>1. CASE reader.failed \/ handler.crypto # NoKey \/ Benign
        BY <3>2, <4>1, Zenon
      <4>2. CASE \E i \in DOMAIN reader.todo : reader.todo[i] # "SessionType"
        <5>1. PICK i \in DOMAIN reader.todo : reader.todo[i] # "SessionType"
          BY <4>2, Zenon
        <5>2. CASE i = 1
          BY <2>5, <3>1, <3>2, <5>1, <5>2, Zenon
        <5>3. CASE i # 1
          <6>1. i - 1 \in DOMAIN Tail(reader.todo) /\ Tail(reader.todo)[i - 1] # "SessionType"
            BY <2>5, <3>1, <5>1, <5>3, Zenon
          <6> QED
            BY <3>2, <6>1, Zenon
        <5> QED
          BY <5>2, <5>3, Zenon
      <4> QED
        BY <3>1, <4>1, <4>2, Zenon DEF RefuseInv
    <3> QED
      BY <2>b, <3>1, <3>2, <3>3, <3>4, Zenon DEF RefuseInv
  <2>8. CASE RefuseKmsEncryption
    <3>1. /\ UNCHANGED <<nextKey, handler, reason>> /\ reader.pc = "actions" /\ reader.todo # <<>>
          /\ Head(reader.todo) # "SessionType" /\ ActionDone(TRUE)
      BY <2>8, Zenon DEF RefuseKmsEncryption
    <3>2. reader'.failed
      BY <2>6, <3>1, Zenon
    <3>3. ~Benign
      BY <2>5, <3>1, Zenon DEF RefuseInv
    <3> QED
      BY <2>b, <3>2, <3>3, Zenon DEF RefuseInv
  <2>9. CASE NegotiateKey
    <3>1. /\ reader.pc = "actions" /\ reader.todo # <<>> /\ Head(reader.todo) # "SessionType"
      BY <2>9, Zenon DEF NegotiateKey
    <3>2. handler'.crypto # NoKey
      BY <1>0, <2>9 DEF NegotiateKey
    <3>3. ~Benign
      BY <2>5, <3>1, Zenon DEF RefuseInv
    <3> QED
      BY <2>b, <3>2, <3>3, Zenon DEF RefuseInv
  <2>10. CASE ActionsDone
    <3>1. /\ UNCHANGED <<nextKey, reason>> /\ reader.pc = "actions" /\ reader'.pc = "respond"
          /\ reader'.failed = reader.failed /\ reader'.todo = reader.todo
      BY <1>0, <2>10, Zenon DEF ActionsDone
    <3>2. handler'.crypto = handler.crypto /\ (~reader.failed => handler'.state # "Failed")
      BY <1>0, <2>10, Zenon DEF ActionsDone, AnyFailed
    <3> QED
      BY <2>b, <3>1, <3>2, Zenon DEF RefuseInv
  <2>11. CASE SendResponse \/ SendFails \/ DeliverChallenge \/ SendAnswer \/ AfterAnswer
    <3>1. UNCHANGED <<nextKey, handler, reason>>
      BY <2>11, Zenon DEF SendResponse, SendFails, DeliverChallenge, SendAnswer, AfterAnswer
    <3>2. reader'.pc \notin {"actions", "respond"}
      BY <1>0, <2>11, Zenon DEF SendResponse, SendFails, DeliverChallenge, SendAnswer, AfterAnswer
    <3> QED
      BY <2>b, <3>1, <3>2, Zenon DEF RefuseInv
  <2>12. CASE AfterResponse
    <3>1. UNCHANGED <<nextKey, handler>> /\ reader'.pc = "idle"
      BY <1>0, <2>12, Zenon DEF AfterResponse
    <3>2. reason' = reason \/ handler.state = "Failed"
      BY <2>12, Zenon DEF AfterResponse
    <3> QED
      BY <2>b, <3>1, <3>2, Zenon DEF RefuseInv
  <2>13. CASE Resume
    <3>1. UNCHANGED <<nextKey, reason>> /\ reader'.pc = "idle" /\ handler'.state # "Failed"
      BY <1>0, <2>13, Zenon DEF Resume, NewHandler
    <3> QED
      BY <2>b, <3>1, Zenon DEF RefuseInv
  <2> QED
    BY <2>1, <2>2, <2>3, <2>4, <2>7, <2>8, <2>9, <2>10, <2>11, <2>12, <2>13, <1>1, NextCases, Zenon
    DEF Quiet, DeliverOutput, NumberInput, LateReply, AgentRepeats, AgentIsLegacy, AgentReadsResponse,
        AgentReadsAnswer, AgentReadsInput, AgentExits, AgentGarbles, AgentOutputs
<1> QED
  BY <1>1, <1>2, ControlSteps, Zenon

(* A response that promises success without a key answers a request that    *)
(* asked for none.                                                          *)
LEMMA BareStep == TypeInv /\ AskInv /\ RefuseInv /\ BareInv /\ [Next]_vars => BareInv'
<1> SUFFICES ASSUME TypeInv, AskInv, RefuseInv, BareInv, [Next]_vars PROVE BareInv'
  OBVIOUS
<1> USE DEF clientVars, coreVars, agentVars, histVars, core
<1>1. ASSUME NEW a \in Requests, AgentAsks(a) PROVE BareInv'
  <2>1. late = <<>> /\ \A i \in DOMAIN sent : sent[i].kind = "input"
    BY <1>1, Zenon DEF AgentAsks, AskInv
  <2>2. UNCHANGED <<sent, late>>
    BY <1>1, Zenon DEF AgentAsks
  <2> QED
    BY <2>1, <2>2 DEF BareInv, Bare
<1>2. CASE request' = request
  <2>b. Benign' = Benign
    BY <1>2, Zenon DEF Benign
  <2>r. ASSUME reader.pc \in {"actions", "respond"}, reader.todo = <<>>, Bare(Response) PROVE Benign
    BY <2>r DEF Bare, Response, RefuseInv
  <2>1. ASSUME NEW i \in DOMAIN sent', Bare(sent'[i]) PROVE Benign
    <3>1. CASE sent' = sent
      BY <2>1, <3>1, Zenon DEF BareInv
    <3>2. CASE SendResponse
      <4>1. Extended(sent, sent', {Response}) /\ reader.todo = <<>> /\ reader.pc = "respond"
        BY <3>2, SentCases, Zenon DEF NumbersResponse, SendResponse
      <4>2. sent'[i] = Response \/ (i \in DOMAIN sent /\ sent'[i] = sent[i])
        BY <4>1, Zenon DEF Extended
      <4> QED
        BY <2>1, <2>r, <4>1, <4>2, Zenon DEF BareInv
    <3>3. CASE SendAnswer \/ NumberInput
      <4>1. PICK m : m.kind # "response" /\ Extended(sent, sent', {m})
        BY <3>3, SentCases, Zenon DEF NumbersAnswer, NumbersInput
      <4>2. sent'[i] = m \/ (i \in DOMAIN sent /\ sent'[i] = sent[i])
        BY <4>1, Zenon DEF Extended
      <4> QED
        BY <2>1, <4>1, <4>2, Zenon DEF BareInv, Bare
    <3>4. CASE LateReply
      <4>1. Extended(sent, sent', {late[k] : k \in DOMAIN late})
        BY <3>4, SentCases, Zenon DEF NumbersLate
      <4>2. (\E k \in DOMAIN late : sent'[i] = late[k]) \/ (i \in DOMAIN sent /\ sent'[i] = sent[i])
        BY <4>1, Zenon DEF Extended
      <4> QED
        BY <2>1, <4>2, Zenon DEF BareInv
    <3>5. CASE AgentReadsResponse \/ AgentReadsAnswer \/ AgentReadsInput
      <4>1. Shifted(sent, sent')
        BY <3>5, SentCases, Zenon DEF AgentReadsResponse, AgentReadsAnswer, AgentReadsInput, AgentTakes
      <4>2. i + 1 \in DOMAIN sent /\ sent'[i] = sent[i + 1]
        BY <4>1, Zenon DEF Shifted
      <4> QED
        BY <2>1, <4>2, Zenon DEF BareInv
    <3> QED
      BY <3>1, <3>2, <3>3, <3>4, <3>5, SentStays, Zenon
  <2>2. ASSUME NEW i \in DOMAIN late', Bare(late'[i]) PROVE Benign
    <3>1. CASE late' = late
      BY <2>2, <3>1, Zenon DEF BareInv
    <3>2. late' # <<>>
      BY <2>2
    <3>3. CASE Resume
      <4>1. late' = Reply /\ Reply # <<>>
        BY <3>2, <3>3, Zenon DEF Resume
      <4>2. CASE /\ reader.pc \in {"actions", "respond"} /\ reader.todo = <<>> /\ Reply = <<Response>>
        BY <2>2, <2>r, <4>1, <4>2
      <4>3. CASE Reply = <<[kind |-> "answer", seal |-> Encrypt(handler.crypto)]>>
        BY <2>2, <4>1, <4>3 DEF Bare
      <4> QED
        BY <4>1, <4>2, <4>3, ReplyCases, Zenon DEF Response
    <3> QED
      BY <3>1, <3>2, <3>3, LateCases, Zenon
  <2> QED
    BY <2>b, <2>1, <2>2, Zenon DEF BareInv, Bare
<1> QED
  BY <1>1, <1>2, ControlSteps, Zenon

(* The first three layers together.                                         *)
LEMMA RequestInvHolds == Spec => []RequestInv
<1>1. Init => RequestInv
  <2> SUFFICES ASSUME Init PROVE RequestInv
    OBVIOUS
  <2>1. Benign /\ stream = <<>> /\ late = <<>> /\ sent = <<>> /\ reader.pc = "idle"
    BY DEF Init, Benign, Idle
  <2> QED
    BY <2>1 DEF Init, RequestInv, AskInv, RefuseInv, BareInv, Fresh, NoKey
<1>2. TypeInv /\ RequestInv /\ [Next]_vars => RequestInv'
  BY AskStep, RefuseStep, BareStep, Zenon DEF RequestInv
<1> QED
  BY <1>1, <1>2, TypeInvHolds, PTL DEF Spec

-----------------------------------------------------------------------------
(* The data keys                                                            *)

(* KMS gives a new key to a handler only; set_crypto keeps the first cipher *)
(* and takes a handler's; the agent takes the key of the first response it  *)
(* reads.                                                                   *)
LEMMA KeySteps ==
    ASSUME TypeInv, [Next]_vars
    PROVE  /\ \/ nextKey' = nextKey /\ (handler'.crypto = handler.crypto \/ handler'.crypto = NoKey)
              \/ nextKey' = nextKey + 1 /\ handler'.crypto = nextKey' /\ reader'.pc = "actions"
           /\ \/ crypto' = crypto
              \/ AfterResponse /\ crypto = NoKey /\ crypto' = handler.crypto
           /\ \/ agentKey' = agentKey /\ (agent' = "challenged" => agent = "challenged")
              \/ /\ AgentReadsResponse /\ agent = "asked" /\ agent' = "challenged"
                 /\ agentKey' = sent[1].key /\ agentKey' # NoKey
           /\ agent' = agent \/ agent = "new" \/ agent' \in {"challenged", "complete", "ended"}
           /\ agent' = "asked" => agent = "asked" \/ \E a \in Requests : AgentAsks(a)
<1> USE DEF clientVars, coreVars, agentVars, histVars, core
<1>0. /\ handler \in [state : {"AwaitingRequest", "AwaitingComplete", "Completed", "Failed"}, crypto : Nat]
      /\ reader \in [pc : {"idle", "actions", "respond", "install", "answer", "answered"},
                     todo : Seq(ActionTypes), failed : BOOLEAN]
  BY Zenon DEF TypeInv
<1>1. /\ \/ nextKey' = nextKey /\ (handler'.crypto = handler.crypto \/ handler'.crypto = NoKey)
         \/ nextKey' = nextKey + 1 /\ handler'.crypto = nextKey' /\ reader'.pc = "actions"
  <2>1. CASE UNCHANGED <<nextKey, handler>>
    BY <2>1, Zenon
  <2>2. CASE Passes
    BY <1>0, <2>2, Zenon DEF Passes
  <2>3. CASE NegotiateKey
    <3>1. nextKey' = nextKey + 1 /\ handler' = [handler EXCEPT !.crypto = nextKey']
      BY <2>3, Zenon DEF NegotiateKey
    <3>2. reader'.pc = "actions"
      BY <1>0, <2>3, Zenon DEF NegotiateKey, ActionDone
    <3> QED
      BY <1>0, <3>1, <3>2, Zenon
  <2>4. CASE ActionsDone
    BY <1>0, <2>4, Zenon DEF ActionsDone
  <2>5. CASE Resume
    BY <2>5, Zenon DEF Resume, NewHandler, Fresh
  <2> QED
    BY <2>1, <2>2, <2>3, <2>4, <2>5, NextCases, Zenon
    DEF Quiet, Stops, DeliverOutput, TakeRequest, HandleSessionType, RefuseKmsEncryption,
        SendResponse, AfterResponse, SendFails, DeliverChallenge,
        SendAnswer, AfterAnswer, NumberInput, LateReply, AgentAsks, AgentRepeats, AgentIsLegacy,
        AgentReadsResponse, AgentReadsAnswer, AgentReadsInput, AgentExits, AgentGarbles, AgentOutputs
<1>2. \/ crypto' = crypto
      \/ AfterResponse /\ crypto = NoKey /\ crypto' = handler.crypto
  <2>1. CASE AfterResponse
    BY <2>1, Zenon DEF AfterResponse, Cipher
  <2>2. CASE Resume
    BY <2>2, Zenon DEF Resume, InheritedCipher
  <2> QED
    BY <2>1, <2>2, NextCases, Zenon
    DEF Quiet, Passes, Stops, DeliverOutput, TakeRequest, HandleSessionType, RefuseKmsEncryption,
        NegotiateKey, ActionsDone, SendResponse, SendFails, DeliverChallenge,
        SendAnswer, AfterAnswer, NumberInput, LateReply, AgentAsks, AgentRepeats, AgentIsLegacy,
        AgentReadsResponse, AgentReadsAnswer, AgentReadsInput, AgentExits, AgentGarbles, AgentOutputs
<1>3. /\ \/ agentKey' = agentKey /\ (agent' = "challenged" => agent = "challenged")
         \/ /\ AgentReadsResponse /\ agent = "asked" /\ agent' = "challenged"
            /\ agentKey' = sent[1].key /\ agentKey' # NoKey
      /\ agent' = agent \/ agent = "new" \/ agent' \in {"challenged", "complete", "ended"}
      /\ agent' = "asked" => agent = "asked" \/ \E a \in Requests : AgentAsks(a)
  <2>1. CASE UNCHANGED <<agent, agentKey>>
    BY <2>1, Zenon
  <2>2. CASE \E a \in Requests : AgentAsks(a)
    <3>1. agent = "new" /\ agent' = "asked" /\ agentKey' = agentKey
      BY <2>2, Zenon DEF AgentAsks
    <3> QED
      BY <2>2, <3>1, Zenon
  <2>3. CASE AgentIsLegacy
    BY <2>3, Zenon DEF AgentIsLegacy
  <2>4. CASE AgentReadsResponse
    <3>1. sent[1] = Head(sent)
      BY <2>4, SentCases, Zenon DEF AgentReadsResponse, AgentTakes
    <3>2. \/ agent' \in {"ended", "complete"} /\ agentKey' = agentKey
          \/ agent = "asked" /\ agent' = "challenged" /\ agentKey' = sent[1].key /\ agentKey' # NoKey
          \/ UNCHANGED <<agent, agentKey>>
      BY <2>4, <3>1, Zenon DEF AgentReadsResponse
    <3> QED
      BY <2>4, <3>2, Zenon
  <2>5. CASE AgentReadsAnswer
    BY <2>5, Zenon DEF AgentReadsAnswer
  <2>6. CASE AgentExits \/ AgentGarbles
    BY <2>6, Zenon DEF AgentExits, AgentGarbles
  <2>7. CASE AgentRepeats
    BY <2>7, Zenon DEF AgentRepeats
  <2> QED
    BY <2>1, <2>2, <2>3, <2>4, <2>5, <2>6, <2>7, NextCases, Zenon
    DEF Quiet, Passes, Stops, DeliverOutput, TakeRequest, HandleSessionType, RefuseKmsEncryption,
        NegotiateKey, ActionsDone, SendResponse, AfterResponse, SendFails, DeliverChallenge,
        SendAnswer, AfterAnswer, NumberInput, Resume, LateReply, AgentReadsInput, AgentOutputs
<1> QED
  BY <1>1, <1>2, <1>3, Zenon

(* No key is newer than the last that KMS gave.                             *)
LEMMA BoundStep == TypeInv /\ RequestInv /\ KeyBound /\ [Next]_vars => KeyBound'
<1> SUFFICES ASSUME TypeInv, RequestInv, KeyBound, [Next]_vars PROVE KeyBound'
  OBVIOUS
<1>0. /\ nextKey \in Nat /\ crypto \in Nat /\ agentKey \in Nat /\ handler.crypto \in Nat
      /\ nextKey' \in Nat /\ nextKey' >= nextKey /\ NoKey \in Nat
      /\ sent \in Seq(Out) /\ late \in Seq(Out)
      /\ \A i \in DOMAIN sent : IsResponse(i) => sent[i].key \in Nat
      /\ \A i \in DOMAIN late : late[i].kind = "response" => late[i].key \in Nat
  <2>1. /\ nextKey \in Nat /\ crypto \in Nat /\ agentKey \in Nat /\ handler.crypto \in Nat
        /\ sent \in Seq(Out) /\ late \in Seq(Out)
    BY Zenon DEF TypeInv
  <2>2. nextKey' \in Nat /\ nextKey' >= nextKey /\ NoKey \in Nat
    BY <2>1, KeySteps DEF NoKey
  <2> QED
    BY <2>1, <2>2, MessageKinds DEF IsResponse
<1>r. handler.crypto <= nextKey /\ Response.kind = "response" /\ Response.key = handler.crypto
  BY <1>0 DEF KeyBound, NoKey, Response
<1>1. handler'.crypto \in {NoKey, nextKey'}
  BY KeySteps, Zenon DEF KeyBound
<1>2. crypto' <= nextKey'
  BY <1>0, <1>r, KeySteps DEF KeyBound
<1>3. /\ agentKey' <= nextKey'
      /\ agentKey' # NoKey => agent' \in {"challenged", "complete", "ended"}
      /\ agent' = "challenged" => agentKey' # NoKey
  <2>1. CASE agentKey' = agentKey /\ (agent' = "challenged" => agent = "challenged")
    BY <1>0, <2>1, KeySteps DEF KeyBound
  <2>2. CASE /\ AgentReadsResponse /\ agent = "asked" /\ agent' = "challenged"
             /\ agentKey' = sent[1].key /\ agentKey' # NoKey
    <3>1. 1 \in DOMAIN sent /\ sent[1].kind = "response"
      BY <2>2, SentCases, Zenon DEF AgentReadsResponse, AgentTakes, Shifted
    <3> QED
      BY <1>0, <2>2, <3>1 DEF KeyBound, IsResponse
  <2> QED
    BY <2>1, <2>2, KeySteps, Zenon
<1>4. \A i \in DOMAIN sent' : sent'[i].kind = "response" => sent'[i].key <= nextKey'
  <2>0. \A i \in DOMAIN sent : sent[i].kind = "response" => sent[i].key <= nextKey'
    BY <1>0 DEF KeyBound, IsResponse
  <2>1. CASE sent' = sent
    BY <2>0, <2>1, Zenon
  <2>2. CASE SendResponse
    <3>1. Extended(sent, sent', {Response})
      BY <2>2, SentCases, Zenon DEF NumbersResponse
    <3>2. Response.key <= nextKey'
      BY <1>0, <1>r
    <3> QED
      BY <2>0, <3>1, <3>2, Zenon DEF Extended
  <2>3. CASE SendAnswer \/ NumberInput
    <3>1. PICK m : m.kind # "response" /\ Extended(sent, sent', {m})
      BY <2>3, SentCases, Zenon DEF NumbersAnswer, NumbersInput
    <3> QED
      BY <2>0, <3>1, Zenon DEF Extended
  <2>4. CASE LateReply
    <3>1. Extended(sent, sent', {late[k] : k \in DOMAIN late})
      BY <2>4, SentCases, Zenon DEF NumbersLate
    <3>2. \A k \in DOMAIN late : late[k].kind = "response" => late[k].key <= nextKey'
      BY <1>0 DEF KeyBound
    <3> QED
      BY <2>0, <3>1, <3>2, Zenon DEF Extended
  <2>5. CASE AgentReadsResponse \/ AgentReadsAnswer \/ AgentReadsInput
    <3>1. Shifted(sent, sent')
      BY <2>5, SentCases, Zenon DEF AgentReadsResponse, AgentReadsAnswer, AgentReadsInput, AgentTakes
    <3> QED
      BY <2>0, <3>1 DEF Shifted
  <2> QED
    BY <2>1, <2>2, <2>3, <2>4, <2>5, SentStays, Zenon
<1>5. \A i \in DOMAIN late' : late'[i].kind = "response" => late'[i].key <= nextKey'
  <2>1. late' = late \/ late' = <<>> \/ (Resume /\ late' = Reply)
    BY LateCases, Zenon
  <2>2. CASE late' = late
    BY <1>0, <2>2 DEF KeyBound
  <2>3. CASE late' = <<>>
    BY <2>3
  <2>4. CASE Resume /\ late' = Reply
    <3>1. Reply = <<>> \/ Reply = <<Response>> \/ \E m : m.kind = "answer" /\ Reply = <<m>>
      BY ReplyCases, Zenon DEF Response
    <3>2. Response.key <= nextKey'
      BY <1>0, <1>r
    <3> QED
      BY <2>4, <3>1, <3>2
  <2> QED
    BY <2>1, <2>2, <2>3, <2>4, Zenon
<1> QED
  BY <1>1, <1>2, <1>3, <1>4, <1>5, Zenon DEF KeyBound, IsResponse

(* The reader answers a request to the end, or its channel is closed.       *)
LEMMA ReaderSteps ==
    ASSUME TypeInv, [Next]_vars
    PROVE  /\ reader'.pc = "install" => SendResponse \/ reader.pc = "install"
           /\ reader.pc \in {"actions", "respond", "install"} =>
                \/ reader'.pc \in {"actions", "respond", "install"} \/ AfterResponse
                \/ SendFails \/ Resume
           /\ status' = "open" => status = "open" \/ Resume
<1> USE DEF clientVars, coreVars, agentVars, histVars, core
<1>0. /\ \A p : [reader EXCEPT !.pc = p].pc = p
      /\ \A b \in BOOLEAN : ActionDone(b) => reader'.pc = reader.pc
      /\ Idle.pc = "idle"
  BY Zenon DEF TypeInv, ActionDone, Idle
<1>1. CASE reader' = reader /\ (status' = status \/ status' # "open")
  BY <1>1, Zenon
<1>2. CASE HandleSessionType \/ RefuseKmsEncryption \/ NegotiateKey
  <2>1. reader'.pc = reader.pc
    BY <1>0, <1>2, Zenon DEF HandleSessionType, RefuseKmsEncryption, NegotiateKey
  <2>2. status' = status
    BY <1>2, Zenon DEF HandleSessionType, RefuseKmsEncryption, NegotiateKey
  <2> QED
    BY <2>1, <2>2, Zenon
<1>3. CASE ActionsDone \/ TakeRequest
  <2>3. TakeRequest => reader'.pc = "actions"
    BY DEF TakeRequest
  <2>1. reader'.pc \in {"actions", "respond"}
    BY <1>0, <1>3, <2>3, Zenon DEF ActionsDone
  <2>2. status' = status
    BY <1>3, Zenon DEF ActionsDone, TakeRequest
  <2> QED
    BY <2>1, <2>2, Zenon
<1>4. CASE SendResponse
  <2>1. reader'.pc = "install"
    BY <1>0, <1>4, Zenon DEF SendResponse
  <2>2. status' = status
    BY <1>4, Zenon DEF SendResponse
  <2> QED
    BY <1>4, <2>1, <2>2, Zenon
<1>5. CASE AfterResponse \/ SendFails \/ Resume
  <2>1. reader'.pc = "idle"
    BY <1>0, <1>5, Zenon DEF AfterResponse, SendFails, Resume
  <2>2. status' = "open" => status = "open" \/ Resume
    BY <1>5, Zenon DEF AfterResponse, EndsWith, SendFails
  <2> QED
    BY <1>5, <2>1, <2>2, Zenon
<1>6. CASE DeliverChallenge \/ SendAnswer \/ AfterAnswer
  <2>1. /\ reader.pc \notin {"actions", "respond", "install"}
        /\ reader'.pc \in {"idle", "answer", "answered"}
    BY <1>0, <1>6, Zenon DEF DeliverChallenge, SendAnswer, AfterAnswer, Next1
  <2>2. status' = status
    BY <1>6, Zenon DEF DeliverChallenge, SendAnswer, AfterAnswer
  <2> QED
    BY <2>1, <2>2, Zenon
<1>7. CASE Passes \/ Stops
  BY <1>7, Zenon DEF Passes, Stops
<1> QED
  BY <1>1, <1>2, <1>3, <1>4, <1>5, <1>6, <1>7, NextCases, Zenon
  DEF Quiet, DeliverOutput, NumberInput, LateReply, AgentAsks, AgentRepeats, AgentIsLegacy,
      AgentReadsResponse, AgentReadsAnswer, AgentReadsInput, AgentExits, AgentGarbles, AgentOutputs

(* The agent that waits for a response leaves the first one unread.         *)
LEMMA AskedSent ==
    ASSUME TypeInv, [Next]_vars, agent = "asked", agent' = "asked"
    PROVE  \/ \E S : Extended(sent, sent', S)
           \/ Shifted(sent, sent') /\ sent[1].kind # "response"
<1>1. CASE sent' = sent
  <2>1. Extended(sent, sent', {})
    BY <1>1, Zenon DEF Extended
  <2> QED
    BY <2>1, Zenon
<1>2. ~AgentReadsResponse /\ ~AgentReadsAnswer
  BY Zenon DEF AgentReadsResponse, AgentReadsAnswer
<1>3. CASE AgentReadsInput
  <2>1. Shifted(sent, sent') /\ sent[1].kind = "input"
    BY <1>3, SentCases, Zenon DEF AgentReadsInput, AgentTakes
  <2> QED
    BY <2>1, Zenon
<1> QED
  BY <1>1, <1>2, <1>3, SentStays, SentCases, Zenon
  DEF NumbersResponse, NumbersAnswer, NumbersInput, NumbersLate

(* The agent meets a key that is not newer than the cipher first.           *)
LEMMA OrderStep == TypeInv /\ RequestInv /\ KeyBound /\ KeyOrder /\ [Next]_vars => KeyOrder'
<1> SUFFICES ASSUME TypeInv, RequestInv, KeyBound, KeyOrder, [Next]_vars PROVE KeyOrder'
  OBVIOUS
<1>0. /\ nextKey \in Nat /\ crypto \in Nat /\ agentKey \in Nat /\ handler.crypto \in Nat
      /\ \A i \in DOMAIN sent : i \in Nat /\ i >= 1
      /\ \A i \in DOMAIN sent : IsResponse(i) => sent[i].key \in Nat
      /\ sent \in Seq(Out)
  <2>1. /\ nextKey \in Nat /\ crypto \in Nat /\ agentKey \in Nat /\ handler.crypto \in Nat
        /\ sent \in Seq(Out)
    BY Zenon DEF TypeInv
  <2>2. \A i \in DOMAIN sent : i \in Nat /\ i >= 1 /\ sent[i] \in Out
    BY <2>1
  <2> QED
    BY <2>1, <2>2, MessageKinds, Zenon DEF IsResponse
<1>a. \A a \in Requests : AgentAsks(a) => crypto' = NoKey /\ reader'.pc = "idle"
  <2> SUFFICES ASSUME NEW a \in Requests, AgentAsks(a) PROVE crypto' = NoKey /\ reader'.pc = "idle"
    OBVIOUS
  <2>1. Benign /\ reader.pc = "idle"
    BY Zenon DEF AgentAsks, RequestInv, AskInv
  <2>2. nextKey = 0 /\ crypto <= nextKey
    BY <2>1, Zenon DEF RequestInv, RefuseInv, KeyBound
  <2>3. crypto' = crypto /\ reader' = reader
    BY Zenon DEF AgentAsks, clientVars
  <2> QED
    BY <1>0, <2>1, <2>2, <2>3 DEF NoKey
<1>i. ASSUME AfterResponse, crypto = NoKey, crypto' = handler.crypto, crypto' # NoKey
      PROVE  crypto' = nextKey
  BY <1>i, Zenon DEF KeyBound
<1>1. crypto' # NoKey => agentKey' <= crypto'
  <2> SUFFICES ASSUME crypto' # NoKey PROVE agentKey' <= crypto'
    OBVIOUS
  <2>1. CASE agentKey' = agentKey
    <3>1. agentKey <= nextKey /\ (crypto # NoKey => agentKey <= crypto)
      BY Zenon DEF KeyBound, KeyOrder
    <3>2. crypto' = crypto \/ crypto' = nextKey
      BY <1>i, KeySteps, Zenon
    <3> QED
      BY <2>1, <3>1, <3>2, Zenon
  <2>2. CASE AgentReadsResponse /\ agent = "asked" /\ agentKey' = sent[1].key
    <3>1. crypto' = crypto
      BY <2>2, Zenon DEF AgentReadsResponse, clientVars
    <3>2. InstalledFirst
      BY <2>2, <3>1, Zenon DEF KeyOrder
    <3>3. 1 \in DOMAIN sent /\ IsResponse(1)
      BY <2>2, SentCases, Zenon DEF AgentReadsResponse, AgentTakes, Shifted, IsResponse
    <3>4. ~(sent[1].key > crypto)
      BY <1>0, <3>2, <3>3 DEF InstalledFirst
    <3> QED
      BY <1>0, <2>2, <3>1, <3>3, <3>4
  <2> QED
    BY <2>1, <2>2, KeySteps, Zenon
<1>2. ASSUME reader'.pc = "install", agent' = "asked"
      PROVE  \E i \in DOMAIN sent' : sent'[i].kind = "response"
  <2>1. CASE SendResponse
    BY <2>1, SentCases, Zenon DEF NumbersResponse
  <2>2. CASE reader.pc = "install"
    <3>1. agent = "asked"
      BY <1>2, <1>a, KeySteps, Zenon
    <3>2. PICK i \in DOMAIN sent : sent[i].kind = "response"
      BY <2>2, <3>1, Zenon DEF KeyOrder, IsResponse
    <3>3. CASE \E S : Extended(sent, sent', S)
      BY <3>2, <3>3, Zenon DEF Extended
    <3>4. CASE Shifted(sent, sent') /\ sent[1].kind # "response"
      <4>1. i - 1 \in DOMAIN sent' /\ sent'[i - 1] = sent[i]
        BY <3>2, <3>4, Zenon DEF Shifted
      <4> QED
        BY <3>2, <4>1, Zenon
    <3> QED
      BY <1>2, <3>1, <3>3, <3>4, AskedSent, Zenon
  <2> QED
    BY <1>2, <2>1, <2>2, ReaderSteps, Zenon
<1>3. ASSUME crypto' # NoKey, agent' = "asked" PROVE InstalledFirst'
  <2>0. agent = "asked"
    BY <1>3, <1>a, KeySteps, Zenon
  <2>1. CASE crypto' = crypto
    <3>0. InstalledFirst
      BY <1>3, <2>0, <2>1, Zenon DEF KeyOrder
    <3>1. PICK f \in DOMAIN sent : sent[f].kind = "response" /\ sent[f].key <= crypto
      BY <3>0, Zenon DEF InstalledFirst, IsResponse
    <3>2. \A j \in DOMAIN sent : sent[j].kind = "response" /\ sent[j].key > crypto =>
            \E i \in DOMAIN sent : i < j /\ sent[i].kind = "response" /\ sent[i].key <= crypto
      BY <3>0, Zenon DEF InstalledFirst, IsResponse
    <3>3. ASSUME NEW S, Extended(sent, sent', S) PROVE InstalledFirst'
      <4>1. \A i \in DOMAIN sent : i \in DOMAIN sent' /\ sent'[i] = sent[i]
        BY <3>3, Zenon DEF Extended
      <4>2. \A j \in DOMAIN sent' : (j \in DOMAIN sent /\ sent'[j] = sent[j]) \/ f < j
        BY <3>1, <3>3, Zenon DEF Extended
      <4>3. \E i \in DOMAIN sent' : sent'[i].kind = "response" /\ sent'[i].key <= crypto
        BY <3>1, <4>1, Zenon
      <4>4. \A j \in DOMAIN sent' : sent'[j].kind = "response" /\ sent'[j].key > crypto =>
              \E i \in DOMAIN sent' : i < j /\ sent'[i].kind = "response" /\ sent'[i].key <= crypto
        BY <3>1, <3>2, <4>1, <4>2
      <4> QED
        BY <2>1, <4>3, <4>4, Zenon DEF InstalledFirst, IsResponse
    <3>4. ASSUME Shifted(sent, sent'), sent[1].kind # "response" PROVE InstalledFirst'
      <4>1. \A i \in DOMAIN sent : sent[i].kind = "response" =>
              i - 1 \in DOMAIN sent' /\ sent'[i - 1] = sent[i]
        BY <3>4, Zenon DEF Shifted
      <4>2. \A j \in DOMAIN sent' : j + 1 \in DOMAIN sent /\ sent'[j] = sent[j + 1] /\ j \in Nat
        BY <3>4, Zenon DEF Shifted
      <4>3. \E i \in DOMAIN sent' : sent'[i].kind = "response" /\ sent'[i].key <= crypto
        BY <3>1, <4>1, Zenon
      <4>4. ASSUME NEW j \in DOMAIN sent', sent'[j].kind = "response", sent'[j].key > crypto
            PROVE  \E i \in DOMAIN sent' : i < j /\ sent'[i].kind = "response" /\ sent'[i].key <= crypto
        <5>1. PICK i \in DOMAIN sent : i < j + 1 /\ sent[i].kind = "response" /\ sent[i].key <= crypto
          BY <3>2, <4>2, <4>4, Zenon
        <5>2. i - 1 \in DOMAIN sent' /\ sent'[i - 1] = sent[i] /\ i - 1 < j
          BY <1>0, <4>1, <4>2, <5>1
        <5> QED
          BY <5>1, <5>2, Zenon
      <4> QED
        BY <2>1, <4>3, <4>4, Zenon DEF InstalledFirst, IsResponse
    <3> QED
      BY <1>3, <2>0, <3>3, <3>4, AskedSent, Zenon
  <2>2. CASE AfterResponse /\ crypto = NoKey /\ crypto' = handler.crypto
    <3>1. crypto' = nextKey /\ sent' = sent /\ reader.pc = "install"
      BY <1>3, <1>i, <2>2, Zenon DEF AfterResponse
    <3>2. \A i \in DOMAIN sent : IsResponse(i) => sent[i].key <= nextKey /\ ~(sent[i].key > nextKey)
      BY <1>0 DEF KeyBound
    <3>3. \E i \in DOMAIN sent : IsResponse(i)
      BY <2>0, <3>1, Zenon DEF KeyOrder
    <3> QED
      BY <3>1, <3>2, <3>3, Zenon DEF InstalledFirst, IsResponse
  <2> QED
    BY <2>1, <2>2, KeySteps, Zenon
<1>4. ASSUME handler'.crypto # NoKey, status' = "open", reader'.pc \notin {"actions", "respond", "install"}
      PROVE  crypto' # NoKey
  <2>1. ~Resume
    BY <1>4 DEF Resume, NewHandler, Fresh
  <2>2. status = "open" /\ ~SendFails
    BY <1>4, <2>1, ReaderSteps, Zenon DEF SendFails, coreVars
  <2>3. handler.crypto # NoKey
    BY <1>4, KeySteps, Zenon
  <2>4. CASE reader.pc \notin {"actions", "respond", "install"}
    BY <2>2, <2>3, <2>4, KeySteps, Zenon DEF KeyOrder
  <2>5. CASE AfterResponse
    BY <1>4, <2>2, <2>3, <2>5, Zenon DEF AfterResponse, EndsWith, Cipher
  <2> QED
    BY <1>4, <2>1, <2>2, <2>4, <2>5, ReaderSteps, Zenon
<1> QED
  BY <1>1, <1>2, <1>3, <1>4, Zenon DEF KeyOrder, IsResponse

(* The keys are in order in every reachable state.                          *)
LEMMA KeyInvHolds == Spec => []KeyInv
<1>1. Init => KeyInv
  BY DEF Init, KeyInv, KeyBound, KeyOrder, InstalledFirst, Fresh, Idle, NoKey
<1>2. TypeInv /\ RequestInv /\ KeyInv /\ [Next]_vars => KeyInv'
  BY BoundStep, OrderStep, Zenon DEF KeyInv
<1> QED
  BY <1>1, <1>2, TypeInvHolds, RequestInvHolds, PTL DEF Spec

-----------------------------------------------------------------------------
(* The challenge, and what both sides agree on                              *)

(* An answer comes from a challenge that this channel's handler opened.     *)
LEMMA AnsweringSteps ==
    ASSUME TypeInv, [Next]_vars, Answering'
    PROVE  Answering \/ DeliverChallenge
<1>1. CASE reader'.pc = "answer"
  BY <1>1, ControlSteps, Zenon DEF Answering
<1>2. ASSUME NEW i \in DOMAIN sent', sent'[i].kind = "answer" PROVE Answering
  <2>1. CASE sent' = sent
    BY <1>2, <2>1, Zenon DEF Answering
  <2>2. CASE SendAnswer
    BY <2>2, Zenon DEF SendAnswer, Answering
  <2>3. CASE SendResponse \/ NumberInput
    <3>1. PICK m : m.kind # "answer" /\ Extended(sent, sent', {m})
      <4>1. Response.kind # "answer"
        BY Zenon DEF Response
      <4> QED
        BY <2>3, <4>1, SentCases, Zenon DEF NumbersResponse, NumbersInput
    <3>2. sent'[i] = m \/ (i \in DOMAIN sent /\ sent'[i] = sent[i])
      BY <3>1, Zenon DEF Extended
    <3> QED
      BY <1>2, <3>1, <3>2, Zenon DEF Answering
  <2>4. CASE LateReply
    <3>1. Extended(sent, sent', {late[k] : k \in DOMAIN late})
      BY <2>4, SentCases, Zenon DEF NumbersLate
    <3>2. (\E k \in DOMAIN late : sent'[i] = late[k]) \/ (i \in DOMAIN sent /\ sent'[i] = sent[i])
      BY <3>1, Zenon DEF Extended
    <3> QED
      BY <1>2, <3>2, Zenon DEF Answering
  <2>5. CASE AgentReadsResponse \/ AgentReadsAnswer \/ AgentReadsInput
    <3>1. Shifted(sent, sent')
      BY <2>5, SentCases, Zenon DEF AgentReadsResponse, AgentReadsAnswer, AgentReadsInput, AgentTakes
    <3>2. i + 1 \in DOMAIN sent /\ sent'[i] = sent[i + 1]
      BY <3>1, Zenon DEF Shifted
    <3> QED
      BY <1>2, <3>2, Zenon DEF Answering
  <2> QED
    BY <2>1, <2>2, <2>3, <2>4, <2>5, SentStays, Zenon
<1>3. ASSUME NEW i \in DOMAIN late', late'[i].kind = "answer" PROVE Answering
  <2>1. CASE late' = late
    BY <1>3, <2>1, Zenon DEF Answering
  <2>2. CASE late' = <<>>
    BY <1>3, <2>2
  <2>3. CASE Resume /\ late' = Reply
    <3>1. CASE Reply = <<>>
      BY <1>3, <2>3, <3>1
    <3>2. CASE Reply = <<Response>>
      BY <1>3, <2>3, <3>2 DEF Response
    <3>3. CASE reader.pc = "answer"
      BY <3>3, Zenon DEF Answering
    <3> QED
      BY <3>1, <3>2, <3>3, ReplyCases, Zenon DEF Response
  <2> QED
    BY <2>1, <2>2, <2>3, LateCases, Zenon
<1> QED
  BY <1>1, <1>2, <1>3, Zenon DEF Answering

(* Past its request, the agent makes no other.                              *)
LEMMA NoMoreRequests ==
    ASSUME TypeInv, [Next]_vars, NoRequests, agent \notin {"new", "asked"}
    PROVE  NoRequests'
<1>1. CASE stream' = stream
  BY <1>1, Zenon DEF NoRequests
<1>2. CASE ClientTakes
  BY <1>2, Zenon DEF NoRequests, ClientTakes, Shifted
<1>6. CASE ClientGivesUp
  BY <1>6, Zenon DEF NoRequests, ClientGivesUp, Vacated
<1>3. ~SaysRequest /\ ~SaysChallenge
  BY Zenon DEF SaysRequest, SaysChallenge
<1>4. CASE SaysOutput
  <2>1. PICK m : m.kind = "output" /\ Extended(stream, stream', {m})
    BY <1>4, Zenon DEF SaysOutput
  <2> QED
    BY <2>1, Zenon DEF NoRequests, Extended
<1>5. CASE SaysOther
  BY <1>5, Zenon DEF NoRequests, SaysOther, Extended
<1> QED
  BY <1>1, <1>2, <1>3, <1>4, <1>5, <1>6, StreamCases, Zenon

(* The agent challenges once, and only then has it a key.                   *)
LEMMA ChallengesStep ==
    ASSUME TypeInv, KeyBound, Challenges, [Next]_vars
    PROVE  Challenges'
<1>0. /\ \A i \in DOMAIN stream : i \in Nat
      /\ agentKey # NoKey => agentKey' = agentKey /\ agent \notin {"new", "asked"}
  <2>1. stream \in Seq(In)
    BY Zenon DEF TypeInv
  <2>2. agentKey # NoKey => agent \notin {"new", "asked"}
    BY Zenon DEF KeyBound
  <2> QED
    BY <2>1, <2>2, KeySteps
<1>1. CASE stream' = stream
  BY <1>0, <1>1 DEF Challenges
<1>2. CASE ClientTakes
  BY <1>0, <1>2 DEF Challenges, ClientTakes, Shifted
<1>5. CASE ClientGivesUp
  BY <1>0, <1>5, Zenon DEF Challenges, ClientGivesUp, Vacated
<1>3. CASE SaysRequest
  <2>1. agentKey = NoKey
    BY <1>0, <1>3, Zenon DEF SaysRequest
  <2>2. \A i \in DOMAIN stream : stream[i].kind # "challenge"
    BY <2>1, Zenon DEF Challenges
  <2>3. \A i \in DOMAIN stream' : stream'[i].kind # "challenge"
    BY <1>3, <2>2 DEF SaysRequest, Extended
  <2> QED
    BY <2>3, Zenon DEF Challenges
<1>4. CASE SaysChallenge
  <2>1. agentKey = NoKey
    BY <1>0, <1>4, Zenon DEF SaysChallenge
  <2>2. \A i \in DOMAIN stream : stream[i].kind # "challenge"
    BY <2>1, Zenon DEF Challenges
  <2>3. /\ agentKey' # NoKey
        /\ Extended(stream, stream', {[kind |-> "challenge", seal |-> <<agentKey', "first">>]})
    BY <1>4, Zenon DEF SaysChallenge
  <2>4. ASSUME NEW i \in DOMAIN stream', stream'[i].kind = "challenge"
        PROVE  /\ stream'[i].seal = <<agentKey', "first">>
               /\ \A j \in DOMAIN stream : j < i
    BY <2>2, <2>3, <2>4 DEF Extended
  <2>5. ASSUME NEW i \in DOMAIN stream', stream'[i].kind = "challenge",
               NEW j \in DOMAIN stream', i < j, stream'[j].kind = "request"
        PROVE  FALSE
    <3>1. j \in DOMAIN stream /\ i \notin DOMAIN stream
      BY <2>2, <2>3, <2>5, Zenon DEF Extended
    <3>2. j < i /\ j \in Nat
      BY <1>0, <2>4, <2>5, <3>1, Zenon
    <3>3. i \in Nat
      <4>1. TypeInv'
        BY TypeStep, Zenon
      <4>2. stream' \in Seq(In)
        BY <4>1, Zenon DEF TypeInv
      <4> QED
        BY <4>2
    <3> QED
      BY <2>5, <3>2, <3>3
  <2> QED
    BY <2>3, <2>4, <2>5, Zenon DEF Challenges
<1>6. CASE SaysOutput
  <2>1. PICK m : m.kind = "output" /\ Extended(stream, stream', {m})
    BY <1>6, Zenon DEF SaysOutput
  <2> QED
    BY <1>0, <2>1, Zenon DEF Challenges, Extended
<1>7. CASE SaysOther
  <2>1. PICK S : /\ Extended(stream, stream', S)
                 /\ \A m \in S : m.kind \in {"complete", "garbled", "exit", "terminate"}
    BY <1>7, Zenon DEF SaysOther
  <2>2. \A m \in S : m.kind \notin {"request", "challenge"}
    BY <2>1, Zenon
  <2> QED
    BY <1>0, <2>1, <2>2, Zenon DEF Challenges, Extended
<1> QED
  BY <1>1, <1>2, <1>3, <1>4, <1>5, <1>6, <1>7, StreamCases, Zenon

(* What a challenge opened by the handler says of the installed cipher: it  *)
(* is the key the agent took.                                               *)
LEMMA OpenedChallenge ==
    ASSUME TypeInv, KeyInv, ChallengeInv, DeliverChallenge
    PROVE  /\ handler.crypto = agentKey /\ crypto = agentKey /\ agentKey # NoKey /\ NoRequests
           /\ status = "open" /\ UNCHANGED <<handler, crypto, agentKey, stream>>
<1>0. /\ stream \in Seq(In) /\ stream # <<>> /\ Head(stream).kind = "challenge"
      /\ status = "open" /\ reader.pc = "idle"
      /\ handler.crypto # NoKey /\ Head(stream).seal = <<handler.crypto, "first">>
      /\ UNCHANGED <<handler, crypto, agentKey, stream>>
  BY Zenon DEF DeliverChallenge, Next1, Decrypts, agentVars, TypeInv
<1>1. 1 \in DOMAIN stream /\ stream[1] = Head(stream) /\ \A i \in DOMAIN stream : i = 1 \/ 1 < i
  <2>1. stream \in Seq(In) /\ stream # <<>>
    BY <1>0, Zenon
  <2>2. 1 \in DOMAIN stream /\ stream[1] = Head(stream) /\ \A i \in DOMAIN stream : i \in Nat /\ i >= 1
    BY <2>1, TailDomain, Zenon
  <2>3. ASSUME NEW i \in DOMAIN stream PROVE i = 1 \/ 1 < i
    <3>1. i \in Nat /\ i >= 1
      BY <2>2, Zenon
    <3> QED
      BY <3>1
  <2> QED
    BY <2>2, <2>3, Zenon
<1>2. stream[1].seal = <<agentKey, "first">> /\ agentKey # NoKey
  BY <1>0, <1>1, Zenon DEF ChallengeInv, Challenges
<1>3. \A j \in DOMAIN stream : 1 < j => stream[j].kind # "request"
  BY <1>0, <1>1, Zenon DEF ChallengeInv, Challenges
<1>4. handler.crypto = agentKey
  BY <1>0, <1>1, <1>2
<1>5. NoRequests
  BY <1>0, <1>1, <1>3, Zenon DEF NoRequests
<1>6. /\ crypto # NoKey /\ agentKey <= crypto /\ crypto <= nextKey /\ handler.crypto = nextKey
  BY <1>0, Zenon DEF KeyInv, KeyBound, KeyOrder
<1>7. crypto \in Nat /\ agentKey \in Nat /\ nextKey \in Nat
  BY Zenon DEF TypeInv
<1>8. crypto = agentKey
  BY <1>4, <1>6, <1>7
<1> QED
  BY <1>0, <1>2, <1>4, <1>5, <1>8, Zenon

(* The cipher of a session that is being, or has been, agreed on stays.     *)
LEMMA CipherStays ==
    ASSUME TypeInv, RequestInv, KeyInv, [Next]_vars, NoRequests \/ Benign
    PROVE  crypto' = crypto
<1> SUFFICES ASSUME AfterResponse, crypto = NoKey, crypto' = handler.crypto PROVE crypto' = crypto
  BY KeySteps, Zenon
<1>1. /\ stream \in Seq(In) /\ stream # <<>> /\ reader.pc = "install"
  BY Zenon DEF AfterResponse, TypeInv
<1>2. stream[1].kind = "request" /\ 1 \in DOMAIN stream
  BY <1>1, TailDomain, Zenon DEF RequestInv, AskInv
<1>3. Benign
  BY <1>2, Zenon DEF NoRequests
<1>4. nextKey = NoKey /\ handler.crypto \in {NoKey, nextKey}
  BY <1>3, Zenon DEF RequestInv, RefuseInv, KeyInv, KeyBound, NoKey
<1> QED
  BY <1>4, Zenon

(* A session that is refused was not agreed on, and no answer is on its way.*)
LEMMA RefusedAlone ==
    ASSUME TypeInv, RequestInv, ChallengeInv, reader.pc = "install", handler.state = "Failed"
    PROVE  agent # "complete" /\ ~Answering
<1>1. stream \in Seq(In) /\ stream # <<>>
  BY Zenon DEF TypeInv
<1>2. stream[1].kind = "request" /\ 1 \in DOMAIN stream
  BY <1>1, TailDomain, Zenon DEF RequestInv, AskInv
<1>3. ~NoRequests
  BY <1>2, Zenon DEF NoRequests
<1>4. ~Benign
  BY Zenon DEF RequestInv, RefuseInv
<1> QED
  BY <1>3, <1>4, Zenon DEF ChallengeInv

(* Where the reason of an unsupported request can come from.                *)
LEMMA ReasonSteps ==
    ASSUME TypeInv, [Next]_vars, reason' = "unsupported"
    PROVE  \/ reason = "unsupported" /\ (status = "over" => status' = "over")
           \/ /\ AfterResponse /\ handler.state = "Failed" /\ status' = "over" /\ reader'.pc = "idle"
<1>1. CASE UNCHANGED <<reason, status>>
  BY <1>1, Zenon
<1>2. CASE AfterResponse
  BY <1>2, Zenon DEF AfterResponse, EndsWith, coreVars, Idle
<1>3. CASE Passes \/ Stops
  BY <1>3, Zenon DEF Passes, Stops
<1>4. CASE Resume
  BY <1>4, Zenon DEF Resume
<1> QED
  BY <1>1, <1>2, <1>3, <1>4, NextCases, Zenon
  DEF clientVars, coreVars, agentVars, histVars, core, Quiet, DeliverOutput,
      TakeRequest, HandleSessionType, RefuseKmsEncryption, NegotiateKey, ActionsDone, SendResponse,
      SendFails, DeliverChallenge, SendAnswer, AfterAnswer, NumberInput, LateReply,
      AgentAsks, AgentRepeats, AgentIsLegacy, AgentReadsResponse, AgentReadsAnswer,
      AgentReadsInput, AgentExits, AgentGarbles, AgentOutputs

(* The handler keeps its key while the reader answers a challenge.          *)
LEMMA HandlerKeeps ==
    ASSUME TypeInv, [Next]_vars, reader.pc = "answer"
    PROVE  handler' = handler \/ Resume
  BY NextCases, Zenon
  DEF clientVars, coreVars, agentVars, histVars, core, Quiet, Passes, Stops, DeliverOutput,
      TakeRequest, HandleSessionType, RefuseKmsEncryption, NegotiateKey, ActionsDone, SendResponse,
      AfterResponse, SendFails, DeliverChallenge, SendAnswer, AfterAnswer, NumberInput, LateReply,
      AgentAsks, AgentRepeats, AgentIsLegacy, AgentReadsResponse, AgentReadsAnswer,
      AgentReadsInput, AgentExits, AgentGarbles, AgentOutputs

(* A reader that is idle on a closed channel stays so.                      *)
LEMMA StaysIdle ==
    ASSUME TypeInv, [Next]_vars, reader.pc = "idle", status = "over"
    PROVE  reader'.pc = "idle"
<1>1. /\ ~TakeRequest /\ ~HandleSessionType /\ ~RefuseKmsEncryption /\ ~NegotiateKey /\ ~ActionsDone
      /\ ~SendResponse /\ ~SendAnswer /\ ~DeliverChallenge /\ ~Resume
  BY Zenon DEF TakeRequest, HandleSessionType, RefuseKmsEncryption, NegotiateKey, ActionsDone, SendResponse,
         SendAnswer, DeliverChallenge, Resume, Next1
<1>2. AfterResponse \/ SendFails \/ AfterAnswer => reader'.pc = "idle"
  BY Zenon DEF AfterResponse, SendFails, AfterAnswer, Idle
<1> QED
  BY <1>1, <1>2, NextCases, Zenon
  DEF clientVars, coreVars, agentVars, histVars, core, Quiet, Passes, Stops, DeliverOutput,
      NumberInput, LateReply, AgentAsks, AgentRepeats, AgentIsLegacy, AgentReadsResponse,
      AgentReadsAnswer, AgentReadsInput, AgentExits, AgentGarbles, AgentOutputs

(* The agent takes the session for established on a response that asks for  *)
(* no cipher, or on the answer to its challenge.                            *)
LEMMA Completion ==
    ASSUME TypeInv, RequestInv, KeyInv, ChallengeInv, [Next]_vars, agent' = "complete"
    PROVE  \/ agent = "complete" /\ agentKey' = agentKey /\ request' = request
           \/ /\ agent \notin {"new", "complete"} /\ crypto = agentKey /\ reason # "unsupported"
              /\ UNCHANGED <<crypto, agentKey, request, reason>>
              /\ Benign \/ (NoRequests /\ agent = "challenged")
<1>1. CASE AgentReadsResponse
  <2>1. CASE agent = "complete"
    BY <1>1, <2>1, Zenon DEF AgentReadsResponse
  <2>2. CASE agent # "complete"
    <3>1. /\ agent = "asked" /\ Bare(Head(sent)) /\ Reads("response")
          /\ UNCHANGED <<crypto, agentKey, request, reason>>
      BY <1>1, <2>2, Zenon DEF AgentReadsResponse, Reads, Bare, clientVars, coreVars
    <3>2. 1 \in DOMAIN sent /\ sent[1] = Head(sent)
      BY <3>1, SentCases, Zenon DEF AgentTakes, Shifted
    <3>3. Benign
      BY <3>1, <3>2, Zenon DEF RequestInv, BareInv
    <3>4. nextKey = 0 /\ reason # "unsupported"
      BY <3>3, Zenon DEF RequestInv, RefuseInv
    <3>5. crypto = agentKey
      BY <3>4 DEF KeyInv, KeyBound, TypeInv
    <3> QED
      BY <3>1, <3>3, <3>4, <3>5, Zenon
  <2> QED
    BY <2>1, <2>2, Zenon
<1>2. CASE AgentReadsAnswer
  <2>1. /\ agent = "challenged" /\ Reads("answer")
        /\ UNCHANGED <<crypto, agentKey, request, reason>>
    BY <1>2, Zenon DEF AgentReadsAnswer, clientVars, coreVars
  <2>2. 1 \in DOMAIN sent /\ sent[1].kind = "answer"
    BY <2>1, SentCases, Zenon DEF AgentTakes, Shifted
  <2>3. Answering
    BY <2>2, Zenon DEF Answering
  <2>4. NoRequests /\ crypto = agentKey /\ reason # "unsupported"
    BY <2>3, Zenon DEF ChallengeInv
  <2> QED
    BY <2>1, <2>4, Zenon
<1>3. CASE UNCHANGED <<agent, agentKey, request>>
  BY <1>3, Zenon
<1>4. CASE \/ (\E a \in Requests : AgentAsks(a)) \/ AgentRepeats \/ AgentIsLegacy \/ AgentExits
           \/ AgentGarbles
  BY <1>4, Zenon DEF AgentAsks, AgentRepeats, AgentIsLegacy, AgentExits, AgentGarbles
<1> QED
  BY <1>1, <1>2, <1>3, <1>4, NextCases, Zenon
  DEF clientVars, coreVars, agentVars, histVars, core, Quiet, Passes, Stops, DeliverOutput,
      TakeRequest, HandleSessionType, RefuseKmsEncryption, NegotiateKey, ActionsDone, SendResponse,
      AfterResponse, SendFails, DeliverChallenge, SendAnswer, AfterAnswer, NumberInput, Resume,
      LateReply, AgentReadsInput, AgentOutputs

(* Both sides hold the same key once the agent takes it for established.    *)
LEMMA ChallengeStep ==
    TypeInv /\ RequestInv /\ KeyInv /\ ChallengeInv /\ [Next]_vars => ChallengeInv'
<1> SUFFICES ASSUME TypeInv, RequestInv, KeyInv, ChallengeInv, [Next]_vars PROVE ChallengeInv'
  OBVIOUS
<1>0. agentKey # NoKey => agent \notin {"new", "asked"} /\ agentKey' = agentKey
  <2>1. agentKey # NoKey => agent \notin {"new", "asked"}
    BY Zenon DEF KeyInv, KeyBound
  <2> QED
    BY <2>1, KeySteps, Zenon
<1>1. Challenges'
  BY ChallengesStep, Zenon DEF KeyInv, ChallengeInv
<1>2. ASSUME Answering' PROVE (NoRequests /\ crypto = agentKey /\ agentKey # NoKey)'
  <2>1. CASE DeliverChallenge
    BY <2>1, OpenedChallenge, Zenon DEF NoRequests
  <2>2. CASE Answering
    <3>1. NoRequests /\ crypto = agentKey /\ agentKey # NoKey
      BY <2>2, Zenon DEF ChallengeInv
    <3>2. NoRequests'
      BY <1>0, <3>1, NoMoreRequests, Zenon
    <3>3. crypto' = crypto
      BY <3>1, CipherStays, Zenon
    <3> QED
      BY <1>0, <3>1, <3>2, <3>3, Zenon
  <2> QED
    BY <1>2, <2>1, <2>2, AnsweringSteps, Zenon
<1>3. ASSUME reader'.pc = "answer" PROVE handler'.crypto = agentKey'
  <2>1. CASE DeliverChallenge
    BY <2>1, OpenedChallenge, Zenon
  <2>2. CASE reader.pc = "answer" /\ ~DeliverChallenge
    <3>1. handler.crypto = agentKey /\ agentKey # NoKey
      BY <2>2, Zenon DEF ChallengeInv, Answering
    <3>2. handler'.crypto = handler.crypto \/ Resume
      BY <1>3, <2>2, HandlerKeeps, Zenon
    <3>3. ~Resume
      BY <1>3 DEF Resume, Idle
    <3> QED
      BY <1>0, <3>1, <3>2, <3>3, Zenon
  <2> QED
    BY <1>3, <2>1, <2>2, ControlSteps, Zenon
<1>4. ASSUME agent' = "complete" PROVE (crypto = agentKey /\ (NoRequests \/ Benign))'
  <2>1. CASE agent = "complete" /\ agentKey' = agentKey /\ request' = request
    <3>1. crypto = agentKey /\ (NoRequests \/ Benign)
      BY <2>1, Zenon DEF ChallengeInv
    <3>2. crypto' = crypto
      BY <3>1, CipherStays, Zenon
    <3>3. Benign' = Benign
      BY <2>1, Zenon DEF Benign
    <3>4. NoRequests => NoRequests'
      BY <2>1, NoMoreRequests, Zenon
    <3> QED
      BY <2>1, <3>1, <3>2, <3>3, <3>4, Zenon
  <2>2. CASE /\ agent \notin {"new", "complete"} /\ crypto = agentKey
             /\ UNCHANGED <<crypto, agentKey, request, reason>>
             /\ Benign \/ (NoRequests /\ agent = "challenged")
    <3>1. Benign' = Benign
      BY <2>2, Zenon DEF Benign
    <3>2. NoRequests /\ agent = "challenged" => NoRequests'
      BY NoMoreRequests, Zenon
    <3> QED
      BY <2>2, <3>1, <3>2, Zenon
  <2> QED
    BY <1>4, <2>1, <2>2, Completion, Zenon
<1>5. ASSUME reason' = "unsupported"
      PROVE  (status = "over" /\ reader.pc = "idle" /\ agent # "complete" /\ ~Answering)'
  <2>1. CASE reason = "unsupported" /\ (status = "over" => status' = "over")
    <3>1. status = "over" /\ reader.pc = "idle" /\ agent # "complete" /\ ~Answering
      BY <2>1, Zenon DEF ChallengeInv
    <3>2. agent' # "complete"
      BY <2>1, <3>1, Completion, Zenon
    <3>3. ~DeliverChallenge
      BY <3>1, Zenon DEF DeliverChallenge, Next1
    <3>4. ~Answering'
      BY <3>1, <3>3, AnsweringSteps, Zenon
    <3>5. reader'.pc = "idle"
      BY <3>1, StaysIdle, Zenon
    <3> QED
      BY <2>1, <3>1, <3>2, <3>4, <3>5, Zenon
  <2>2. CASE AfterResponse /\ handler.state = "Failed" /\ status' = "over" /\ reader'.pc = "idle"
    <3>1. reader.pc = "install" /\ agent' = agent /\ ~DeliverChallenge
      BY <2>2, Zenon DEF AfterResponse, agentVars, DeliverChallenge, Next1
    <3>2. agent # "complete" /\ ~Answering
      BY <2>2, <3>1, RefusedAlone, Zenon
    <3>3. ~Answering'
      BY <3>1, <3>2, AnsweringSteps, Zenon
    <3> QED
      BY <2>2, <3>1, <3>2, <3>3, Zenon
  <2> QED
    BY <1>5, <2>1, <2>2, ReasonSteps, Zenon
<1> QED
  BY <1>1, <1>2, <1>3, <1>4, <1>5, Zenon DEF ChallengeInv

(* Both sides' keys, challenge and answer in every reachable state.         *)
LEMMA ChallengeInvHolds == Spec => []ChallengeInv
<1>1. Init => ChallengeInv
  <2> SUFFICES ASSUME Init PROVE ChallengeInv
    OBVIOUS
  <2>1. /\ stream = <<>> /\ late = <<>> /\ sent = <<>> /\ reader.pc = "idle" /\ agent = "new"
        /\ reason = "none"
    BY Zenon DEF Init, Idle
  <2>2. ~Answering /\ Challenges
    BY <2>1 DEF Answering, Challenges
  <2> QED
    BY <2>1, <2>2, Zenon DEF ChallengeInv
<1> QED
  BY <1>1, ChallengeStep, TypeInvHolds, RequestInvHolds, KeyInvHolds, PTL DEF Spec

(* deliver and on_request: when the agent takes the session for             *)
(* established the client has not refused it and its cipher is the agent's, *)
(* whatever the agent asks for and repeats, whatever KMS refuses, and       *)
(* however often the channel is lost in between.                            *)
THEOREM SidesAgree == Spec => []Agreement
<1>1. ChallengeInv => Agreement
  BY Zenon DEF ChallengeInv, Agreement
<1> QED
  BY <1>1, ChallengeInvHolds, PTL

-----------------------------------------------------------------------------
(* What subscribers are shown                                               *)

(* Once the session has a cipher, it has one.                               *)
LEMMA SealStep == TypeInv /\ KeyInv /\ ChallengeInv /\ SealInv /\ [Next]_vars => SealInv'
<1> SUFFICES ASSUME TypeInv, KeyInv, ChallengeInv, SealInv, [Next]_vars PROVE SealInv'
  OBVIOUS
<1>0. /\ stream \in Seq(In) /\ shown \in Seq(AnySeal) /\ (crypto # NoKey => crypto' # NoKey)
  BY KeySteps, Zenon DEF TypeInv
<1>1. ASSUME NEW i \in DOMAIN stream', stream'[i].kind = "output"
      PROVE  stream'[i].seal = Plain \/ (stream'[i].type # "Undefined" /\ crypto' # NoKey)
  <2>0. \A k \in DOMAIN stream : stream[k].kind = "output" =>
          stream[k].seal = Plain \/ (stream[k].type # "Undefined" /\ crypto' # NoKey)
    BY <1>0, Zenon DEF SealInv
  <2>1. CASE stream' = stream
    BY <1>1, <2>0, <2>1, Zenon
  <2>2. CASE ClientTakes
    BY <1>1, <2>0, <2>2, Zenon DEF ClientTakes, Shifted
  <2>7. CASE ClientGivesUp
    BY <1>1, <2>0, <2>7, Zenon DEF ClientGivesUp, Vacated
  <2>3. CASE SaysRequest
    <3>1. i \in DOMAIN stream /\ stream'[i] = stream[i]
      BY <1>1, <2>3 DEF SaysRequest, Extended
    <3> QED
      BY <1>1, <2>0, <3>1, Zenon
  <2>4. CASE SaysChallenge
    <3>1. i \in DOMAIN stream /\ stream'[i] = stream[i]
      BY <1>1, <2>4 DEF SaysChallenge, Extended
    <3> QED
      BY <1>1, <2>0, <3>1, Zenon
  <2>5. CASE SaysOther
    BY <1>1, <2>0, <2>5, Zenon DEF SaysOther, Extended
  <2>6. CASE SaysOutput
    <3>1. PICK t \in {"Output", "Undefined"} :
            Extended(stream, stream', {[kind |-> "output", type |-> t,
                                        seal |-> IF t = "Undefined" THEN Plain ELSE AgentSeal]})
      BY <2>6, Zenon DEF SaysOutput
    <3>2. agentKey # NoKey => crypto' # NoKey
      <4>1. agentKey # NoKey => agent = "complete"
        BY <2>6, Zenon DEF SaysOutput, KeyInv, KeyBound
      <4> QED
        BY <1>0, <4>1, Zenon DEF ChallengeInv
    <3>3. AgentSeal = Plain \/ crypto' # NoKey
      BY <3>2, Zenon DEF AgentSeal
    <3>4. \/ i \in DOMAIN stream /\ stream'[i] = stream[i]
          \/ stream'[i] = [kind |-> "output", type |-> t,
                           seal |-> IF t = "Undefined" THEN Plain ELSE AgentSeal]
      BY <1>1, <3>1, Zenon DEF Extended
    <3> QED
      BY <1>1, <2>0, <3>3, <3>4
  <2> QED
    BY <2>1, <2>2, <2>3, <2>4, <2>5, <2>6, <2>7, StreamCases, Zenon
<1>2. ShownIsPlain'
  <2>1. CASE shown' = shown
    BY <2>1, Zenon DEF SealInv, ShownIsPlain
  <2>2. CASE DeliverOutput
    <3>1. /\ stream # <<>> /\ Head(stream).kind = "output"
          /\ shown' = Append(shown, Opened(Head(stream)))
      BY <2>2, Zenon DEF DeliverOutput, Next1
    <3>2. 1 \in DOMAIN stream /\ Head(stream) = stream[1] /\ Head(stream) \in In
      BY <1>0, <3>1, TailDomain, Zenon
    <3>3. \/ Head(stream).seal = Plain
          \/ Head(stream).type # "Undefined" /\ crypto # NoKey
      BY <3>1, <3>2, Zenon DEF SealInv
    <3>4. Opened(Head(stream)) = Plain
      BY <3>3, Zenon DEF Opened, EncryptedInbound
    <3>5. Plain \in AnySeal
      BY MessageKinds, Zenon
    <3>6. \A i \in DOMAIN shown' : (i \in DOMAIN shown /\ shown'[i] = shown[i]) \/ shown'[i] = Plain
      <4>1. shown \in Seq(AnySeal) /\ shown' = Append(shown, Plain)
        BY <1>0, <3>1, <3>4, Zenon
      <4>2. \A i \in DOMAIN shown' : \/ i \in DOMAIN shown /\ shown'[i] = shown[i]
                                     \/ i = Len(shown) + 1 /\ shown'[i] = Plain
        BY <3>5, <4>1, AppendDomain, SMTT(30)
      <4> QED
        BY <4>2, Zenon
    <3> QED
      BY <3>6, Zenon DEF SealInv, ShownIsPlain
  <2> QED
    BY <2>1, <2>2, NextCases, Zenon
    DEF clientVars, coreVars, agentVars, histVars, core, Quiet, Passes, Stops,
        TakeRequest, HandleSessionType, RefuseKmsEncryption, NegotiateKey, ActionsDone, SendResponse,
        AfterResponse, SendFails, DeliverChallenge, SendAnswer, AfterAnswer, NumberInput, Resume,
        LateReply, AgentAsks, AgentRepeats, AgentIsLegacy, AgentReadsResponse, AgentReadsAnswer,
        AgentReadsInput, AgentExits, AgentGarbles, AgentOutputs
<1> QED
  BY <1>1, <1>2, Zenon DEF SealInv

(* decrypt_if_needed: what subscribers get is never ciphertext, on the      *)
(* first channel or on one that was resumed with the cipher of Continuity.  *)
THEOREM OutputIsPlain == Spec => []ShownIsPlain
<1>1. Init => SealInv
  BY DEF Init, SealInv, ShownIsPlain
<1>2. Spec => []SealInv
  BY <1>1, SealStep, TypeInvHolds, KeyInvHolds, ChallengeInvHolds, PTL DEF Spec
<1>3. SealInv => ShownIsPlain
  BY Zenon DEF SealInv
<1> QED
  BY <1>2, <1>3, PTL

-----------------------------------------------------------------------------
(* Neither side waits in vain                                               *)

(* What a queue holds it still holds when it grows, and when something else *)
(* is taken from it.                                                        *)
LEMMA HoldsKept ==
    ASSUME NEW q, NEW r, NEW kind, Holds(q, kind),
           (\E S : Extended(q, r, S)) \/ (Shifted(q, r) /\ q[1].kind # kind)
    PROVE  Holds(r, kind)
  BY Zenon DEF Holds, Extended, Shifted

(* The agent leaves what it waits for to be read: the reply is on its way   *)
(* until the agent moves on.                                                *)
LEMMA ReplyStays ==
    ASSUME TypeInv, [Next]_vars, agent' = agent
    PROVE  /\ agent = "asked" /\ Holds(sent, "response") => Holds(sent', "response")
           /\ agent = "challenged" /\ Holds(sent, "answer") => Holds(sent', "answer")
<1>1. ASSUME agent = "asked", Holds(sent, "response") PROVE Holds(sent', "response")
  BY <1>1, AskedSent, HoldsKept, Zenon
<1>2. ASSUME agent = "challenged", Holds(sent, "answer") PROVE Holds(sent', "answer")
  <2>1. ~AgentReadsAnswer
    BY <1>2, Zenon DEF AgentReadsAnswer
  <2>2. CASE AgentReadsInput \/ AgentReadsResponse
    <3>1. AgentTakes("input") \/ AgentTakes("response")
      BY <2>2, SentCases, Zenon DEF AgentReadsInput, AgentReadsResponse
    <3>2. Shifted(sent, sent') /\ sent[1].kind # "answer"
      BY <3>1, Zenon DEF AgentTakes
    <3> QED
      BY <1>2, <3>2, HoldsKept, Zenon
  <2>3. CASE SendResponse \/ SendAnswer \/ NumberInput \/ LateReply
    <3>1. \E S : Extended(sent, sent', S)
      BY <2>3, SentCases, Zenon DEF NumbersResponse, NumbersAnswer, NumbersInput, NumbersLate
    <3> QED
      BY <1>2, <3>1, HoldsKept, Zenon
  <2> QED
    BY <1>2, <2>1, <2>2, <2>3, SentStays, Zenon
<1> QED
  BY <1>1, <1>2, Zenon

(* Handlers and readers: a handler comes past its request by answering it,  *)
(* or is new; a closed session stays closed; only the agent moves itself.   *)
LEMMA TurnSteps ==
    ASSUME TypeInv, [Next]_vars
    PROVE  /\ \/ handler'.state = handler.state \/ handler' = Fresh
              \/ handler.state = "AwaitingComplete"
              \/ ActionsDone /\ reader.pc = "actions" /\ reader'.pc = "respond"
           /\ handler' = Fresh \/ status' # "open" \/ status = "open"
           /\ reader.pc = "respond" =>
                reader'.pc = "respond" \/ SendResponse \/ status # "open"
           /\ reader'.pc = "answered" => SendAnswer \/ reader.pc = "answered"
           /\ status' # "over" => status # "over"
           /\ agent' = "asked" => agent \in {"new", "asked"}
           /\ agent' = "challenged" => agent \in {"asked", "challenged"}
<1> USE DEF clientVars, coreVars, agentVars, histVars, core
<1>0. /\ \A p : [reader EXCEPT !.pc = p].pc = p
      /\ \A b \in BOOLEAN : ActionDone(b) => reader'.pc = reader.pc
      /\ \A k : [handler EXCEPT !.crypto = k].state = handler.state
      /\ Idle.pc = "idle"
  BY Zenon DEF TypeInv, ActionDone, Idle
<1>1. CASE \/ Quiet \/ Stops \/ DeliverOutput \/ NumberInput \/ LateReply
           \/ (\E a \in Requests : AgentAsks(a)) \/ AgentRepeats \/ AgentIsLegacy
           \/ AgentReadsResponse \/ AgentReadsAnswer \/ AgentReadsInput
           \/ AgentExits \/ AgentGarbles
           \/ \E type \in {"Output", "Undefined"} : AgentOutputs(type)
  <2>1. reader' = reader /\ handler' = handler
    BY <1>1, Zenon
    DEF Quiet, Stops, DeliverOutput, NumberInput, LateReply, AgentAsks, AgentRepeats,
        AgentIsLegacy, AgentReadsResponse, AgentReadsAnswer, AgentReadsInput, AgentExits,
        AgentGarbles, AgentOutputs
  <2>2. status' = status \/ (status = "open" /\ status' \in {"over", "lost"})
    BY <1>1, Zenon
    DEF Quiet, Stops, DeliverOutput, NumberInput, LateReply, AgentAsks, AgentRepeats,
        AgentIsLegacy, AgentReadsResponse, AgentReadsAnswer, AgentReadsInput, AgentExits,
        AgentGarbles, AgentOutputs
  <2>3. \/ agent' = agent \/ agent' \in {"legacy", "complete", "ended"}
        \/ agent' = "asked" /\ agent = "new"
        \/ agent' = "challenged" /\ agent = "asked"
    BY <1>1, Zenon
    DEF Quiet, Stops, DeliverOutput, NumberInput, LateReply, AgentAsks, AgentRepeats,
        AgentIsLegacy, AgentReadsResponse, AgentReadsAnswer, AgentReadsInput, AgentExits,
        AgentGarbles, AgentOutputs
  <2> QED
    BY <2>1, <2>2, <2>3, Zenon
<1>2. CASE Passes
  <2>1. /\ reader' = reader /\ agent' = agent /\ status = "open"
        /\ handler' = handler \/ handler.state = "AwaitingComplete"
    BY <1>2, Zenon DEF Passes
  <2> QED
    BY <2>1, Zenon
<1>3. CASE HandleSessionType \/ RefuseKmsEncryption \/ NegotiateKey \/ TakeRequest
  <2>1. TakeRequest => reader'.pc = "actions" /\ reader.pc = "idle"
    BY DEF TakeRequest, Next1
  <2>2. reader.pc # "respond" /\ reader'.pc # "answered"
    BY <1>0, <1>3, <2>1, Zenon DEF HandleSessionType, RefuseKmsEncryption, NegotiateKey
  <2>3. agent' = agent /\ status' = status /\ handler'.state = handler.state
    BY <1>0, <1>3, Zenon DEF HandleSessionType, RefuseKmsEncryption, NegotiateKey, TakeRequest
  <2> QED
    BY <2>2, <2>3, Zenon
<1>4. CASE ActionsDone
  <2>1. /\ reader.pc = "actions" /\ reader'.pc = "respond"
        /\ agent' = agent /\ status' = status
    BY <1>0, <1>4, Zenon DEF ActionsDone
  <2> QED
    BY <1>4, <2>1, Zenon
<1>5. CASE SendResponse \/ SendAnswer \/ DeliverChallenge
  <2>1. reader.pc = "respond" => SendResponse
    BY <1>5, Zenon DEF SendAnswer, DeliverChallenge, Next1
  <2>2. reader'.pc = "answered" => SendAnswer
    BY <1>0, <1>5, Zenon DEF SendResponse, DeliverChallenge
  <2>3. agent' = agent /\ status' = status /\ handler' = handler
    BY <1>5, Zenon DEF SendResponse, SendAnswer, DeliverChallenge
  <2> QED
    BY <2>1, <2>2, <2>3, Zenon
<1>6. CASE AfterResponse \/ SendFails \/ AfterAnswer
  <2>1. (reader.pc = "respond" => status # "open") /\ reader'.pc = "idle"
    BY <1>0, <1>6, Zenon DEF AfterResponse, SendFails, AfterAnswer
  <2>2. /\ agent' = agent /\ handler' = handler
        /\ status' = status \/ (status = "open" /\ status' = "over")
    BY <1>6, Zenon DEF AfterResponse, SendFails, AfterAnswer, EndsWith
  <2> QED
    BY <2>1, <2>2, Zenon
<1>7. CASE Resume
  <2>1. status = "lost" /\ handler' = Fresh /\ reader'.pc = "idle" /\ agent' = agent
    BY <1>0, <1>7, Zenon DEF Resume, NewHandler
  <2> QED
    BY <2>1, Zenon
<1> QED
  BY <1>1, <1>2, <1>3, <1>4, <1>5, <1>6, <1>7, NextCases, Zenon

(* The handler and the reader, as far as the stand-off depends on them.     *)
LEMMA TurnKept ==
    ASSUME TypeInv, RequestInv, KeyInv, ChallengeInv, StandOffInv, [Next]_vars
    PROVE  /\ agent' = "new" => handler'.state = "AwaitingRequest"
           /\ agent' = "asked" /\ status' = "open" /\ Answered' /\ reader'.pc # "respond" =>
                Holds(sent', "response")
           /\ reader'.pc \in {"answer", "answered"} => stream'[1].kind = "challenge"
           /\ reader'.pc = "answered" /\ agent' = "challenged" => Holds(sent', "answer")
<1>0. Fresh.state = "AwaitingRequest"
  BY DEF Fresh
<1>1. ASSUME agent = "new" PROVE handler'.state = "AwaitingRequest"
  <2>1. handler.state = "AwaitingRequest" /\ reader.pc = "idle"
    BY <1>1, Zenon DEF StandOffInv, RequestInv, AskInv
  <2> QED
    BY <1>0, <2>1, TurnSteps, Zenon
<1>2. ASSUME agent' = "asked", status' = "open", Answered', reader'.pc # "respond"
      PROVE  Holds(sent', "response")
  <2>0. handler'.state \in {"AwaitingComplete", "Completed"}
    BY <1>2, Zenon DEF Answered
  <2>1. handler' # Fresh /\ status = "open"
    BY <1>0, <1>2, <2>0, TurnSteps, Zenon
  <2>2. Answered
    BY <1>2, <2>0, <2>1, TurnSteps, Zenon DEF Answered
  <2>3. agent = "asked"
    BY <1>1, <1>2, <2>0, TurnSteps, Zenon
  <2>4. CASE reader.pc = "respond"
    <3>1. SendResponse
      BY <1>2, <2>1, <2>4, TurnSteps, Zenon
    <3> QED
      BY <3>1, SentCases, Zenon DEF NumbersResponse, Holds
  <2>5. CASE reader.pc # "respond"
    <3>1. Holds(sent, "response")
      BY <2>1, <2>2, <2>3, <2>5, Zenon DEF StandOffInv
    <3> QED
      BY <1>2, <2>3, <3>1, ReplyStays, Zenon
  <2> QED
    BY <2>4, <2>5, Zenon
<1>3. ASSUME reader'.pc \in {"answer", "answered"} PROVE stream'[1].kind = "challenge"
  <2>1. CASE DeliverChallenge
    <3>1. stream' = stream /\ stream # <<>> /\ Head(stream).kind = "challenge"
      BY <2>1, Zenon DEF DeliverChallenge, Next1
    <3>2. stream \in Seq(In)
      BY Zenon DEF TypeInv
    <3> QED
      BY <3>1, <3>2, TailDomain, Zenon
  <2>2. CASE reader.pc \in {"answer", "answered"}
    <3>1. stream[1].kind = "challenge" /\ stream # <<>> /\ stream \in Seq(In)
      BY <2>2, Zenon DEF StandOffInv, TypeInv
    <3>2. 1 \in DOMAIN stream
      BY <3>1, TailDomain, Zenon
    <3>3. ~ClientTakes /\ ~ClientGivesUp
      BY <1>3, Zenon DEF ClientTakes, ClientGivesUp
    <3>4. stream' = stream \/ \E S : Extended(stream, stream', S)
      BY <3>3, StreamCases, Zenon DEF SaysRequest, SaysChallenge, SaysOutput, SaysOther
    <3> QED
      BY <3>1, <3>2, <3>4, Zenon DEF Extended
  <2>3. reader.pc = "answer" \/ ~SendAnswer
    BY Zenon DEF SendAnswer
  <2> QED
    BY <1>3, <2>1, <2>2, <2>3, TurnSteps, ControlSteps, Zenon
<1>4. ASSUME reader'.pc = "answered", agent' = "challenged" PROVE Holds(sent', "answer")
  <2>1. CASE SendAnswer
    BY <2>1, SentCases, Zenon DEF NumbersAnswer, Holds
  <2>2. CASE reader.pc = "answered"
    <3>1. stream[1].kind = "challenge" /\ stream # <<>> /\ stream \in Seq(In)
      BY <2>2, Zenon DEF StandOffInv, TypeInv
    <3>2. 1 \in DOMAIN stream
      BY <3>1, TailDomain, Zenon
    <3>3. agentKey # NoKey
      BY <3>1, <3>2, Zenon DEF ChallengeInv, Challenges
    <3>4. agent = "challenged"
      BY <1>4, <3>3, TurnSteps, Zenon DEF KeyInv, KeyBound
    <3>5. Holds(sent, "answer")
      BY <2>2, <3>4, Zenon DEF StandOffInv
    <3> QED
      BY <1>4, <3>4, <3>5, ReplyStays, Zenon
  <2> QED
    BY <1>4, <2>1, <2>2, TurnSteps, Zenon
<1> QED
  BY <1>1, <1>2, <1>3, <1>4, ControlSteps, Zenon

(* What the agent says is on its way to the client.                         *)
LEMMA SaidIsHeld ==
    ASSUME TypeInv, [Next]_vars
    PROVE  /\ agent = "new" /\ agent' = "asked" => Holds(stream', "request")
           /\ agent = "asked" /\ agent' = "challenged" => Holds(stream', "challenge")
<1> USE DEF clientVars, coreVars, agentVars, histVars, core
<1>0. stream \in Seq(In)
  BY Zenon DEF TypeInv
<1>1. ASSUME NEW m \in In, Says(m) PROVE Holds(stream', m.kind)
  <2>1. \E i \in DOMAIN stream' : stream'[i] = m /\ \A j \in DOMAIN stream : j < i
    BY <1>0, <1>1, AppendExtends, Zenon DEF Says
  <2> QED
    BY <2>1, Zenon DEF Holds
<1>2. ASSUME NEW a \in Requests, AgentAsks(a) PROVE Holds(stream', "request")
  <2>1. a \in Seq(ActionTypes)
    BY RequestsTyped, Zenon
  <2>2. /\ [kind |-> "request", actions |-> a] \in In
        /\ [kind |-> "request", actions |-> a].kind = "request"
    BY <2>1, AgentMessages, Zenon
  <2>3. Says([kind |-> "request", actions |-> a])
    BY <1>2, Zenon DEF AgentAsks
  <2> QED
    BY <1>1, <2>2, <2>3
<1>3. ASSUME AgentReadsResponse, agent' = "challenged", agent = "asked"
      PROVE  Holds(stream', "challenge")
  <2>1. Head(sent).key \in Nat
    BY <1>3, TailDomain, MessageKinds, Zenon DEF AgentReadsResponse, Reads, TypeInv
  <2>2. /\ [kind |-> "challenge", seal |-> <<Head(sent).key, "first">>] \in In
        /\ [kind |-> "challenge", seal |-> <<Head(sent).key, "first">>].kind = "challenge"
    BY <2>1, AgentMessages, Zenon
  <2>3. Says([kind |-> "challenge", seal |-> <<Head(sent).key, "first">>])
    BY <1>3, Zenon DEF AgentReadsResponse
  <2> QED
    BY <1>1, <2>2, <2>3
<1>4. \/ agent' = agent \/ agent' \notin {"asked", "challenged"} \/ AgentRepeats
      \/ (\E a \in Requests : AgentAsks(a)) \/ AgentReadsResponse
  BY NextCases, Zenon
  DEF Quiet, Passes, Stops, DeliverOutput, TakeRequest, HandleSessionType, RefuseKmsEncryption,
      NegotiateKey, ActionsDone, SendResponse, AfterResponse, SendFails, DeliverChallenge,
      SendAnswer, AfterAnswer, NumberInput, Resume, LateReply, AgentIsLegacy, AgentReadsAnswer,
      AgentReadsInput, AgentExits, AgentGarbles, AgentOutputs
<1>5. /\ AgentRepeats => agent' = agent
      /\ \A a : AgentAsks(a) => agent = "new"
      /\ AgentReadsResponse => agent # "new" \/ agent' = agent
  BY Zenon DEF AgentRepeats, AgentAsks, AgentReadsResponse
<1> QED
  BY <1>2, <1>3, <1>4, <1>5, Zenon

(* No step brings the handshake to a stand-off.                             *)
LEMMA StandOffStep ==
    TypeInv /\ RequestInv /\ KeyInv /\ ChallengeInv /\ StandOffInv /\ [Next]_vars => StandOffInv'
<1> SUFFICES ASSUME TypeInv, RequestInv, KeyInv, ChallengeInv, StandOffInv, [Next]_vars
             PROVE  StandOffInv'
  OBVIOUS
<1>1. SUFFICES ASSUME status' # "over", ~Stranded'
               PROVE  /\ agent' = "asked" => Holds(stream', "request") \/ Holds(sent', "response")
                      /\ agent' = "challenged" =>
                           Holds(stream', "challenge") \/ Holds(sent', "answer")
  BY TurnKept, Zenon DEF StandOffInv, NoStandOff, Answered
<1>9. ~ClientGivesUp
  BY <1>1, Zenon DEF ClientGivesUp, Vacated, Stranded
<1>3. SaysRequest \/ SaysChallenge \/ SaysOutput \/ SaysOther => \E S : Extended(stream, stream', S)
  BY Zenon DEF SaysRequest, SaysChallenge, SaysOutput, SaysOther
<1>4. reader.pc = "install" => stream[1].kind = "request"
  BY Zenon DEF RequestInv, AskInv
<1>2. status # "over" /\ ~Stranded
  <2>1. ASSUME Stranded PROVE Holds(stream', "retired")
    <3>1. Holds(stream, "retired")
      BY <2>1, Zenon DEF Stranded, Holds
    <3>2. CASE ClientTakes
      <4>1. stream[1].kind # "retired"
        BY <1>4, <3>2 DEF ClientTakes, StandOffInv
      <4> QED
        BY <3>1, <3>2, <4>1, HoldsKept, Zenon DEF ClientTakes
    <3> QED
      BY <1>3, <1>9, <3>1, <3>2, StreamCases, HoldsKept, Zenon
  <2> QED
    BY <1>1, <2>1, TurnSteps, Zenon DEF Stranded, Holds
<1>5. ASSUME agent = "asked", agent' = "asked", Holds(stream, "request")
      PROVE  Holds(stream', "request") \/ Holds(sent', "response")
  <2>1. CASE ClientTakes
    <3>1. sent' = sent /\ Shifted(stream, stream')
      BY <2>1, Zenon DEF ClientTakes
    <3>2. CASE stream[1].kind # "request"
      BY <1>5, <3>1, <3>2, HoldsKept, Zenon
    <3>3. CASE stream[1].kind = "request" /\ reader.pc = "idle"
      <4>1. status = "open" /\ Answered /\ reader.pc # "respond"
        BY <2>1, <3>3, Zenon DEF ClientTakes
      <4> QED
        BY <1>5, <3>1, <4>1, Zenon DEF StandOffInv
    <3>4. CASE reader.pc = "install"
      BY <1>5, <3>1, <3>4, Zenon DEF KeyInv, KeyOrder, IsResponse, Holds
    <3>5. CASE reader.pc = "answered"
      BY <1>5, <3>1, <3>2, <3>5, Zenon DEF StandOffInv
    <3> QED
      BY <2>1, <3>2, <3>3, <3>4, <3>5, Zenon DEF ClientTakes
  <2> QED
    BY <1>3, <1>5, <1>9, <2>1, StreamCases, HoldsKept, Zenon
<1>6. ASSUME agent = "challenged", agent' = "challenged", Holds(stream, "challenge")
      PROVE  Holds(stream', "challenge") \/ Holds(sent', "answer")
  <2>1. CASE ClientTakes
    <3>1. sent' = sent /\ Shifted(stream, stream')
      BY <2>1, Zenon DEF ClientTakes
    <3>2. CASE stream[1].kind # "challenge"
      BY <1>6, <3>1, <3>2, HoldsKept, Zenon
    <3>3. CASE reader.pc = "answered"
      BY <1>6, <3>1, <3>3, Zenon DEF StandOffInv
    <3> QED
      BY <1>4, <2>1, <3>2, <3>3, Zenon DEF ClientTakes
  <2> QED
    BY <1>3, <1>6, <1>9, <2>1, StreamCases, HoldsKept, Zenon
<1>7. CASE agent' = agent
  BY <1>2, <1>5, <1>6, <1>7, ReplyStays, Zenon DEF StandOffInv, NoStandOff
<1>8. CASE agent' # agent
  BY <1>8, SaidIsHeld, TurnSteps, Zenon
<1> QED
  BY <1>7, <1>8, Zenon

(* HandshakeHandler::on_request, which ignores a repeated request, and      *)
(* answer_challenge: as long as the session is not over, an agent that      *)
(* waits for the response, or for the answer to its challenge, waits for a  *)
(* message on its way, or its own question is still to be processed: also   *)
(* when the channel was lost halfway through the reply and another resumed, *)
(* as long as no question was retired that the client still needs.          *)
THEOREM NobodyWaitsInVain == Spec => []NoStandOff
<1>1. Init => StandOffInv
  BY DEF Init, StandOffInv, NoStandOff, Fresh, Idle
<1>2. Spec => []StandOffInv
  BY <1>1, StandOffStep, TypeInvHolds, RequestInvHolds, KeyInvHolds, ChallengeInvHolds, PTL DEF Spec
<1>3. StandOffInv => NoStandOff
  BY Zenon DEF StandOffInv
<1> QED
  BY <1>2, <1>3, PTL
=============================================================================
