------------------------------ MODULE Handshake ------------------------------
(***************************************************************************)
(* Agreeing on a session: the reader task answers the agent's handshake     *)
(* (HandshakeHandler), installs the session cipher and opens the gate for   *)
(* the command task, while that task composes input, the agent repeats      *)
(* itself, and the channel may be lost and resumed at any point.            *)
(*                                                                          *)
(* Sequence numbers, acknowledgements and resending are those of Outbound   *)
(* and Inbound; here both directions are the in-order streams they provide. *)
(* Every channel has a handler, a gate and an exit code of its own; the     *)
(* cipher belongs to Continuity.                                            *)
(***************************************************************************)
EXTENDS Integers, Sequences

CONSTANTS
    Actions,      \* what a request may ask for, subset of ActionTypes
    MaxOutput,    \* bound: payloads of output the agent sends
    MaxInput,     \* bound: payloads of input the caller sends
    MaxRepeats,   \* bound: times the agent repeats its request
    MaxChannels   \* bound: channels opened for the session

(* ActionType, with parameters that parse or do not.                        *)
ActionTypes == {"SessionType", "BadSessionType", "KMSEncryption", "BadKMSEncryption"}

ASSUME HandshakeAssumption ==
    /\ Actions \subseteq ActionTypes
    /\ MaxOutput \in Nat /\ MaxInput \in Nat /\ MaxRepeats \in Nat
    /\ MaxChannels \in Nat \ {0}

NoKey == 0
Keys == 1..MaxChannels
(* How a payload is sealed: the data key and which half of it.              *)
Plain == <<NoKey, "none">>
Seals == {Plain} \cup (Keys \X {"first", "second"})

(* A request names every action at most once.                               *)
Requests == {<<>>} \cup {<<a>> : a \in Actions}
            \cup {s \in Actions \X Actions : s[1] # s[2]}

FromAgent ==
    [kind : {"request"}, actions : Requests]
    \cup [kind : {"challenge", "exit"}, seal : Seals]
    \cup [kind : {"complete", "garbled", "terminate", "retired"}]
    \cup [kind : {"output"}, type : {"Output", "Undefined"}, seal : Seals]
ToAgent ==
    [kind : {"response"}, failed : BOOLEAN, key : Keys \cup {NoKey}]
    \cup [kind : {"answer", "input"}, seal : Seals]

VARIABLES
    kms,       \* the session has a KMS client
    nextKey,   \* keys KMS has generated
    \* Continuity
    crypto,    \* the key of the session cipher
    \* the channel in use
    channel,
    status,    \* "open", "lost" (resumable) or "over"
    reason,    \* why it is over: CloseReason and, for Protocol, which error it tells of
    sendable,
    exitCode,  \* SessionCore holds an exit code
    handler,   \* HandshakeHandler: state and crypto
    reader,    \* what the reader awaits: pc, the actions left, any_failed
    command,   \* the input the command task has composed, a sequence of 0 or 1
    late,      \* the reply an old channel's reader may still number, 0 or 1
    \* the streams, and the agent
    stream,    \* messages to the client, not yet processed
    sent,      \* messages numbered by the client, not yet read by the agent
    agent, agentKey,
    request,   \* the actions the agent asked for
    outputs, inputs, repeats,   \* how many so far
    shown,     \* history: the seals of the payloads given to subscribers
    answers    \* history: responses numbered on this channel

clientVars == <<kms, late, nextKey, crypto, handler, reader, command>>
coreVars == <<channel, status, reason, sendable, exitCode>>
agentVars == <<agent, agentKey, request, outputs, inputs, repeats>>
histVars == <<shown, answers>>
vars == <<clientVars, coreVars, stream, sent, agentVars, histVars>>

Idle == [pc |-> "idle", todo |-> <<>>, failed |-> FALSE]
Fresh == [state |-> "AwaitingRequest", crypto |-> NoKey]

TypeOK ==
    /\ kms \in BOOLEAN /\ sendable \in BOOLEAN /\ exitCode \in BOOLEAN
    /\ nextKey \in Keys \cup {NoKey}
    /\ crypto \in Keys \cup {NoKey} /\ agentKey \in Keys \cup {NoKey}
    /\ channel \in 1..MaxChannels
    /\ status \in {"open", "lost", "over"}
    /\ reason \in {"none", "protocol", "unsupported", "agent"}
    /\ handler \in [state : {"AwaitingRequest", "AwaitingComplete", "Completed", "Failed"},
                    crypto : Keys \cup {NoKey}]
    /\ reader.pc \in {"idle", "actions", "respond", "install", "answer", "answered"}
    /\ reader.failed \in BOOLEAN
    /\ \A i \in DOMAIN reader.todo : reader.todo[i] \in Actions
    /\ Len(late) <= 1 /\ \A i \in DOMAIN late : late[i] \in ToAgent
    /\ Len(command) <= 1 /\ \A i \in DOMAIN command : command[i] \in Seals
    /\ \A i \in DOMAIN stream : stream[i] \in FromAgent
    /\ \A i \in DOMAIN sent : sent[i] \in ToAgent
    /\ agent \in {"new", "asked", "challenged", "complete", "legacy", "ended"}
    /\ request \in Requests
    /\ outputs \in 0..MaxOutput /\ inputs \in 0..MaxInput /\ repeats \in 0..MaxRepeats

Init ==
    /\ kms \in BOOLEAN
    /\ nextKey = NoKey /\ crypto = NoKey
    /\ channel = 1 /\ status = "open" /\ reason = "none"
    /\ sendable = FALSE /\ exitCode = FALSE
    /\ handler = Fresh /\ reader = Idle /\ command = <<>> /\ late = <<>>
    /\ stream = <<>> /\ sent = <<>>
    /\ agent = "new" /\ agentKey = NoKey /\ request = <<>>
    /\ outputs = 0 /\ inputs = 0 /\ repeats = 0
    /\ shown = <<>> /\ answers = 0

-----------------------------------------------------------------------------
(* SessionCrypto: from_key_material gives the first half of the data key to *)
(* decryption and the second to encryption.                                 *)
Encrypt(k) == <<k, "second">>
Decrypts(k, seal) == seal = <<k, "first">>

(* is_encrypted_inbound.                                                    *)
EncryptedInbound(m) == m.kind = "exit" \/ m.type # "Undefined"

(* decrypt_if_needed: whether it succeeds, and the seal of what it returns. *)
(* Mutant: what arrives is passed on as it is.                              *)
Opens(m) == crypto = NoKey \/ ~EncryptedInbound(m) \/ Decrypts(crypto, m.seal)
NotOpened(m) == m.seal
Opened(m) == IF crypto # NoKey /\ EncryptedInbound(m) THEN Plain ELSE m.seal

-----------------------------------------------------------------------------
(* The reader task                                                          *)

(* The next message of the agent's stream, when the reader is in its loop.  *)
Next1(kind) ==
    /\ status = "open" /\ reader.pc = "idle"
    /\ stream # <<>> /\ Head(stream).kind = kind

(* deliver returned Ok: advance_expected.                                   *)
Delivered == stream' = Tail(stream)

(* deliver returns an error, and the reader closes the session with it.     *)
EndsWith(r) ==
    /\ status' = "over" /\ reason' = r
    /\ UNCHANGED <<channel, sendable, exitCode>>

DeliverOutput ==
    /\ Next1("output") /\ Opens(Head(stream))
    /\ sendable' = TRUE
    /\ shown' = Append(shown, Opened(Head(stream)))
    /\ Delivered
    /\ UNCHANGED <<clientVars, channel, status, reason, exitCode, sent, agentVars, answers>>

(* on_request, when the handshake is under way or over: no second answer.   *)
(* Mutant: only after completion.                                           *)
AnsweredLate == handler.state = "Completed"
Answered == handler.state \in {"AwaitingComplete", "Completed"}

IgnoreRequest ==
    /\ Next1("request") /\ Answered
    /\ Delivered
    /\ UNCHANGED <<clientVars, coreVars, sent, agentVars, histVars>>

TakeRequest ==
    /\ Next1("request") /\ ~Answered /\ handler.state # "Failed"
    /\ reader' = [pc |-> "actions", todo |-> Head(stream).actions, failed |-> FALSE]
    /\ UNCHANGED <<kms, late, nextKey, crypto, handler, command, coreVars, stream, sent,
                   agentVars, histVars>>

ActionDone(failed) ==
    reader' = [reader EXCEPT !.todo = Tail(@), !.failed = @ \/ failed]

(* handle_session_type: any name will do, if the parameters parse.          *)
HandleSessionType ==
    /\ reader.pc = "actions" /\ reader.todo # <<>>
    /\ Head(reader.todo) \in {"SessionType", "BadSessionType"}
    /\ ActionDone(Head(reader.todo) = "BadSessionType")
    /\ UNCHANGED <<kms, late, nextKey, crypto, handler, command, coreVars, stream, sent,
                   agentVars, histVars>>

(* handle_kms_encryption fails: no KMS client, parameters that do not       *)
(* parse, or a refusal by GenerateDataKey.                                  *)
RefuseKmsEncryption ==
    /\ reader.pc = "actions" /\ reader.todo # <<>>
    /\ Head(reader.todo) \in {"KMSEncryption", "BadKMSEncryption"}
    /\ ActionDone(TRUE)
    /\ UNCHANGED <<kms, late, nextKey, crypto, handler, command, coreVars, stream, sent,
                   agentVars, histVars>>

(* handle_kms_encryption: negotiate a data key with KMS.                    *)
NegotiateKey ==
    /\ reader.pc = "actions" /\ reader.todo # <<>>
    /\ Head(reader.todo) = "KMSEncryption" /\ kms
    /\ nextKey' = nextKey + 1
    /\ handler' = [handler EXCEPT !.crypto = nextKey']
    /\ ActionDone(FALSE)
    /\ UNCHANGED <<kms, late, crypto, command, coreVars, stream, sent, agentVars, histVars>>

(* Whether a failed action fails the handshake.                             *)
AnyFailed == reader.failed

ActionsDone ==
    /\ reader.pc = "actions" /\ reader.todo = <<>>
    /\ handler' = [handler EXCEPT !.state = IF AnyFailed THEN "Failed" ELSE "AwaitingComplete"]
    /\ reader' = [reader EXCEPT !.pc = "respond"]
    /\ UNCHANGED <<kms, late, nextKey, crypto, command, coreVars, stream, sent, agentVars, histVars>>

(* What the reader is about to number.                                      *)
Reply ==
    CASE reader.pc \in {"actions", "respond"} /\ reader.todo = <<>> ->
           <<[kind |-> "response", failed |-> reader.failed, key |-> handler.crypto]>>
      [] reader.pc = "answer" -> <<[kind |-> "answer", seal |-> Encrypt(handler.crypto)]>>
      [] OTHER -> <<>>

(* send_payload numbers the response, failed or not.                        *)
SendResponse ==
    /\ reader.pc = "respond"
    /\ sent' = sent \o Reply
    /\ answers' = answers + 1
    /\ reader' = [reader EXCEPT !.pc = "install"]
    /\ UNCHANGED <<kms, late, nextKey, crypto, handler, command, coreVars, stream, agentVars, shown>>

(* deliver gives up on a message, which was acknowledged before it began.   *)
(* The agent sends it again unless that acknowledgement has arrived: then   *)
(* its number stays open for ever.                                          *)
Retired == [kind |-> "retired"]
GivesUp == stream' \in {stream, [stream EXCEPT ![1] = Retired]}

(* set_crypto: the first cipher stays.                                      *)
Cipher == IF crypto = NoKey THEN handler.crypto ELSE crypto

(* A failure ends the session, unless the channel is closed already.        *)
AfterResponse ==
    /\ reader.pc = "install"
    /\ reader' = Idle
    /\ \/ /\ handler.state = "Failed"
          /\ IF status = "open" THEN EndsWith("unsupported") ELSE UNCHANGED coreVars
          /\ GivesUp /\ UNCHANGED crypto
       \/ /\ handler.state # "Failed"
          /\ crypto' = Cipher /\ Delivered
          /\ UNCHANGED coreVars
    /\ UNCHANGED <<kms, late, nextKey, handler, command, sent, agentVars, histVars>>

(* send_payload fails on a closed channel, before the reply has a number or *)
(* after that, in write: the reader ends with the message unprocessed.      *)
SendFails ==
    /\ reader.pc \in {"respond", "install", "answer", "answered"} /\ status # "open"
    /\ reader' = Idle
    /\ GivesUp
    /\ UNCHANGED <<kms, late, nextKey, crypto, handler, command, coreVars, sent, agentVars,
                   histVars>>

(* answer_challenge with the handler's own cipher, then send_payload.       *)
DeliverChallenge ==
    /\ Next1("challenge") /\ handler.crypto # NoKey
    /\ Decrypts(handler.crypto, Head(stream).seal)
    /\ reader' = [reader EXCEPT !.pc = "answer"]
    /\ UNCHANGED <<kms, late, nextKey, crypto, handler, command, coreVars, stream, sent,
                   agentVars, histVars>>

SendAnswer ==
    /\ reader.pc = "answer"
    /\ sent' = sent \o Reply
    /\ reader' = [reader EXCEPT !.pc = "answered"]
    /\ UNCHANGED <<kms, late, nextKey, crypto, handler, command, coreVars, stream, agentVars, histVars>>

AfterAnswer ==
    /\ reader.pc = "answered"
    /\ reader' = Idle
    /\ Delivered
    /\ UNCHANGED <<kms, late, nextKey, crypto, handler, command, coreVars, sent, agentVars, histVars>>

DeliverComplete ==
    /\ Next1("complete") /\ handler.state = "AwaitingComplete"
    /\ handler' = [handler EXCEPT !.state = "Completed"]
    /\ sendable' = TRUE
    /\ Delivered
    /\ UNCHANGED <<kms, late, nextKey, crypto, reader, command, channel, status, reason, exitCode,
                   sent, agentVars, histVars>>

DeliverExitCode ==
    /\ Next1("exit") /\ Opens(Head(stream))
    /\ exitCode' = TRUE
    /\ Delivered
    /\ UNCHANGED <<clientVars, channel, status, reason, sendable, sent, agentVars, histVars>>

(* A Flag payload that says TerminateSession.                               *)
DeliverTerminate ==
    /\ Next1("terminate") /\ EndsWith("agent")
    /\ Delivered
    /\ UNCHANGED <<clientVars, sent, agentVars, histVars>>

(* What deliver returns an error for: a body that does not parse, a         *)
(* completion or a challenge this channel's handler is not waiting for, and *)
(* what the cipher does not open; output opens the gate even then.          *)
Unusable(m) ==
    \/ m.kind = "garbled"
    \/ m.kind = "request" /\ handler.state = "Failed"
    \/ m.kind = "complete" /\ handler.state # "AwaitingComplete"
    \/ m.kind = "challenge" /\ ~Decrypts(handler.crypto, m.seal)
    \/ m.kind \in {"output", "exit"} /\ ~Opens(m)

ProtocolError ==
    /\ status = "open" /\ reader.pc = "idle"
    /\ stream # <<>> /\ Unusable(Head(stream))
    /\ status' = "over" /\ reason' = "protocol"
    /\ sendable' = (sendable \/ Head(stream).kind = "output")
    /\ UNCHANGED <<clientVars, channel, exitCode, stream, sent, agentVars, histVars>>

-----------------------------------------------------------------------------
(* The gateway's own frames, text or binary: handle_text and route          *)

Publication ==
    /\ status = "open" /\ reader.pc = "idle"
    /\ sendable' \in BOOLEAN
    /\ UNCHANGED <<clientVars, channel, status, reason, exitCode, stream, sent, agentVars,
                   histVars>>

(* channel_closed, which the agent sends once it has ended the session.     *)
ChannelClosed ==
    /\ status = "open" /\ reader.pc = "idle" /\ agent = "ended"
    /\ EndsWith("agent")
    /\ UNCHANGED <<clientVars, stream, sent, agentVars, histVars>>

-----------------------------------------------------------------------------
(* The command task: send_payload reads the cipher, then waits its turn for *)
(* a number.                                                                *)

Compose ==
    /\ status = "open" /\ sendable
    /\ command = <<>> /\ inputs < MaxInput
    /\ command' = <<IF crypto = NoKey THEN Plain ELSE Encrypt(crypto)>>
    /\ inputs' = inputs + 1
    /\ UNCHANGED <<kms, late, nextKey, crypto, handler, reader, coreVars, stream, sent, agent,
                   agentKey, request, outputs, repeats, histVars>>

NumberInput ==
    /\ command # <<>>
    /\ sent' = Append(sent, [kind |-> "input", seal |-> command[1]])
    /\ command' = <<>>
    /\ UNCHANGED <<kms, late, nextKey, crypto, handler, reader, coreVars, stream, agentVars, histVars>>

-----------------------------------------------------------------------------
(* Losing the channel and resuming                                          *)

Lose ==
    /\ status = "open"
    /\ status' = "lost"
    /\ UNCHANGED <<clientVars, channel, reason, sendable, exitCode, stream, sent, agentVars,
                   histVars>>

(* The cipher a resumed channel starts with.  Mutant: none, as if it were   *)
(* the channel's own.                                                       *)
NoCipher == NoKey
InheritedCipher == crypto

(* Its HandshakeHandler.  Mutant: the handler of the lost channel.          *)
KeptHandler == handler
NewHandler == Fresh

(* A new channel over the same Continuity: SessionCore and HandshakeHandler *)
(* are new.  The tasks of the old channel are aborted where they wait, but  *)
(* not before the new one is adopted, so a reply may still get a number.    *)
(* (An old reader that finishes its message before the new one has it again *)
(* might as well have finished before; two at one message are in Inbound.)  *)
Resume ==
    /\ status = "lost" /\ channel < MaxChannels
    /\ channel' = channel + 1 /\ status' = "open"
    /\ crypto' = InheritedCipher
    /\ sendable' = FALSE /\ exitCode' = FALSE
    /\ handler' = NewHandler /\ reader' = Idle /\ command' = <<>>
    /\ late' \in {<<>>, Reply}
    /\ IF reader.pc = "idle" THEN UNCHANGED stream ELSE GivesUp
    /\ answers' = 0
    /\ UNCHANGED <<kms, nextKey, reason, sent, agentVars, shown>>

(* The old reader numbers its reply; write then fails, and so does deliver. *)
LateReply ==
    /\ late # <<>>
    /\ sent' = sent \o late /\ late' = <<>>
    /\ UNCHANGED <<kms, nextKey, crypto, handler, reader, command, coreVars, stream, agentVars,
                   histVars>>

-----------------------------------------------------------------------------
(* The agent (external)                                                     *)

Says(m) == stream' = Append(stream, m)
AgentSeal == IF agentKey = NoKey THEN Plain ELSE <<agentKey, "first">>

AgentAsks(actions) ==
    /\ agent = "new"
    /\ agent' = "asked" /\ request' = actions
    /\ Says([kind |-> "request", actions |-> actions])
    /\ UNCHANGED <<clientVars, coreVars, sent, agentKey, outputs, inputs, repeats, histVars>>

AgentRepeats ==
    /\ agent = "asked" /\ repeats < MaxRepeats
    /\ repeats' = repeats + 1
    /\ Says([kind |-> "request", actions |-> request])
    /\ UNCHANGED <<clientVars, coreVars, sent, agent, agentKey, request, outputs, inputs, histVars>>

(* An agent from before the handshake protocol.                             *)
AgentIsLegacy ==
    /\ agent = "new"
    /\ agent' = "legacy"
    /\ UNCHANGED <<clientVars, coreVars, stream, sent, agentKey, request, outputs, inputs,
                   repeats, histVars>>

Reads(kind) == sent # <<>> /\ Head(sent).kind = kind /\ sent' = Tail(sent)

AgentReadsResponse ==
    /\ Reads("response")
    /\ LET r == Head(sent) IN
         \/ /\ agent = "asked" /\ r.failed
            /\ agent' = "ended" /\ UNCHANGED <<stream, agentKey>>
         \/ /\ agent = "asked" /\ ~r.failed /\ r.key # NoKey
            /\ agent' = "challenged" /\ agentKey' = r.key
            /\ Says([kind |-> "challenge", seal |-> <<r.key, "first">>])
         \/ /\ agent = "asked" /\ ~r.failed /\ r.key = NoKey
            /\ agent' = "complete" /\ UNCHANGED agentKey
            /\ Says([kind |-> "complete"])
         \/ agent # "asked" /\ UNCHANGED <<stream, agent, agentKey>>
    /\ UNCHANGED <<clientVars, coreVars, request, outputs, inputs, repeats, histVars>>

AgentReadsAnswer ==
    /\ Reads("answer")
    /\ IF agent = "challenged" /\ Head(sent).seal = <<agentKey, "second">>
       THEN agent' = "complete" /\ Says([kind |-> "complete"])
       ELSE agent' = "ended" /\ UNCHANGED stream
    /\ UNCHANGED <<clientVars, coreVars, agentKey, request, outputs, inputs, repeats, histVars>>

AgentReadsInput ==
    /\ Reads("input")
    /\ UNCHANGED <<clientVars, coreVars, stream, agentVars, histVars>>

AgentOutputs(type) ==
    /\ agent \in {"complete", "legacy"} /\ outputs < MaxOutput
    /\ outputs' = outputs + 1
    /\ Says([kind |-> "output", type |-> type,
             seal |-> IF type = "Undefined" THEN Plain ELSE AgentSeal])
    /\ UNCHANGED <<clientVars, coreVars, sent, agent, agentKey, request, inputs, repeats, histVars>>

(* The process exits: its code, then TerminateSession.                      *)
AgentExits ==
    /\ agent \in {"complete", "legacy"}
    /\ agent' = "ended"
    /\ stream' = stream \o <<[kind |-> "exit", seal |-> AgentSeal], [kind |-> "terminate"]>>
    /\ UNCHANGED <<clientVars, coreVars, sent, agentKey, request, outputs, inputs, repeats,
                   histVars>>

AgentGarbles ==
    /\ agent \in {"new", "asked"}
    /\ agent' = "ended"
    /\ Says([kind |-> "garbled"])
    /\ UNCHANGED <<clientVars, coreVars, sent, agentKey, request, outputs, inputs, repeats,
                   histVars>>

-----------------------------------------------------------------------------
ReaderNext ==
    \/ DeliverOutput \/ IgnoreRequest \/ TakeRequest \/ HandleSessionType
    \/ RefuseKmsEncryption \/ NegotiateKey \/ ActionsDone \/ SendResponse \/ AfterResponse
    \/ SendFails \/ DeliverChallenge \/ SendAnswer \/ AfterAnswer \/ DeliverComplete
    \/ DeliverExitCode \/ DeliverTerminate \/ ProtocolError
AgentReads == AgentReadsResponse \/ AgentReadsAnswer \/ AgentReadsInput

Next ==
    \/ ReaderNext \/ Publication \/ ChannelClosed
    \/ Compose \/ NumberInput
    \/ Lose \/ Resume \/ LateReply
    \/ \E actions \in Requests : AgentAsks(actions)
    \/ AgentRepeats \/ AgentIsLegacy \/ AgentReads \/ AgentExits \/ AgentGarbles
    \/ \E type \in {"Output", "Undefined"} : AgentOutputs(type)

Spec == Init /\ [][Next]_vars

(* The tasks are polled, a lost channel is resumed, the agent reads what is *)
(* sent and, once it has ended the session, its channel_closed arrives.     *)
Fairness ==
    /\ WF_vars(ReaderNext) /\ WF_vars(NumberInput)
    /\ WF_vars(Resume) /\ WF_vars(AgentReads) /\ WF_vars(ChannelClosed)

FairSpec == Spec /\ Fairness

-----------------------------------------------------------------------------
(* Properties                                                               *)

(* Subscribers are never given ciphertext as if it were output: not when    *)
(* the agent repeats itself, not on a resumed channel, whose own handshake  *)
(* never runs.                                                              *)
ShownIsPlain == \A i \in DOMAIN shown : shown[i] = Plain

(* The agent takes the session for established only with a client that      *)
(* does too: one that has not refused it, and whose cipher is the agent's.  *)
(* In between lie repeated requests, a data key per request that is         *)
(* answered, and channels lost between the number of a response and the     *)
(* installation of the cipher.                                              *)
Agreement ==
    agent = "complete" => reason # "unsupported" /\ (status # "over" => crypto = agentKey)

(* on_request: the agent repeats its request until it sees the reply, and   *)
(* answering twice would push the state machine out of sync.                *)
AnsweredOnce == answers <= 1

(* No further channel will follow.                                          *)
Over == status = "over" \/ (status = "lost" /\ channel = MaxChannels)

(* The client waits for a message that the agent will not send again.       *)
Stranded == \E i \in DOMAIN stream : stream[i].kind = "retired"

(* A handshake that has begun completes or ends the session, whatever is    *)
(* refused or repeated and wherever the channel is lost: the replies a lost *)
(* channel has numbered and the messages it has not taken are sent again,   *)
(* and a message it took and could not answer is asked again, too, unless   *)
(* its acknowledgement got through: after that both sides may wait.         *)
HandshakeSettles ==
    agent \in {"asked", "challenged"} ~> (handler.state = "Completed" \/ Over \/ Stranded)
=============================================================================
