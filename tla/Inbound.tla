------------------------------- MODULE Inbound -------------------------------
(***************************************************************************)
(* The agent-to-client direction of a data channel: the reader task applies *)
(* the in-order contract (route_stream_data), acknowledges through the      *)
(* writer queue, and delivers; expected and the reorder buffer belong to    *)
(* Continuity and pass to a resumed channel.                                *)
(*                                                                          *)
(* A message is its number; submitted gives the payload of number n at      *)
(* n + 1.  Most payloads are delivered without waiting.  Those in Replies   *)
(* (HandshakeRequest, EncChallengeRequest) make deliver await send_payload, *)
(* which can fail once the channel is closed.                               *)
(***************************************************************************)
EXTENDS Integers, Sequences, FiniteSets

CONSTANTS
    Data,         \* payloads
    Replies,      \* the payloads whose delivery sends a reply
    Capacity,     \* MESSAGE_BUFFER_CAPACITY, of the reorder buffer
    WriterDepth,  \* WRITER_QUEUE_DEPTH
    WireDepth,    \* bound: frames the socket holds towards the client
    MaxMessages,  \* bound: messages the agent sends
    MaxChannels   \* bound: channels opened for the session

ASSUME InboundAssumption ==
    /\ Replies \subseteq Data
    /\ Capacity \in Nat
    /\ WriterDepth \in Nat \ {0}
    /\ WireDepth \in Nat \ {0}
    /\ MaxMessages \in Nat
    /\ MaxChannels \in Nat \ {0}

Channels == 1..MaxChannels

VARIABLES
    \* Continuity
    expected,   \* the number processed next
    incoming,   \* the numbers in the reorder buffer
    \* the channel in use, and the reader task of every channel
    channel,
    status,     \* "open", "lost" (closed, resumable) or "over"
    pc,         \* where it is in route_stream_data, or "idle" or "exited"
    at,         \* the number it is at
    acks,       \* acknowledgements in the writer queue
    \* the agent
    submitted,  \* the payloads it has numbered
    unacked,    \* the numbers it still resends
    toClient,   \* frames on the socket
    delivered,  \* history: the numbers processed by the client
    cut         \* history: a channel was lost while its reader sent a reply

readerVars == <<pc, at>>
agentVars == <<submitted, unacked, toClient>>
vars == <<expected, incoming, channel, status, readerVars, acks, agentVars, delivered, cut>>

Payload(n) == submitted[n + 1]
Synchronous == {"insert", "deliver", "advance", "take"}

TypeOK ==
    /\ expected \in Nat
    /\ incoming \in SUBSET Nat
    /\ IsFiniteSet(incoming) /\ Cardinality(incoming) <= Capacity
    /\ channel \in Channels
    /\ status \in {"open", "lost", "over"}
    /\ pc \in [Channels -> {"idle", "reply", "exited"} \cup Synchronous]
    /\ at \in [Channels -> Nat]
    /\ acks \in Seq(Nat) /\ Len(acks) <= WriterDepth
    /\ submitted \in Seq(Data)
    /\ unacked \in SUBSET Nat
    /\ toClient \in Seq(Nat)
    /\ delivered \in Seq(Nat)
    /\ cut \in BOOLEAN

Init ==
    /\ expected = 0
    /\ incoming = {}
    /\ channel = 1
    /\ status = "open"
    /\ pc = [c \in Channels |-> "idle"]
    /\ at = [c \in Channels |-> 0]
    /\ acks = <<>>
    /\ submitted = <<>>
    /\ unacked = {}
    /\ toClient = <<>>
    /\ delivered = <<>>
    /\ cut = FALSE

-----------------------------------------------------------------------------
(* The reader task of the channel in use                                    *)

(* acknowledge: enqueue for the writer, or drop when the queue is full.     *)
Acknowledge(n) ==
    acks' = IF Len(acks) < WriterDepth THEN Append(acks, n) ELSE acks

(* The next frame of the socket, when the reader is back in its loop.       *)
Reads(n) ==
    /\ status = "open"
    /\ pc[channel] = "idle"
    /\ toClient # <<>>
    /\ n = Head(toClient)
    /\ toClient' = Tail(toClient)

(* Below expected: processed already.  No acknowledgement.                  *)
DropStale(n) ==
    /\ Reads(n)
    /\ n < expected
    /\ UNCHANGED <<cut, expected, incoming, channel, status, readerVars, acks,
                   submitted, unacked, delivered>>

(* Above expected.  The buffer is locked only after the comparison, and a   *)
(* reader of an old channel may advance expected in between.                *)
FindEarly(n) ==
    /\ Reads(n)
    /\ n > expected
    /\ pc' = [pc EXCEPT ![channel] = "insert"]
    /\ at' = [at EXCEPT ![channel] = n]
    /\ UNCHANGED <<cut, expected, incoming, channel, status, acks, submitted, unacked,
                   delivered>>

(* IncomingBuffer::insert has a place for n.                                *)
Accepts(n) == Cardinality(incoming) < Capacity \/ n \in incoming

(* Whether a message the buffer has no place for is acknowledged.  Mutant:  *)
(* it is.                                                                   *)
AckRefused(n) == Acknowledge(n)
Silent(n) == acks' = acks

(* An early message: buffer it and acknowledge, or drop it where there is   *)
(* no place, so that the agent sends it again.                              *)
Insert(c) ==
    /\ pc[c] = "insert"
    /\ pc' = [pc EXCEPT ![c] = "idle"]
    /\ \/ /\ Accepts(at[c])
          /\ incoming' = incoming \cup {at[c]}
          /\ Acknowledge(at[c])
       \/ /\ ~Accepts(at[c])
          /\ Silent(at[c])
          /\ UNCHANGED incoming
    /\ UNCHANGED <<cut, expected, channel, status, at, agentVars, delivered>>

(* deliver starts: a payload that needs a reply waits for send_payload.     *)
StartDelivery(c, n) ==
    /\ pc' = [pc EXCEPT ![c] = IF Payload(n) \in Replies THEN "reply" ELSE "deliver"]
    /\ at' = [at EXCEPT ![c] = n]

(* The expected message: acknowledge first, then deliver.                   *)
TakeExpected(n) ==
    /\ Reads(n)
    /\ n = expected
    /\ Acknowledge(n)
    /\ StartDelivery(channel, n)
    /\ UNCHANGED <<cut, expected, incoming, channel, status, submitted, unacked,
                   delivered>>

(* deliver returns Ok.  A reply on a closed channel may still be taken by a *)
(* queue that nobody reads.                                                 *)
Deliver(c) ==
    /\ pc[c] \in {"deliver", "reply"}
    /\ delivered' = Append(delivered, at[c])
    /\ pc' = [pc EXCEPT ![c] = "advance"]
    /\ UNCHANGED <<cut, expected, incoming, channel, status, at, acks, agentVars>>

(* send_payload fails because the channel is closed: the reader ends, and   *)
(* its own close comes too late to change the reason.                       *)
ReplyFails(c) ==
    /\ pc[c] = "reply"
    /\ c < channel \/ status # "open"
    /\ pc' = [pc EXCEPT ![c] = "exited"]
    /\ cut' = TRUE
    /\ UNCHANGED <<expected, incoming, channel, status, at, acks, agentVars, delivered>>

(* deliver cannot use the message (it does not parse or decrypt, or the     *)
(* handshake is refused): a protocol failure, which ends the session.       *)
ProtocolFails(c) ==
    /\ pc[c] \in {"deliver", "reply"}
    /\ c = channel /\ status = "open"
    /\ pc' = [pc EXCEPT ![c] = "exited"]
    /\ status' = "over"
    /\ toClient' = <<>>
    /\ UNCHANGED <<cut, expected, incoming, channel, at, acks, submitted, unacked, delivered>>

(* What expected becomes.  Mutant: past everything that is buffered.        *)
PastBuffer == expected + 1 + Cardinality(incoming)
Successor == expected + 1

(* advance_expected: a fetch_add, whose result is the number to look for.   *)
Advance(c) ==
    /\ pc[c] = "advance"
    /\ expected' = Successor
    /\ pc' = [pc EXCEPT ![c] = "take"]
    /\ at' = [at EXCEPT ![c] = Successor]
    /\ UNCHANGED <<cut, incoming, channel, status, acks, agentVars, delivered>>

(* IncomingBuffer::take: go on with that number if the buffer has it.       *)
Take(c) ==
    /\ pc[c] = "take"
    /\ incoming' = incoming \ {at[c]}
    /\ \/ at[c] \in incoming /\ StartDelivery(c, at[c])
       \/ /\ at[c] \notin incoming
          /\ pc' = [pc EXCEPT ![c] = "idle"]
          /\ UNCHANGED at
    /\ UNCHANGED <<cut, expected, channel, status, acks, agentVars, delivered>>

(* Back in its loop the reader of a closed channel returns.                 *)
Exit(c) ==
    /\ pc[c] = "idle"
    /\ c < channel \/ (c = channel /\ status # "open")
    /\ pc' = [pc EXCEPT ![c] = "exited"]
    /\ UNCHANGED <<cut, expected, incoming, channel, status, at, acks, agentVars, delivered>>

(* The replaced Session is dropped: a reader that waits is aborted.         *)
Abort(c) ==
    /\ c < channel
    /\ pc[c] = "reply"
    /\ pc' = [pc EXCEPT ![c] = "exited"]
    /\ UNCHANGED <<cut, expected, incoming, channel, status, at, acks, agentVars, delivered>>

-----------------------------------------------------------------------------
(* Closing and resuming                                                     *)

(* SessionCore::close by any task, for a resumable reason or a final one.   *)
(* What the writer has taken may still reach the agent; the frames on the   *)
(* socket will not be read.                                                 *)
Close ==
    /\ status = "open"
    /\ status' \in {"lost", "over"}
    /\ toClient' = <<>>
    /\ UNCHANGED <<cut, expected, incoming, channel, readerVars, acks, submitted,
                   unacked, delivered>>

(* The reorder buffer a resumed channel inherits.  Mutant: a fresh one.     *)
FreshBuffer == {}
Inherited == incoming

(* resume_session: a new channel over the same Continuity.  The calls to    *)
(* the service and the gateway take far longer than what the old reader     *)
(* does without awaiting, so that is over; what it awaits may not be.       *)
Resume ==
    /\ status = "lost"
    /\ channel < MaxChannels
    /\ pc[channel] \notin Synchronous
    /\ channel' = channel + 1
    /\ status' = "open"
    /\ incoming' = Inherited
    /\ acks' = <<>>
    /\ cut' = (cut \/ pc[channel] = "reply")
    /\ UNCHANGED <<expected, readerVars, agentVars, delivered>>

-----------------------------------------------------------------------------
(* The agent (external): numbers its messages, sends any that is not yet    *)
(* acknowledged, in any order and as often as it likes.                     *)

AgentSubmits(d) ==
    /\ status # "over"
    /\ Len(submitted) < MaxMessages
    /\ submitted' = Append(submitted, d)
    /\ unacked' = unacked \cup {Len(submitted)}
    /\ UNCHANGED <<cut, expected, incoming, channel, status, readerVars, acks, toClient, delivered>>

AgentSends(n) ==
    /\ n \in unacked
    /\ status = "open"
    /\ Len(toClient) < WireDepth
    /\ toClient' = Append(toClient, n)
    /\ UNCHANGED <<cut, expected, incoming, channel, status, readerVars, acks,
                   submitted, unacked, delivered>>

AgentTakesAck ==
    /\ acks # <<>>
    /\ acks' = Tail(acks)
    /\ unacked' = unacked \ {Head(acks)}
    /\ UNCHANGED <<cut, expected, incoming, channel, status, readerVars, submitted,
                   toClient, delivered>>

-----------------------------------------------------------------------------
ReaderNext(c) ==
    \/ Insert(c) \/ Deliver(c) \/ ReplyFails(c) \/ ProtocolFails(c) \/ Advance(c) \/ Take(c)
    \/ Exit(c) \/ Abort(c)
ReadNext(n) == DropStale(n) \/ FindEarly(n) \/ TakeExpected(n)

Next ==
    \/ \E n \in 0..(MaxMessages - 1) : ReadNext(n) \/ AgentSends(n)
    \/ \E c \in Channels : ReaderNext(c)
    \/ Close \/ Resume \/ AgentTakesAck
    \/ \E d \in Data : AgentSubmits(d)

Spec == Init /\ [][Next]_vars

(* The reader and the writer are polled, a lost channel is resumed, and the *)
(* agent keeps sending every message it has no acknowledgement for.         *)
Fairness ==
    /\ \A c \in Channels : WF_vars(ReaderNext(c))
    /\ WF_vars(\E n \in 0..(MaxMessages - 1) : ReadNext(n))
    /\ \A n \in 0..(MaxMessages - 1) : SF_vars(AgentSends(n))
    /\ WF_vars(AgentTakesAck) /\ WF_vars(Resume)

FairSpec == Spec /\ Fairness

-----------------------------------------------------------------------------
(* Properties                                                               *)

(* The client has told the agent that it has message n.                     *)
Acked(n) ==
    /\ n < Len(submitted)
    /\ n \notin unacked \/ \E i \in DOMAIN acks : acks[i] = n

(* Message n is processed, buffered, or being delivered.                    *)
InHand == {"deliver", "reply"}
Kept(n) ==
    \/ \E i \in DOMAIN delivered : delivered[i] = n
    \/ n \in incoming
    \/ \E c \in Channels : pc[c] \in InHand /\ at[c] = n

(* Once a message is acknowledged the agent forgets it.  While the session  *)
(* can go on, output and every other payload delivered without a reply is   *)
(* then processed or not dropped, also when the channel is closed and       *)
(* resumed meanwhile and a reader of the old channel is still at work:      *)
(* route_stream_data buffers before it acknowledges, and Continuity carries *)
(* the buffer over.  (That what is kept is processed in the end is          *)
(* EventuallyProcessed.)                                                    *)
AckedOutputIsKept ==
    \A n \in 0..(MaxMessages - 1) :
        status # "over" /\ Acked(n) /\ Payload(n) \notin Replies => Kept(n)

(* Output comes out in the agent's order and once each, through duplicates, *)
(* early arrivals, dropped acknowledgements and resumed channels.  That is  *)
(* ReliableStream, up to the loss of a channel whose reader is sending a    *)
(* reply: the message is acknowledged already, and the old reader may still *)
(* finish it beside the new one.                                            *)
Numbers == [i \in 1..Len(submitted) |-> i - 1]
Stream == INSTANCE ReliableStream WITH Data <- 0..(MaxMessages - 1), submitted <- Numbers
ReliableInOrder == Stream!Init /\ [][Stream!Next \/ cut]_(Stream!vars)

(* The session is over: no channel will follow this one.                    *)
Over == status = "over" \/ (status = "lost" /\ channel = MaxChannels)

(* Every message of the agent is processed unless the session ends, or a    *)
(* channel is lost in the middle of a reply: a full reorder buffer, a full  *)
(* writer queue or a resumed channel delays it, no more.  After a reply was *)
(* cut off the resumed channel may wait for a message the agent has         *)
(* retired, or for one that lies in the buffer, passed over between the     *)
(* two readers.                                                             *)
EventuallyProcessed ==
    \A n \in 1..MaxMessages :
        Len(submitted) >= n ~> (Len(delivered) >= n \/ Over \/ cut)

(* connection.rs says that the agent retransmits unacknowledged messages,   *)
(* so a dropped acknowledgement costs latency rather than correctness: a    *)
(* message the client has is acknowledged in the end.                       *)
EventuallyAcked ==
    \A n \in 0..(MaxMessages - 1) :
        (n \in unacked /\ expected > n) ~> (n \notin unacked \/ Over)
=============================================================================
