------------------------------ MODULE Outbound ------------------------------
(***************************************************************************)
(* The client-to-agent direction of a data channel: the two tasks that call *)
(* send_payload, the sequence mutex, the outgoing buffer, the writer queue, *)
(* the retransmission task, the reader's handling of acknowledgements, and  *)
(* the hand-over of the stream state (Continuity) to a resumed channel.     *)
(*                                                                          *)
(* Time is left out: a retransmission timer may be overdue at any moment,   *)
(* and the heartbeat may fire whenever the reader is not reading.           *)
(***************************************************************************)
EXTENDS Integers, Sequences, FiniteSets

CONSTANTS
    Data,         \* payloads
    Capacity,     \* MESSAGE_BUFFER_CAPACITY
    MaxAttempts,  \* MAX_RETRANSMIT_ATTEMPTS
    WriterDepth,  \* WRITER_QUEUE_DEPTH
    WireDepth,    \* bound: frames the socket holds in each direction
    MaxMessages,  \* bound: messages sent over the life of the session
    MaxChannels,  \* bound: channels opened for the session
    MaxStalls,    \* bound: sockets that stall for good
    NoSender,     \* the sequence mutex is free
    NoMessage     \* a task holds no message

ASSUME OutboundAssumption ==
    /\ Capacity \in Nat \ {0}
    /\ MaxAttempts \in Nat \ {0}
    /\ WriterDepth \in Nat \ {0}
    /\ WireDepth \in Nat \ {0}
    /\ MaxMessages \in Nat
    /\ MaxChannels \in Nat \ {0}
    /\ MaxStalls \in Nat
    /\ NoSender \notin (1..MaxChannels) \X {"command", "reader"}
    /\ NoMessage \notin [seq : Nat, data : Data]

Channels == 1..MaxChannels
Senders == Channels \X {"command", "reader"}
Message == [seq : Nat, data : Data]
Pending == [seq : Nat, data : Data, attempts : 1..MaxAttempts]
Resumable == {"Transport", "PeerUnresponsive"}
Final == {"DeliveryFailed", "Ended"}   \* Ended: Protocol, AgentClosed, Terminated
Reasons == {"None"} \cup Resumable \cup Final

VARIABLES
    \* Continuity, shared by every channel of the session
    sequence,   \* the next number, the value behind the mutex
    holder,     \* who holds the mutex
    outgoing,   \* OutgoingBuffer.pending
    \* the channel in use
    channel, open, reason,
    writer,     \* the writer queue
    resend,     \* what the retransmission task is about to write
    notifying,  \* the reader has retired a message and not yet notified
    ackWaiters, \* the futures enqueued on ack_notify
    stalled,    \* the channels whose socket takes nothing any more
    \* the calls of send_payload, one per task
    pc,
    msg,
    \* socket and agent
    toAgent, acks, held,
    delivered,  \* what the agent has processed
    submitted   \* history: the payloads in the order they were numbered

continuity == <<sequence, holder, outgoing>>
channelVars == <<stalled, channel, open, reason, writer, resend, notifying, ackWaiters>>
senderVars == <<pc, msg>>
agentVars == <<toAgent, acks, held, delivered>>
vars == <<continuity, channelVars, senderVars, agentVars, submitted>>

Unnumbered == {"queued", "track", "parked"}
Closed(c) == c < channel \/ ~open
Reader == <<channel, "reader">>
Tracked == {outgoing[i].seq : i \in DOMAIN outgoing}

TypeOK ==
    /\ sequence \in Nat
    /\ holder \in Senders \cup {NoSender}
    /\ outgoing \in Seq(Pending)
    /\ Len(outgoing) <= Capacity
    /\ channel \in Channels
    /\ open \in BOOLEAN
    /\ reason \in Reasons
    /\ writer \in Seq(Message)
    /\ Len(writer) <= WriterDepth
    /\ resend \in Message \cup {NoMessage}
    /\ notifying \in BOOLEAN
    /\ ackWaiters \in SUBSET Senders
    /\ stalled \in SUBSET Channels
    /\ pc \in [Senders -> {"idle", "queued", "track", "parked", "write", "exited"}]
    /\ msg \in [Senders -> Message \cup {NoMessage}]
    /\ toAgent \in Seq(Message)
    /\ acks \in Seq(Nat)
    /\ held \in SUBSET Message
    /\ delivered \in Seq(Data)
    /\ submitted \in Seq(Data)

Init ==
    /\ sequence = 0
    /\ holder = NoSender
    /\ outgoing = <<>>
    /\ channel = 1
    /\ open = TRUE
    /\ reason = "None"
    /\ writer = <<>>
    /\ resend = NoMessage
    /\ notifying = FALSE
    /\ ackWaiters = {}
    /\ stalled = {}
    /\ pc = [s \in Senders |-> "idle"]
    /\ msg = [s \in Senders |-> NoMessage]
    /\ toAgent = <<>>
    /\ acks = <<>>
    /\ held = {}
    /\ delivered = <<>>
    /\ submitted = <<>>

-----------------------------------------------------------------------------
(* send_payload                                                             *)

(* The task has a payload and asks for the mutex.  Nothing here looks at    *)
(* the close flag: a task past its own check sends on a closed channel too. *)
SendPayload(s, d) ==
    /\ pc[s] = "idle"
    /\ s[1] <= channel
    /\ ~(s = Reader /\ notifying)
    /\ Len(submitted) + Cardinality({t \in Senders : pc[t] \in Unnumbered}) < MaxMessages
    /\ pc' = [pc EXCEPT ![s] = "queued"]
    /\ msg' = [msg EXCEPT ![s] = [seq |-> 0, data |-> d]]
    /\ UNCHANGED <<continuity, channelVars, agentVars, submitted>>

(* The mutex can be taken.  Mutant: no mutual exclusion.                    *)
AlwaysFree == TRUE
Free == holder = NoSender

(* The mutex is granted: the wire form is built with the current number and *)
(* the acknowledgement future is enqueued before the test for room.         *)
Acquire(s) ==
    /\ pc[s] = "queued"
    /\ Free
    /\ holder' = s
    /\ msg' = [msg EXCEPT ![s].seq = sequence]
    /\ ackWaiters' = ackWaiters \cup {s}
    /\ pc' = [pc EXCEPT ![s] = "track"]
    /\ UNCHANGED <<sequence, outgoing, stalled, channel, open, reason, writer, resend,
                   notifying, agentVars, submitted>>

(* The test of OutgoingBuffer::track.                                       *)
HasRoom == Len(outgoing) < Capacity

(* Mutant of NextNumber: the counter is not advanced.                       *)
SameNumber == sequence
NextNumber == sequence + 1

(* Who holds the mutex after a message is tracked: the guard lives to the   *)
(* end of send_payload.  Mutant: released before the enqueue.               *)
ReleasedAfterTrack(s) == NoSender
HolderAfterTrack(s) == s

(* OutgoingBuffer::track and the increment of the number, or the decision   *)
(* to wait for room.                                                        *)
Track(s) ==
    /\ pc[s] = "track"
    /\ IF HasRoom
         THEN /\ outgoing' = Append(outgoing,
                    [seq |-> msg[s].seq, data |-> msg[s].data, attempts |-> 1])
              /\ sequence' = NextNumber
              /\ holder' = HolderAfterTrack(s)
              /\ submitted' = Append(submitted, msg[s].data)
              /\ ackWaiters' = ackWaiters \ {s}
              /\ pc' = [pc EXCEPT ![s] = "write"]
         ELSE /\ pc' = [pc EXCEPT ![s] = "parked"]
              /\ UNCHANGED <<continuity, submitted, ackWaiters>>
    /\ UNCHANGED <<stalled, channel, open, reason, writer, resend, notifying, msg,
                   agentVars>>

(* The future fired: go round the loop with a fresh one.                    *)
Wake(s) ==
    /\ pc[s] = "parked"
    /\ ~Closed(s[1])
    /\ s \notin ackWaiters
    /\ ackWaiters' = ackWaiters \cup {s}
    /\ pc' = [pc EXCEPT ![s] = "track"]
    /\ UNCHANGED <<continuity, stalled, channel, open, reason, writer, resend,
                   notifying, msg, agentVars, submitted>>

(* send_payload returns, dropping the guard.  Ok leaves the task running;   *)
(* an error ends it.                                                        *)
Return(s, next) ==
    /\ holder' = NoSender
    /\ pc' = [pc EXCEPT ![s] = next]
    /\ msg' = [msg EXCEPT ![s] = NoMessage]

(* A parked sender sees the close and returns an error.                     *)
ParkedClosed(s) ==
    /\ pc[s] = "parked"
    /\ Closed(s[1])
    /\ Return(s, "exited")
    /\ ackWaiters' = ackWaiters \ {s}
    /\ UNCHANGED <<sequence, outgoing, stalled, channel, open, reason, writer, resend,
                   notifying, agentVars, submitted>>

(* ChannelState::write: wait for room in the writer queue.                  *)
Write(s) ==
    /\ pc[s] = "write"
    /\ ~Closed(s[1])
    /\ Len(writer) < WriterDepth
    /\ writer' = Append(writer, msg[s])
    /\ Return(s, "idle")
    /\ UNCHANGED <<sequence, outgoing, stalled, channel, open, reason, resend,
                   notifying, ackWaiters, agentVars, submitted>>

(* write is not raced against the close.  Until the writer task of a       *)
(* closed channel has returned, its queue still takes a frame that nobody   *)
(* will read, or has no room for it and the sender waits on.  (That queue   *)
(* is not kept, so whether it has room is left open.)                       *)
WriteUnread(s) ==
    /\ pc[s] = "write"
    /\ Closed(s[1])
    /\ Return(s, "idle")
    /\ UNCHANGED <<sequence, outgoing, channelVars, agentVars, submitted>>

(* When the writer task of a closed channel has returned.  It looks at the  *)
(* close only between two frames, and neither sink.send nor the last        *)
(* sink.close is raced against it: not on a stalled socket, unless it is    *)
(* aborted with the replaced Session.                                       *)
WriterGone(c) == Closed(c) /\ (c \in stalled => c < channel)

(* The queue of a writer task that has returned refuses the frame.          *)
WriteRefused(s) ==
    /\ pc[s] = "write"
    /\ WriterGone(s[1])
    /\ Return(s, "exited")
    /\ UNCHANGED <<sequence, outgoing, channelVars, agentVars, submitted>>

(* A task between two sends sees the close and ends.                        *)
Exit(s) ==
    /\ pc[s] = "idle"
    /\ s[1] <= channel /\ Closed(s[1])
    /\ pc' = [pc EXCEPT ![s] = "exited"]
    /\ UNCHANGED <<continuity, channelVars, msg, agentVars, submitted>>

(* Dropping the replaced Session aborts its tasks wherever they wait; a     *)
(* task that held the mutex releases it.                                    *)
Abort(s) ==
    /\ s[1] < channel
    /\ pc[s] \in {"queued", "parked", "write"}
    /\ holder' = IF holder = s THEN NoSender ELSE holder
    /\ pc' = [pc EXCEPT ![s] = "exited"]
    /\ msg' = [msg EXCEPT ![s] = NoMessage]
    /\ ackWaiters' = ackWaiters \ {s}
    /\ UNCHANGED <<sequence, outgoing, stalled, channel, open, reason, writer, resend,
                   notifying, agentVars, submitted>>

-----------------------------------------------------------------------------
(* Closing and resuming a channel                                           *)

(* The futures notify_waiters completes.  Mutant: none.                     *)
WokenNone == {}
Woken == {s \in ackWaiters : s[1] = channel}

(* SessionCore::close and its effect on the channel's tasks: the queues die *)
(* with their readers, and everyone parked for an acknowledgement is woken. *)
(* What the socket has already taken may still reach the agent.             *)
Close(why) ==
    /\ open
    /\ open' = FALSE
    /\ reason' = why
    /\ writer' = <<>>
    /\ resend' = NoMessage
    /\ notifying' = FALSE
    /\ ackWaiters' = ackWaiters \ Woken
    /\ acks' = <<>>
    /\ UNCHANGED <<stalled, channel>>

(* The socket fails, or nothing is heard from the gateway any more.         *)
TransportFails ==
    /\ Close("Transport")
    /\ UNCHANGED <<continuity, senderVars, toAgent, held, delivered, submitted>>

(* The agent, the application or a protocol violation ends the session.     *)
SessionEnds ==
    /\ Close("Ended")
    /\ UNCHANGED <<continuity, senderVars, toAgent, held, delivered, submitted>>

(* A sender that can only be released by others: for room in the outgoing   *)
(* buffer, or for room in the writer queue behind a full socket.            *)
Stuck(s) ==
    \/ pc[s] = "parked" /\ s \in ackWaiters
    \/ /\ pc[s] = "write" /\ Len(writer) >= WriterDepth
       /\ Len(toAgent) >= WireDepth \/ channel \in stalled

(* While the reader is stuck, or waits for the mutex behind a sender that   *)
(* is, it reads nothing, so the idle time the heartbeat measures grows past *)
(* idle_timeout whatever the gateway sends.                                 *)
HeartbeatClose ==
    /\ Stuck(Reader) \/ (pc[Reader] = "queued" /\ holder # NoSender /\ Stuck(holder))
    /\ Close("PeerUnresponsive")
    /\ UNCHANGED <<continuity, senderVars, toAgent, held, delivered, submitted>>

(* The backlog a resumed channel inherits.  Mutant: OutgoingBuffer::clear.  *)
ClearedBacklog == <<>>
Backlog == outgoing

(* ssm:ResumeSession: a new channel over the same Continuity.               *)
Resume ==
    /\ ~open
    /\ reason \in Resumable
    /\ channel < MaxChannels
    /\ channel' = channel + 1
    /\ open' = TRUE
    /\ reason' = "None"
    /\ toAgent' = <<>>
    /\ outgoing' = Backlog
    /\ UNCHANGED <<sequence, holder, stalled, writer, resend, notifying, ackWaiters,
                   senderVars, acks, held, delivered, submitted>>
-----------------------------------------------------------------------------
(* The writer, retransmission and reader tasks                              *)

(* writer_task: one frame from the queue to the socket.                     *)
WriterTask ==
    /\ open
    /\ channel \notin stalled
    /\ writer # <<>>
    /\ Len(toAgent) < WireDepth
    /\ toAgent' = Append(toAgent, Head(writer))
    /\ writer' = Tail(writer)
    /\ UNCHANGED <<continuity, stalled, channel, open, reason, resend, notifying,
                   ackWaiters, senderVars, acks, held, delivered, submitted>>

(* The peer stops reading, or the path is dead and nobody has noticed.      *)
SocketStalls ==
    /\ channel \notin stalled
    /\ Cardinality(stalled) < MaxStalls
    /\ stalled' = stalled \cup {channel}
    /\ UNCHANGED <<continuity, channel, open, reason, writer, resend, notifying,
                   ackWaiters, senderVars, agentVars, submitted>>

(* poll_retransmit when the head of the buffer is overdue and has           *)
(* transmissions left: count one more and take its bytes.                   *)
PollResend ==
    /\ open
    /\ resend = NoMessage
    /\ outgoing # <<>>
    /\ Head(outgoing).attempts < MaxAttempts
    /\ outgoing' = [outgoing EXCEPT ![1].attempts = @ + 1]
    /\ resend' = [seq |-> Head(outgoing).seq, data |-> Head(outgoing).data]
    /\ UNCHANGED <<sequence, holder, stalled, channel, open, reason, writer, notifying,
                   ackWaiters, senderVars, agentVars, submitted>>

(* poll_retransmit when the head has none left: the session is given up.    *)
PollGaveUp ==
    /\ resend = NoMessage
    /\ outgoing # <<>>
    /\ Head(outgoing).attempts >= MaxAttempts
    /\ Close("DeliveryFailed")
    /\ UNCHANGED <<continuity, senderVars, toAgent, held, delivered, submitted>>

(* retransmit_task: wait for room in the writer queue.                      *)
RetransmitWrite ==
    /\ open
    /\ resend # NoMessage
    /\ Len(writer) < WriterDepth
    /\ writer' = Append(writer, resend)
    /\ resend' = NoMessage
    /\ UNCHANGED <<continuity, stalled, channel, open, reason, notifying, ackWaiters,
                   senderVars, agentVars, submitted>>

(* VecDeque::remove.                                                        *)
Remove(q, i) == SubSeq(q, 1, i - 1) \o SubSeq(q, i + 1, Len(q))

(* The buffer without entry i.  Mutant: without all entries up to i.        *)
RetiredUpTo(i) == SubSeq(outgoing, i + 1, Len(outgoing))
Retired(i) == Remove(outgoing, i)

(* The reader takes an acknowledgement: OutgoingBuffer::acknowledge retires *)
(* the message wherever it is in the buffer.  An unknown number is ignored. *)
ReaderAck ==
    /\ open
    /\ pc[Reader] = "idle"
    /\ ~notifying
    /\ acks # <<>>
    /\ acks' = Tail(acks)
    /\ \/ \E i \in DOMAIN outgoing :
            /\ outgoing[i].seq = Head(acks)
            /\ \A j \in 1..(i - 1) : outgoing[j].seq # Head(acks)
            /\ outgoing' = Retired(i)
            /\ notifying' = TRUE
       \/ Head(acks) \notin Tracked /\ UNCHANGED <<outgoing, notifying>>
    /\ UNCHANGED <<sequence, holder, stalled, channel, open, reason, writer, resend,
                   ackWaiters, senderVars, toAgent, held, delivered, submitted>>

(* notify_ack wakes every future enqueued on this channel.                  *)
NotifyAck ==
    /\ notifying
    /\ notifying' = FALSE
    /\ ackWaiters' = ackWaiters \ Woken
    /\ UNCHANGED <<continuity, stalled, channel, open, reason, writer, resend,
                   senderVars, agentVars, submitted>>

-----------------------------------------------------------------------------
(* The agent (external): it may drop a message without acknowledging it,    *)
(* acknowledges every copy it takes, keeps what arrives early, and          *)
(* processes the stream strictly in order.                                  *)

AgentTakes ==
    /\ toAgent # <<>>
    /\ Len(acks) < WireDepth
    /\ toAgent' = Tail(toAgent)
    /\ held' = IF Head(toAgent).seq < Len(delivered)
                 THEN held ELSE held \cup {Head(toAgent)}
    /\ acks' = IF open THEN Append(acks, Head(toAgent).seq) ELSE acks
    /\ UNCHANGED <<continuity, channelVars, senderVars, delivered, submitted>>

AgentDrops ==
    /\ toAgent # <<>>
    /\ toAgent' = Tail(toAgent)
    /\ UNCHANGED <<continuity, channelVars, senderVars, acks, held, delivered,
                   submitted>>

AgentProcesses ==
    \E m \in held :
        /\ m.seq = Len(delivered)
        /\ delivered' = Append(delivered, m.data)
        /\ held' = held \ {m}
        /\ UNCHANGED <<continuity, channelVars, senderVars, toAgent, acks,
                       submitted>>

-----------------------------------------------------------------------------
SenderNext(s) ==
    \/ \E d \in Data : SendPayload(s, d)
    \/ Acquire(s) \/ Track(s) \/ Wake(s) \/ ParkedClosed(s)
    \/ Write(s) \/ WriteUnread(s) \/ WriteRefused(s) \/ Exit(s) \/ Abort(s)

Next ==
    \/ \E s \in Senders : SenderNext(s)
    \/ TransportFails \/ SessionEnds \/ HeartbeatClose \/ Resume
    \/ SocketStalls \/ WriterTask \/ PollResend \/ PollGaveUp \/ RetransmitWrite
    \/ ReaderAck \/ NotifyAck
    \/ AgentTakes \/ AgentDrops \/ AgentProcesses

Spec == Init /\ [][Next]_vars

(* Every task is polled as long as it can move.  The mutex and the writer   *)
(* queue are FIFO among their waiters, hence the strong fairness there.     *)
(* The agent does not drop every copy.  Nothing forces a new send, a socket *)
(* failure or a drop.                                                       *)
Fairness ==
    /\ \A s \in Senders :
        /\ SF_vars(Acquire(s) \/ Write(s))
        /\ WF_vars(Track(s) \/ Wake(s) \/ ParkedClosed(s) \/ WriteRefused(s) \/ Abort(s))
    /\ WF_vars(HeartbeatClose) /\ WF_vars(Resume)
    /\ WF_vars(WriterTask) /\ WF_vars(PollResend \/ PollGaveUp)
    /\ SF_vars(RetransmitWrite) /\ WF_vars(ReaderAck \/ NotifyAck)
    /\ SF_vars(AgentTakes) /\ WF_vars(AgentProcesses)

FairSpec == Spec /\ Fairness

-----------------------------------------------------------------------------
(* Properties                                                               *)

(* A number below the counter belongs to a message that the outgoing buffer *)
(* still tracks or that the agent has: send_payload, a full buffer, a close *)
(* at any point, an aborted task and a resume never lose one in between.    *)
(* (OutgoingBuffer::track refusing instead of evicting, Continuity carried  *)
(* over.)                                                                   *)
NothingLost ==
    \A n \in 0..(sequence - 1) :
        n \in Tracked \/ n < Len(delivered) \/ \E m \in held : m.seq = n

(* The buffer is ordered oldest first, without a number twice, so the head  *)
(* that poll_retransmit resends is the message the agent waits for.         *)
OldestFirst ==
    \A i, j \in DOMAIN outgoing : i < j => outgoing[i].seq < outgoing[j].seq

(* A number is never issued while the message of an earlier one has not     *)
(* reached the writer queue: the lock is held over the enqueue, so first    *)
(* transmissions reach the socket in order.                                 *)
NumberedIsWrittenFirst ==
    \A s \in Senders : pc[s] = "write" => msg[s].seq = sequence - 1

(* The messages the agent processes are the ones the senders numbered, in   *)
(* that order and once each, whatever was resent, dropped or resumed.       *)
Stream == INSTANCE ReliableStream
ReliableInOrder == Stream!Spec

(* The socket in use does not stay stalled: it moves again or the channel   *)
(* is lost and another one resumed.                                         *)
SocketMoves == []<>(channel \notin stalled)

(* Every call of send_payload returns: the wait for room ends with an       *)
(* acknowledgement or a close, also when the reader itself is the one       *)
(* waiting for acknowledgements only it can read; and a sender that hangs   *)
(* with the mutex in the write to a stalled socket lets the resumed channel *)
(* go on.  With the last socket stalled for good nothing releases it: the   *)
(* write is not raced against the close.                                    *)
SendReturns ==
    SocketMoves =>
        \A s \in Senders :
            pc[s] \in Unnumbered \cup {"write"} ~> pc[s] \in {"idle", "exited"}

(* The session is over: no channel will follow this one.                    *)
Over == ~open /\ (reason \in Final \/ channel = MaxChannels)

(* A numbered message reaches the agent's process, through retransmission,  *)
(* resumption and a stalled channel before this one, unless the session     *)
(* ends.                                                                    *)
EventuallyDelivered ==
    SocketMoves =>
        \A n \in 1..MaxMessages :
            Len(submitted) >= n ~> (Len(delivered) >= n \/ Over)
=============================================================================
