--------------------------- MODULE OutboundProofs ---------------------------
(***************************************************************************)
(* Proofs about Outbound and OutboundRtt, for every value of their         *)
(* constants.  The inductive invariant of Outbound comes in layers, each   *)
(* proved with the help of the ones below: types, the sequence mutex and   *)
(* who waits for it, the messages in flight, and what the agent has.       *)
(***************************************************************************)
EXTENDS OutboundRtt, SequenceTheorems, TLAPS

(* Sequences: what the proofs of the buffers need                           *)

(* Remove, as OutgoingBuffer::acknowledge uses it: one entry less, the      *)
(* others in their order.                                                   *)
LEMMA RemoveProperties ==
    ASSUME NEW S, NEW q \in Seq(S), NEW i \in 1..Len(q)
    PROVE  /\ Remove(q, i) \in Seq(S)
           /\ Len(Remove(q, i)) = Len(q) - 1
           /\ \A j \in 1..(Len(q) - 1) :
                Remove(q, i)[j] = IF j < i THEN q[j] ELSE q[j + 1]
<1> DEFINE a == SubSeq(q, 1, i - 1)
           b == SubSeq(q, i + 1, Len(q))
<1>0. Len(q) \in Nat /\ i \in Nat /\ \A j \in 1..Len(q) : q[j] \in S
    BY LenProperties
<1>1. /\ a \in Seq(S)
      /\ Len(a) = i - 1
      /\ \A j \in 1..(i - 1) : a[j] = q[j]
  <2>1. \A j \in 1..(i - 1) : q[j] \in S
    BY <1>0
  <2>2. /\ a \in Seq(S)
        /\ Len(a) = IF 1 <= i - 1 THEN (i - 1) - 1 + 1 ELSE 0
        /\ \A j \in 1..((i - 1) - 1 + 1) : a[j] = q[1 + j - 1]
    BY <1>0, <2>1, SubSeqProperties
  <2> QED
    BY <1>0, <2>2
<1>2. /\ b \in Seq(S)
      /\ Len(b) = Len(q) - i
      /\ \A j \in 1..(Len(q) - i) : b[j] = q[i + j]
  <2>1. \A j \in (i + 1)..Len(q) : q[j] \in S
    BY <1>0
  <2>2. /\ b \in Seq(S)
        /\ Len(b) = IF i + 1 <= Len(q) THEN Len(q) - (i + 1) + 1 ELSE 0
        /\ \A j \in 1..(Len(q) - (i + 1) + 1) : b[j] = q[(i + 1) + j - 1]
    BY <1>0, <2>1, SubSeqProperties
  <2> QED
    BY <1>0, <2>2
<1>3. /\ a \o b \in Seq(S)
      /\ Len(a \o b) = Len(a) + Len(b)
      /\ \A j \in 1..(Len(a) + Len(b)) :
            (a \o b)[j] = IF j <= Len(a) THEN a[j] ELSE b[j - Len(a)]
    BY <1>1, <1>2, ConcatProperties, Zenon
<1>4. Remove(q, i) = a \o b
    BY Zenon DEF Remove
<1> HIDE DEF a, b
<1>5. Len(a) + Len(b) = Len(q) - 1
    BY <1>0, <1>1, <1>2
<1>6. ASSUME NEW j \in 1..(Len(q) - 1)
      PROVE  (a \o b)[j] = IF j < i THEN q[j] ELSE q[j + 1]
  <2>1. (a \o b)[j] = IF j <= i - 1 THEN a[j] ELSE b[j - (i - 1)]
    BY <1>1, <1>3, <1>5, SMTT(60)
  <2>2. CASE j < i
    BY <1>0, <1>1, <2>1, <2>2
  <2>3. CASE j >= i
    BY <1>0, <1>2, <2>1, <2>3, SMTT(60)
  <2>4. j < i \/ j >= i
    BY <1>0
  <2> QED
    BY <2>2, <2>3, <2>4, Zenon
<1> QED
    BY <1>3, <1>4, <1>5, <1>6, Zenon

(* The same over DOMAIN: where entry j was, that the entries keep their     *)
(* order, and that only entry i is gone.                                    *)
Before(i, j) == IF j < i THEN j ELSE j + 1

(* What an acknowledged entry leaves behind: every other entry, in the old  *)
(* order.                                                                   *)
LEMMA RemoveOrder ==
    ASSUME NEW S, NEW q \in Seq(S), NEW i \in DOMAIN q, NEW r, r = Remove(q, i)
    PROVE  /\ \A j \in DOMAIN r : Before(i, j) \in DOMAIN q /\ r[j] = q[Before(i, j)]
           /\ \A j, k \in DOMAIN r : j < k => Before(i, j) < Before(i, k)
           /\ \A k \in DOMAIN q : k # i => \E j \in DOMAIN r : r[j] = q[k]
<1> DEFINE n == Len(q)
<1>1. n \in Nat /\ DOMAIN q = 1..n /\ i \in 1..n
    BY LenProperties, SMTT(60)
<1>2. /\ r \in Seq(S) /\ Len(r) = n - 1
      /\ \A j \in 1..(n - 1) : r[j] = IF j < i THEN q[j] ELSE q[j + 1]
    BY <1>1, RemoveProperties, Zenon
<1>3. DOMAIN r = 1..(n - 1)
    BY <1>2, LenProperties, Zenon
<1> HIDE DEF n
<1>4. \A j \in 1..(n - 1) : Before(i, j) \in 1..n /\ r[j] = q[Before(i, j)]
    BY <1>1, <1>2 DEF Before
<1>5. \A j, k \in 1..(n - 1) : j < k => Before(i, j) < Before(i, k)
    BY <1>1 DEF Before
<1>6. ASSUME NEW k \in 1..n, k # i PROVE \E j \in 1..(n - 1) : r[j] = q[k]
  <2>1. CASE k < i
    BY <1>1, <1>2, <2>1
  <2>2. CASE k > i
    <3>1. k - 1 \in 1..(n - 1) /\ r[k - 1] = q[k]
        BY <1>1, <1>2, <2>2
    <3> QED
        BY <3>1, Zenon
  <2>3. k < i \/ k > i
    BY <1>1, <1>6
  <2> QED
    BY <2>1, <2>2, <2>3, Zenon
<1> QED
    BY <1>1, <1>3, <1>4, <1>5, <1>6, Zenon

(* An appended queue holds what it held and the new element.                *)
LEMMA AppendElements ==
    ASSUME NEW S, NEW q \in Seq(S), NEW e \in S, NEW r, r = Append(q, e)
    PROVE  \A i \in DOMAIN r : r[i] = e \/ (i \in DOMAIN q /\ r[i] = q[i])
<1>1. Len(q) \in Nat /\ DOMAIN q = 1..Len(q)
    BY LenProperties, Zenon
<1>2. /\ DOMAIN r = 1..(Len(q) + 1)
      /\ \A i \in 1..Len(q) : r[i] = q[i]
      /\ r[Len(q) + 1] = e
    BY <1>1, AppendProperties, LenProperties
<1>3. ASSUME NEW i \in 1..(Len(q) + 1)
      PROVE  r[i] = e \/ (i \in 1..Len(q) /\ r[i] = q[i])
  <2>1. i \in 1..Len(q) \/ i = Len(q) + 1
    BY <1>1
  <2> QED
    BY <1>2, <2>1, Zenon
<1> QED
    BY <1>1, <1>2, <1>3, Zenon

(* What is taken from the head of a queue leaves only what was in it.       *)
LEMMA TailProperties ==
    ASSUME NEW S, NEW q \in Seq(S), q # <<>>
    PROVE  /\ Head(q) \in S
           /\ Head(q) = q[1]
           /\ 1 \in DOMAIN q
           /\ Tail(q) \in Seq(S)
           /\ Len(Tail(q)) = Len(q) - 1
           /\ \A i \in DOMAIN Tail(q) : i + 1 \in DOMAIN q /\ Tail(q)[i] = q[i + 1]
    OBVIOUS

-----------------------------------------------------------------------------
(* Types                                                                    *)

Busy == {"queued", "track", "parked", "write"}

(* Layer 1: types, and a task inside send_payload has a message.            *)
TypeInv ==
    /\ TypeOK
    /\ \A s \in Senders : pc[s] \in Busy => msg[s] \in Message

(* The attempt that poll_retransmit counts changes nothing else.            *)
LEMMA BumpProperties ==
    ASSUME NEW q \in Seq(Pending), q # <<>>, q[1].attempts < MaxAttempts
    PROVE  LET r == [q EXCEPT ![1].attempts = @ + 1] IN
           /\ r \in Seq(Pending)
           /\ Len(r) = Len(q)
           /\ DOMAIN r = DOMAIN q
           /\ \A i \in DOMAIN q : r[i].seq = q[i].seq /\ r[i].data = q[i].data
<1> DEFINE r == [q EXCEPT ![1].attempts = @ + 1]
           e == [q[1] EXCEPT !.attempts = @ + 1]
<1>1. Len(q) \in Nat /\ 1 \in 1..Len(q) /\ q[1] \in Pending /\ DOMAIN q = 1..Len(q)
    BY LenProperties, SMTT(60)
<1>2. e \in Pending /\ e.seq = q[1].seq /\ e.data = q[1].data
  <2>1. q[1].attempts + 1 \in 1..MaxAttempts
    BY <1>1, OutboundAssumption, SMTT(60) DEF Pending
  <2>2. \A p \in Pending, n \in 1..MaxAttempts :
            LET b == [p EXCEPT !.attempts = n]
            IN  b \in Pending /\ b.seq = p.seq /\ b.data = p.data
    BY SMTT(60) DEF Pending
  <2> QED
    BY <1>1, <2>1, <2>2, Zenon
<1>3. r = [q EXCEPT ![1] = e]
    OBVIOUS
<1> HIDE DEF e
<1>4. /\ r \in Seq(Pending) /\ Len(r) = Len(q)
      /\ \A j \in 1..Len(q) : r[j] = IF j = 1 THEN e ELSE q[j]
    BY <1>1, <1>2, <1>3, ExceptSeq
<1> QED
    BY <1>1, <1>2, <1>4, LenProperties, Zenon


(* The initial state of a fresh Continuity is well typed.                   *)
LEMMA TypeInit == Init => TypeInv
<1> SUFFICES ASSUME Init PROVE TypeInv
    OBVIOUS
<1>1. 1 \in Channels /\ 0 <= Capacity /\ 0 <= WriterDepth
    BY OutboundAssumption DEF Channels
<1>2. \A s \in Senders : pc[s] = "idle" /\ msg[s] = NoMessage
    BY Zenon DEF Init
<1>3. /\ pc \in [Senders -> {"idle", "queued", "track", "parked", "write", "exited"}]
      /\ msg \in [Senders -> Message \cup {NoMessage}]
    BY Zenon DEF Init
<1>4. /\ outgoing \in Seq(Pending) /\ Len(outgoing) <= Capacity
      /\ writer \in Seq(Message) /\ Len(writer) <= WriterDepth
      /\ toAgent \in Seq(Message) /\ acks \in Seq(Nat)
      /\ delivered \in Seq(Data) /\ submitted \in Seq(Data)
    BY <1>1 DEF Init
<1>5. /\ sequence \in Nat /\ holder \in Senders \cup {NoSender}
      /\ channel \in Channels /\ open \in BOOLEAN /\ reason \in Reasons
      /\ resend \in Message \cup {NoMessage} /\ notifying \in BOOLEAN
      /\ ackWaiters \in SUBSET Senders /\ held \in SUBSET Message
      /\ stalled \in SUBSET Channels
    BY <1>1, Zenon DEF Init, Reasons
<1> QED
    BY <1>2, <1>3, <1>4, <1>5, Zenon DEF TypeInv, TypeOK, Busy

(* Every step of send_payload keeps the types.                              *)
LEMMA TypeSender ==
    ASSUME TypeInv, NEW s \in Senders, SenderNext(s)
    PROVE  TypeInv'
<1> USE DEF TypeInv, TypeOK, Busy, continuity, channelVars, senderVars, agentVars
<1>1. ASSUME NEW d \in Data, SendPayload(s, d) PROVE TypeInv'
    BY <1>1, SMTT(120) DEF SendPayload, Message
<1>2. CASE Acquire(s)
    BY <1>2, Zenon DEF Acquire, Message
<1>3. CASE Track(s)
  <2>1. CASE HasRoom
    <3> DEFINE e == [seq |-> msg[s].seq, data |-> msg[s].data, attempts |-> 1]
    <3>1. msg[s] \in Message /\ e \in Pending
        BY <1>3, OutboundAssumption, SMTT(120) DEF Track, Message, Pending
    <3>2. /\ Append(outgoing, e) \in Seq(Pending)
          /\ Len(Append(outgoing, e)) = Len(outgoing) + 1
        BY <3>1, AppendProperties, SMTT(60)
    <3>3. outgoing' \in Seq(Pending) /\ Len(outgoing') <= Capacity
      <4>1. outgoing' = Append(outgoing, e) /\ Len(outgoing) < Capacity
        BY <1>3, <2>1, SMTT(60) DEF Track, HasRoom
      <4> HIDE DEF e
      <4> QED
        BY <3>2, <4>1, OutboundAssumption, SMTT(60)
    <3>4. submitted' \in Seq(Data)
      <4>1. submitted' = Append(submitted, msg[s].data) /\ msg[s].data \in Data
        BY <1>3, <2>1, <3>1, SMTT(60) DEF Track, HasRoom, Message
      <4> QED
        BY <4>1, AppendProperties, SMTT(60)
    <3>5. holder' = s /\ sequence' \in Nat
        BY <1>3, <2>1, SMTT(60) DEF Track, HasRoom, HolderAfterTrack, NextNumber
    <3> QED
        BY <1>3, <2>1, <3>3, <3>4, <3>5, Zenon DEF Track, HasRoom
  <2>2. CASE ~HasRoom
    BY <1>3, <2>2, Zenon DEF Track
  <2> QED
    BY <2>1, <2>2, SMTT(120)
<1>4. CASE Wake(s)
    BY <1>4, SMTT(60) DEF Wake
<1>5. CASE ParkedClosed(s)
    BY <1>5, Zenon DEF ParkedClosed, Return
<1>6. CASE Write(s)
  <2>1. msg[s] \in Message
    BY <1>6, SMTT(60) DEF Write
  <2>2. writer' \in Seq(Message) /\ Len(writer') <= WriterDepth
    BY <1>6, <2>1, AppendProperties, OutboundAssumption DEF Write
  <2> QED
    BY <1>6, <2>2, Zenon DEF Write, Return
<1>7. CASE WriteUnread(s) \/ WriteRefused(s)
    BY <1>7, Zenon DEF WriteUnread, WriteRefused, Return
<1>8. CASE Exit(s)
    BY <1>8, Zenon DEF Exit
<1>9. CASE Abort(s)
    BY <1>9, Zenon DEF Abort
<1> QED
    BY <1>1, <1>2, <1>3, <1>4, <1>5, <1>6, <1>7, <1>8, <1>9, Zenon DEF SenderNext

(* Every step of the other tasks and of the agent keeps the types.          *)
LEMMA TypeStep == TypeInv /\ [Next]_vars => TypeInv'
<1> SUFFICES ASSUME TypeInv, [Next]_vars PROVE TypeInv'
    BY SMTT(120)
<1> USE DEF TypeInv, TypeOK, continuity, channelVars, senderVars, agentVars
<1>0. ASSUME NEW s \in Senders, SenderNext(s) PROVE TypeInv'
    BY <1>0, TypeSender, SMTT(60)
<1>1. ASSUME NEW why \in Reasons, Close(why),
             UNCHANGED <<continuity, senderVars, toAgent, held, delivered, submitted>>
      PROVE  TypeInv'
  <2>1. /\ writer' \in Seq(Message) /\ Len(writer') <= WriterDepth
        /\ acks' \in Seq(Nat)
    BY <1>1, OutboundAssumption, SMTT(60) DEF Close
  <2>2. /\ open' \in BOOLEAN /\ reason' \in Reasons /\ notifying' \in BOOLEAN
        /\ resend' \in Message \cup {NoMessage}
        /\ ackWaiters' \in SUBSET Senders /\ channel' \in Channels
    BY <1>1, Zenon DEF Close
  <2> QED
    BY <1>1, <2>1, <2>2, Zenon DEF Close
<1>2. CASE TransportFails
    BY <1>1, <1>2, SMTT(60) DEF TransportFails, Reasons, Resumable
<1>3. CASE SessionEnds
    BY <1>1, <1>3, SMTT(60) DEF SessionEnds, Reasons, Final
<1>4. CASE HeartbeatClose
    BY <1>1, <1>4, SMTT(60) DEF HeartbeatClose, Reasons, Resumable
<1>5. CASE PollGaveUp
    BY <1>1, <1>5, SMTT(60) DEF PollGaveUp, Reasons, Final
<1>6. CASE Resume
    BY <1>6, OutboundAssumption, SMTT(60) DEF Resume, Backlog, Channels, Reasons
<1>7. CASE WriterTask
  <2>1. /\ Head(writer) \in Message /\ Tail(writer) \in Seq(Message)
        /\ Len(Tail(writer)) = Len(writer) - 1
    BY <1>7, TailProperties, SMTT(60) DEF WriterTask
  <2>2. toAgent' \in Seq(Message)
    BY <1>7, <2>1, AppendProperties, SMTT(60) DEF WriterTask
  <2> QED
    BY <1>7, <2>1, <2>2, OutboundAssumption, SMTT(60) DEF WriterTask
<1>8. CASE PollResend
  <2>1. outgoing[1] \in Pending /\ Head(outgoing) = outgoing[1]
    BY <1>8, TailProperties, SMTT(60) DEF PollResend
  <2>2. outgoing' \in Seq(Pending) /\ Len(outgoing') = Len(outgoing)
    BY <1>8, <2>1, BumpProperties, Zenon DEF PollResend
  <2>3. resend' \in Message
    BY <1>8, <2>1, SMTT(120) DEF PollResend, Pending, Message
  <2> QED
    BY <1>8, <2>2, <2>3, SMTT(60) DEF PollResend
<1>9. CASE RetransmitWrite
  <2>1. writer' \in Seq(Message) /\ Len(writer') <= WriterDepth
    BY <1>9, AppendProperties, OutboundAssumption, SMTT(60) DEF RetransmitWrite
  <2> QED
    BY <1>9, <2>1, SMTT(60) DEF RetransmitWrite
<1>10. CASE ReaderAck
  <2>1. acks' \in Seq(Nat)
    BY <1>10, TailProperties, SMTT(60) DEF ReaderAck
  <2>2. ASSUME NEW i \in DOMAIN outgoing, outgoing' = Retired(i), notifying' = TRUE
        PROVE  outgoing' \in Seq(Pending) /\ Len(outgoing') <= Capacity /\ notifying' \in BOOLEAN
    <3>1. i \in 1..Len(outgoing) /\ Len(outgoing) \in Nat
        BY <2>2, LenProperties, SMTT(60)
    <3>2. /\ Remove(outgoing, i) \in Seq(Pending)
          /\ Len(Remove(outgoing, i)) = Len(outgoing) - 1
        BY <3>1, RemoveProperties, SMTT(60)
    <3> QED
        BY <2>2, <3>1, <3>2, OutboundAssumption, SMTT(60) DEF Retired
  <2>3. outgoing' \in Seq(Pending) /\ Len(outgoing') <= Capacity /\ notifying' \in BOOLEAN
    BY <1>10, <2>2, Zenon DEF ReaderAck
  <2> QED
    BY <1>10, <2>1, <2>3, SMTT(60) DEF ReaderAck
<1>11. CASE NotifyAck
    BY <1>11, Zenon DEF NotifyAck
<1>12. CASE AgentTakes
  <2>1. Head(toAgent) \in Message /\ Tail(toAgent) \in Seq(Message)
    BY <1>12, TailProperties, SMTT(60) DEF AgentTakes
  <2>2. Head(toAgent).seq \in Nat
    BY <2>1, SMTT(60) DEF Message
  <2>3. acks' \in Seq(Nat)
    BY <1>12, <2>2, AppendProperties, SMTT(60) DEF AgentTakes
  <2> QED
    BY <1>12, <2>1, <2>3, SMTT(60) DEF AgentTakes
<1>13. CASE AgentDrops
    BY <1>13, TailProperties, SMTT(60) DEF AgentDrops
<1>14. CASE AgentProcesses
  <2>1. delivered' \in Seq(Data)
    BY <1>14, AppendProperties, SMTT(60) DEF AgentProcesses, Message
  <2> QED
    BY <1>14, <2>1, SMTT(60) DEF AgentProcesses
<1>15. CASE SocketStalls
    BY <1>15, Zenon DEF SocketStalls
<1>16. CASE UNCHANGED vars
    BY <1>16, SMTT(60) DEF vars
<1> QED
    BY <1>0, <1>2, <1>3, <1>4, <1>5, <1>6, <1>7, <1>8, <1>9, <1>10, <1>11,
       <1>12, <1>13, <1>14, <1>15, <1>16, Zenon DEF Next

(* A task inside send_payload always has the message it is sending.         *)
THEOREM TypeInvHolds == Spec => []TypeInv
    BY TypeInit, TypeStep, PTL DEF Spec

(* The variables keep their types; in particular the outgoing buffer never  *)
(* holds more than MESSAGE_BUFFER_CAPACITY messages and the writer queue    *)
(* never more than WRITER_QUEUE_DEPTH, resumed channels included.           *)
THEOREM TypeCorrect == Spec => []TypeOK
    BY TypeInvHolds, PTL DEF TypeInv

-----------------------------------------------------------------------------
(* Order: numbers are given and written in order, and what is in flight is  *)
(* what the caller submitted                                                *)

(* Layer 2: the sequence mutex.  It is held from the grant to the enqueue,  *)
(* the number on a message waiting for room is still the next one, and the  *)
(* number on a message waiting to be enqueued is the last one issued.       *)

InLock == {"track", "parked", "write"}

LockInv ==
    /\ \A s \in Senders : pc[s] \in InLock <=> holder = s
    /\ \A s \in Senders : pc[s] \in {"track", "parked"} => msg[s].seq = sequence
    /\ sequence = Len(submitted)
    /\ NumberedIsWrittenFirst

(* A fresh Continuity: the mutex is free and nothing is numbered.           *)
LEMMA LockInit == Init => LockInv
    BY OutboundAssumption, Zenon
    DEF Init, LockInv, InLock, NumberedIsWrittenFirst, Senders, Channels

(* Only send_payload touches the mutex and the counter.                     *)
LEMMA LockSender ==
    ASSUME TypeInv, LockInv, NEW s \in Senders, SenderNext(s)
    PROVE  LockInv'
<1> USE DEF TypeInv, TypeOK, LockInv, InLock, NumberedIsWrittenFirst,
            continuity, channelVars, senderVars, agentVars
<1>0. NoSender \notin Senders
    BY OutboundAssumption, SMTT(120) DEF Senders, Channels
<1>1. ASSUME NEW d \in Data, SendPayload(s, d) PROVE LockInv'
    BY <1>1, SMTT(60) DEF SendPayload
<1>2. CASE Acquire(s)
  <2>1. msg[s] \in Message
    BY <1>2, SMTT(60) DEF Acquire, Busy
  <2>2. msg'[s].seq = sequence /\ \A t \in Senders \ {s} : msg'[t] = msg[t]
    BY <1>2, <2>1, Zenon DEF Acquire, Message
  <2> QED
    BY <1>0, <1>2, <2>2, Zenon DEF Acquire, Free
<1>3. CASE Track(s)
  <2>1. CASE HasRoom
    <3>1. Len(submitted') = Len(submitted) + 1
      <4>1. msg[s] \in Message /\ submitted \in Seq(Data)
        BY <1>3, SMTT(60) DEF Track, Busy
      <4>2. submitted' = Append(submitted, msg[s].data)
        BY <1>3, <2>1, Zenon DEF Track
      <4>3. msg[s].data \in Data
        BY <4>1, Zenon DEF Message
      <4> HIDE DEF TypeInv, TypeOK, LockInv
      <4> QED
        BY <4>1, <4>2, <4>3, AppendProperties, SMTT(30)
    <3>2. /\ pc' = [pc EXCEPT ![s] = "write"] /\ sequence' = sequence + 1
          /\ holder' = s /\ msg' = msg
        BY <1>3, <2>1, SMTT(60) DEF Track, HasRoom, HolderAfterTrack, NextNumber
    <3>3. holder = s /\ msg[s].seq = sequence
        BY <1>3, SMTT(60) DEF Track
    <3> QED
        BY <3>1, <3>2, <3>3, SMTT(60)
  <2>2. CASE ~HasRoom
    <3>1. /\ pc' = [pc EXCEPT ![s] = "parked"]
          /\ UNCHANGED <<sequence, holder, msg, submitted>>
        BY <1>3, <2>2, SMTT(60) DEF Track, HasRoom
    <3>2. pc[s] = "track"
        BY <1>3, SMTT(60) DEF Track
    <3> QED
        BY <3>1, <3>2, Zenon
  <2> QED
    BY <2>1, <2>2, SMTT(60)
<1>4. CASE Wake(s)
    BY <1>4, SMTT(60) DEF Wake
<1>5. CASE ParkedClosed(s)
    BY <1>0, <1>5, SMTT(60) DEF ParkedClosed, Return
<1>6. CASE Write(s)
    BY <1>0, <1>6, SMTT(60) DEF Write, Return
<1>7. CASE WriteUnread(s) \/ WriteRefused(s)
  <2>1. /\ pc[s] = "write" /\ holder' = NoSender
        /\ pc' = [pc EXCEPT ![s] = "idle"] \/ pc' = [pc EXCEPT ![s] = "exited"]
        /\ msg' = [msg EXCEPT ![s] = NoMessage]
        /\ UNCHANGED <<sequence, submitted>>
    BY <1>7, Zenon DEF WriteUnread, WriteRefused, Return
  <2>2. CASE pc' = [pc EXCEPT ![s] = "idle"]
    BY <1>0, <2>1, <2>2, SMTT(60)
  <2>3. CASE pc' = [pc EXCEPT ![s] = "exited"]
    BY <1>0, <2>1, <2>3, SMTT(60)
  <2> QED
    BY <2>1, <2>2, <2>3, Zenon
<1>8. CASE Exit(s)
    BY <1>8, SMTT(60) DEF Exit
<1>9. CASE Abort(s)
    BY <1>0, <1>9, SMTT(60) DEF Abort
<1> QED
    BY <1>1, <1>2, <1>3, <1>4, <1>5, <1>6, <1>7, <1>8, <1>9, ZenonT(30) DEF SenderNext

(* The other tasks, the agent, a close and a resume leave both alone.       *)
LEMMA OthersLeaveLock ==
    ASSUME TypeInv, [Next]_vars, ~\E s \in Senders : SenderNext(s)
    PROVE  UNCHANGED <<sequence, holder, pc, msg, submitted>>
    BY Zenon DEF Next, vars, continuity, channelVars, senderVars, agentVars,
           TransportFails, SessionEnds, HeartbeatClose, Resume, SocketStalls, WriterTask,
           PollResend, PollGaveUp, RetransmitWrite, ReaderAck, NotifyAck,
           AgentTakes, AgentDrops, AgentProcesses, Close

(* Every step keeps the discipline of the sequence mutex.                   *)
LEMMA LockStep == TypeInv /\ LockInv /\ [Next]_vars => LockInv'
<1> SUFFICES ASSUME TypeInv, LockInv, [Next]_vars PROVE LockInv'
    OBVIOUS
<1>1. CASE \E s \in Senders : SenderNext(s)
    BY <1>1, LockSender, Zenon
<1>2. CASE ~\E s \in Senders : SenderNext(s)
  <2>1. UNCHANGED <<sequence, holder, pc, msg, submitted>>
    BY <1>2, OthersLeaveLock, Zenon
  <2> QED
    BY <2>1, SMTT(60) DEF LockInv, InLock, NumberedIsWrittenFirst
<1> QED
    BY <1>1, <1>2, Zenon

(* At most one task is between the grant of the sequence mutex and its      *)
(* enqueue, and it has the next number; abort releases the mutex.           *)
THEOREM LockInvHolds == Spec => []LockInv
    BY LockInit, LockStep, TypeInvHolds, PTL DEF Spec

(* First transmissions enter the writer queue in the order of their numbers *)
(* because the mutex covers the enqueue, for any number of channels resumed *)
(* over the same counter.                                                   *)
THEOREM WrittenInOrder == Spec => []NumberedIsWrittenFirst
    BY LockInvHolds, PTL DEF LockInv

-----------------------------------------------------------------------------
(* No wake-up is lost: a task that waits for room                           *)

(* A task that sleeps until an acknowledgement, on a channel that is up,    *)
(* does so behind a full buffer, or the wake-up that follows the            *)
(* acknowledgement is on its way: the future was enqueued before the test   *)
(* for room, and every retirement is followed by notify_waiters.            *)
ParkedBehindFull ==
    \A s \in Senders : pc[s] = "parked" /\ s \in ackWaiters /\ ~Closed(s[1]) =>
        ~HasRoom \/ notifying

(* It needs to know that no task of a channel runs before the channel is    *)
(* there: a resumed channel starts with nobody asleep.                      *)
ParkInv ==
    /\ \A s \in Senders : s[1] > channel => pc[s] = "idle"
    /\ ParkedBehindFull

(* The channels are numbers.                                                *)
LEMMA ChannelNumbers ==
    ASSUME TypeInv
    PROVE  channel \in Nat /\ \A s \in Senders : s[1] \in Nat
    BY OutboundAssumption, SMTT(30) DEF TypeInv, TypeOK, Senders, Channels

(* The steps of the tasks themselves.                                       *)
LEMMA ParkSender ==
    ASSUME TypeInv, LockInv, ParkInv, NEW s \in Senders, SenderNext(s)
    PROVE  ParkInv'
<1>1. pc \in [Senders -> {"idle", "queued", "track", "parked", "write", "exited"}]
    BY Zenon DEF TypeInv, TypeOK
<1>2. UNCHANGED <<channel, open, notifying>>
    BY Zenon DEF SenderNext, SendPayload, Acquire, Track, Wake, ParkedClosed, Write,
                 WriteUnread, WriteRefused, Exit, Abort, channelVars
<1>3. \A t \in Senders \ {s} : pc'[t] = pc[t] /\ (t \in ackWaiters' <=> t \in ackWaiters)
    BY <1>1, Zenon DEF SenderNext, SendPayload, Acquire, Track, Wake, ParkedClosed, Write,
                 WriteUnread, WriteRefused, Exit, Abort, Return, channelVars
<1>4. s[1] > channel => pc'[s] = "idle"
    <2> SUFFICES ASSUME s[1] > channel PROVE FALSE
        OBVIOUS
    <2>1. pc[s] = "idle"
        BY Zenon DEF ParkInv
    <2>2. s[1] <= channel
        BY <2>1, Zenon DEF SenderNext, SendPayload, Acquire, Track, Wake, ParkedClosed, Write,
                 WriteUnread, WriteRefused, Exit, Abort
    <2> QED
        BY <2>2, ChannelNumbers
<1>5. CASE outgoing' = outgoing
    <2>1. ASSUME pc'[s] = "parked", s \in ackWaiters', ~Closed(s[1])'
          PROVE  ~HasRoom
        BY <1>1, <1>2, <2>1, Zenon DEF SenderNext, SendPayload, Acquire, Track, Wake,
                 ParkedClosed, Write, WriteUnread, WriteRefused, Exit, Abort, Return, Closed
    <2> QED
        BY <1>2, <1>3, <1>4, <1>5, <2>1, Zenon DEF ParkInv, ParkedBehindFull, Closed, HasRoom
<1>6. CASE outgoing' # outgoing
    <2>1. pc[s] = "track" /\ pc'[s] = "write"
        BY <1>1, <1>6, Zenon DEF SenderNext, SendPayload, Acquire, Track, Wake,
                 ParkedClosed, Write, WriteUnread, WriteRefused, Exit, Abort, Return, continuity
    <2>2. \A t \in Senders : pc'[t] # "parked"
        BY <1>3, <2>1, Zenon DEF LockInv, InLock
    <2> QED
        BY <1>2, <1>3, <1>4, <2>2, Zenon DEF ParkInv, ParkedBehindFull
<1> QED
    BY <1>5, <1>6, Zenon

(* The reader, the other tasks, the agent, a close and a resume.            *)
LEMMA ParkOthers ==
    ASSUME TypeInv, ParkInv, [Next]_vars, ~\E s \in Senders : SenderNext(s)
    PROVE  ParkInv'
<1>1. pc' = pc /\ msg' = msg
    BY OthersLeaveLock, Zenon
<1>2. CASE Resume
    <2>1. /\ channel' = channel + 1 /\ outgoing' = outgoing
          /\ UNCHANGED <<notifying, ackWaiters>>
        BY <1>2, Zenon DEF Resume, Backlog
    <2>2. \A s \in Senders : ~(s[1] < channel') => s[1] > channel
        BY <2>1, ChannelNumbers
    <2>3. \A s \in Senders : s[1] > channel' => s[1] > channel
        BY <2>1, ChannelNumbers
    <2> QED
        BY <1>1, <2>1, <2>2, <2>3, Zenon DEF ParkInv, ParkedBehindFull, Closed
<1>3. CASE TransportFails \/ SessionEnds \/ HeartbeatClose \/ PollGaveUp
    <2>1. open' = FALSE /\ channel' = channel
        BY <1>3, Zenon DEF TransportFails, SessionEnds, HeartbeatClose, PollGaveUp, Close
    <2> QED
        BY <1>1, <2>1, Zenon DEF ParkInv, ParkedBehindFull, Closed
<1>4. CASE NotifyAck
    <2>1. channel' = channel /\ open' = open /\ ackWaiters' = ackWaiters \ Woken
        BY <1>4, Zenon DEF NotifyAck
    <2>2. \A s \in Senders : s \in ackWaiters' => s[1] # channel
        BY <2>1, Zenon DEF Woken
    <2>3. \A s \in Senders : s[1] # channel /\ ~(s[1] < channel) => s[1] > channel
        BY ChannelNumbers
    <2> QED
        BY <1>1, <2>1, <2>2, <2>3, Zenon DEF ParkInv, ParkedBehindFull, Closed
<1>5. CASE ReaderAck
    <2>1. UNCHANGED <<channel, open, ackWaiters>>
        BY <1>5, Zenon DEF ReaderAck
    <2>2. notifying' = TRUE \/ (outgoing' = outgoing /\ notifying' = notifying)
        BY <1>5, Zenon DEF ReaderAck
    <2>3. (~HasRoom \/ notifying) => (~HasRoom \/ notifying)'
        BY <2>2, Zenon DEF HasRoom
    <2> QED
        BY <1>1, <2>1, <2>3, Zenon DEF ParkInv, ParkedBehindFull, Closed
<1>6. CASE PollResend
    <2>1. UNCHANGED <<channel, open, ackWaiters, notifying>>
        BY <1>6, Zenon DEF PollResend
    <2>2. outgoing \in Seq(Pending) /\ outgoing # <<>> /\ outgoing[1].attempts < MaxAttempts
        BY <1>6, TailProperties, SMTT(60) DEF PollResend, TypeInv, TypeOK
    <2>3. Len(outgoing') = Len(outgoing)
        BY <1>6, <2>2, BumpProperties, Zenon DEF PollResend
    <2> QED
        BY <1>1, <2>1, <2>3, Zenon DEF ParkInv, ParkedBehindFull, Closed, HasRoom
<1>7. CASE UNCHANGED <<channel, open, ackWaiters, notifying, outgoing>>
    BY <1>1, <1>7, Zenon DEF ParkInv, ParkedBehindFull, Closed, HasRoom
<1>8. CASE SocketStalls \/ WriterTask \/ RetransmitWrite \/ AgentTakes \/ AgentDrops \/ AgentProcesses
           \/ UNCHANGED vars
    BY <1>7, <1>8, Zenon DEF SocketStalls, WriterTask, RetransmitWrite, AgentTakes, AgentDrops,
                 AgentProcesses, vars, continuity, channelVars
<1> QED
    BY <1>2, <1>3, <1>4, <1>5, <1>6, <1>8, Zenon DEF Next

(* No task sleeps for room that is there, for any number of channels,       *)
(* senders and buffer sizes: the safety half of SendReturns.                *)
THEOREM NoLostWakeup == Spec => []ParkedBehindFull
<1>1. Init => ParkInv
    BY Zenon DEF Init, ParkInv, ParkedBehindFull
<1>2. TypeInv /\ LockInv /\ ParkInv /\ [Next]_vars => ParkInv'
    BY ParkSender, ParkOthers, Zenon
<1>3. ParkInv => ParkedBehindFull
    BY Zenon DEF ParkInv
<1> QED
    BY <1>1, <1>2, <1>3, TypeInvHolds, LockInvHolds, PTL DEF Spec

-----------------------------------------------------------------------------
(* Layer 3: a message in flight, first copy or retransmission, carries the  *)
(* payload that was submitted under its number; the buffer is in order.     *)

Genuine(m) == m.seq < Len(submitted) /\ m.data = submitted[m.seq + 1]

FlightInv ==
    /\ \A i \in DOMAIN outgoing : Genuine(outgoing[i])
    /\ \A i \in DOMAIN writer : Genuine(writer[i])
    /\ \A i \in DOMAIN toAgent : Genuine(toAgent[i])
    /\ \A m \in held : Genuine(m)
    /\ resend # NoMessage => Genuine(resend)
    /\ \A s \in Senders : pc[s] = "write" => Genuine(msg[s])
    /\ OldestFirst

(* The entries of the buffer and of the queues have numbers and payloads.   *)
LEMMA InFlightTyped ==
    ASSUME TypeInv
    PROVE  /\ \A i \in DOMAIN outgoing : outgoing[i] \in Pending /\ outgoing[i].seq \in Nat
           /\ \A i \in DOMAIN writer : writer[i] \in Message /\ writer[i].seq \in Nat
           /\ \A i \in DOMAIN toAgent : toAgent[i] \in Message /\ toAgent[i].seq \in Nat
           /\ \A m \in held : m.seq \in Nat
<1> USE DEF TypeInv, TypeOK
<1>1. \A i \in DOMAIN outgoing : outgoing[i] \in Pending
    BY LenProperties, Zenon
<1>2. \A i \in DOMAIN writer : writer[i] \in Message
    BY LenProperties
<1>3. \A i \in DOMAIN toAgent : toAgent[i] \in Message
    BY LenProperties
<1> QED
    BY <1>1, <1>2, <1>3, Zenon DEF Message, Pending

(* A fresh Continuity: nothing is in flight.                                *)
LEMMA FlightInit == Init => FlightInv
    BY DEF Init, FlightInv, OldestFirst

(* Numbering a message gives it a payload and leaves the others theirs.     *)
LEMMA FlightTrack ==
    ASSUME TypeInv, LockInv, FlightInv, NEW s \in Senders, Track(s)
    PROVE  FlightInv'
<1>t. /\ outgoing \in Seq(Pending) /\ writer \in Seq(Message) /\ toAgent \in Seq(Message)
      /\ submitted \in Seq(Data) /\ held \in SUBSET Message /\ DOMAIN pc = Senders /\ DOMAIN msg = Senders
      /\ resend \in Message \cup {NoMessage} /\ \A t \in Senders : pc[t] \in Busy => msg[t] \in Message
  BY Zenon DEF TypeInv, TypeOK
<1>1. CASE HasRoom
  <2> DEFINE e == [seq |-> msg[s].seq, data |-> msg[s].data, attempts |-> 1]
  <2>1. /\ outgoing' = Append(outgoing, e)
        /\ submitted' = Append(submitted, msg[s].data)
        /\ pc' = [pc EXCEPT ![s] = "write"]
        /\ UNCHANGED <<msg, writer, toAgent, held, resend>>
    BY <1>1, Zenon DEF Track, HasRoom, agentVars
  <2>2. msg[s] \in Message /\ msg[s].seq = Len(submitted) /\ pc[s] = "track"
    BY <1>t, Zenon DEF Track, Busy, LockInv
  <2>3. e \in Pending /\ e.seq = Len(submitted) /\ e.data = msg[s].data /\ msg[s].data \in Data
    BY <2>2, OutboundAssumption DEF Message, Pending
  <2> HIDE DEF e
  <2>4. /\ Len(submitted') = Len(submitted) + 1 /\ Len(submitted) \in Nat
        /\ \A n \in Nat : n < Len(submitted) => submitted'[n + 1] = submitted[n + 1]
        /\ submitted'[Len(submitted) + 1] = msg[s].data
    BY <2>1, <2>3, AppendProperties, LenProperties, SMTT(60)
  <2>5. \A m : m.seq \in Nat /\ Genuine(m)
               => m.seq < Len(submitted') /\ m.data = submitted'[m.seq + 1]
    BY <2>4, SMTT(120) DEF Genuine
  <2>6. /\ DOMAIN outgoing' = 1..(Len(outgoing) + 1) /\ Len(outgoing) \in Nat
        /\ \A i \in DOMAIN outgoing : outgoing'[i] = outgoing[i]
        /\ DOMAIN outgoing = 1..Len(outgoing)
        /\ outgoing'[Len(outgoing) + 1] = e
    BY <2>1, <2>3, AppendProperties, LenProperties, SMTT(60)
  <2>7. \A i \in DOMAIN outgoing : outgoing[i].seq \in Nat /\ outgoing[i].seq < Len(submitted)
    BY InFlightTyped, Zenon DEF FlightInv, Genuine
  <2>8. (\A i \in DOMAIN outgoing : Genuine(outgoing[i]))'
    <3>1. ASSUME NEW i \in DOMAIN outgoing'
          PROVE  /\ outgoing'[i].seq < Len(submitted')
                 /\ outgoing'[i].data = submitted'[outgoing'[i].seq + 1]
      <4>1. CASE i \in DOMAIN outgoing
        BY <2>5, <2>6, <2>7, <4>1, Zenon DEF FlightInv
      <4>2. CASE i = Len(outgoing) + 1
        BY <2>3, <2>4, <2>6, <4>2, SMTT(120)
      <4>3. i \in 1..(Len(outgoing) + 1)
        BY <2>6, Zenon
      <4>4. i \in 1..Len(outgoing) \/ i = Len(outgoing) + 1
        <5>1. Len(outgoing) \in Nat
            BY <2>6, Zenon
        <5> QED
            BY <4>3, <5>1, SMTT(60)
      <4> QED
        BY <2>6, <4>1, <4>2, <4>4, Zenon
    <3> QED
        BY <3>1, Zenon DEF Genuine
  <2>9. OldestFirst'
    <3>1. ASSUME NEW i \in DOMAIN outgoing', NEW j \in DOMAIN outgoing', i < j
          PROVE  outgoing'[i].seq < outgoing'[j].seq
      <4>1. i \in DOMAIN outgoing
        BY <2>6, <3>1, SMTT(120)
      <4>2. CASE j \in DOMAIN outgoing
        BY <2>6, <3>1, <4>1, <4>2, Zenon DEF FlightInv, OldestFirst
      <4>3. CASE j = Len(outgoing) + 1
        BY <2>3, <2>6, <2>7, <4>1, <4>3, Zenon
      <4>4. j \in DOMAIN outgoing \/ j = Len(outgoing) + 1
        BY <2>6, SMTT(120)
      <4> QED
        BY <4>2, <4>3, <4>4, Zenon
    <3> QED
        BY <3>1, Zenon DEF OldestFirst
  <2>10. (\A i \in DOMAIN writer : Genuine(writer[i]))'
    BY <2>1, <2>5, InFlightTyped, Zenon DEF FlightInv, Genuine
  <2>11. (\A i \in DOMAIN toAgent : Genuine(toAgent[i]))'
    BY <2>1, <2>5, InFlightTyped, Zenon DEF FlightInv, Genuine
  <2>12. (\A m \in held : Genuine(m))'
    BY <1>t, <2>1, <2>5, Zenon DEF FlightInv, Genuine, Message
  <2>13. (resend # NoMessage => Genuine(resend))'
    BY <1>t, <2>1, <2>5, Zenon DEF FlightInv, Genuine, Message
  <2>14. (\A t \in Senders : pc[t] = "write" => Genuine(msg[t]))'
    BY <1>t, <2>1, <2>2, <2>4, <2>5, SMTT(120) DEF FlightInv, Genuine, Message, Busy
  <2> QED
    BY <2>8, <2>9, <2>10, <2>11, <2>12, <2>13, <2>14, Zenon DEF FlightInv
<1>2. CASE ~HasRoom
  <2>1. /\ pc' = [pc EXCEPT ![s] = "parked"]
        /\ UNCHANGED <<outgoing, submitted, msg, writer, toAgent, held, resend>>
    BY <1>2, Zenon DEF Track, HasRoom, agentVars, continuity
  <2>2. \A t \in Senders : pc'[t] = "write" => pc[t] = "write"
    BY <2>1
  <2> QED
    BY <2>1, <2>2, ZenonT(30) DEF FlightInv, Genuine, OldestFirst
<1> QED
    BY <1>1, <1>2, Zenon

(* send_payload puts into the writer queue only what it has numbered.       *)
LEMMA FlightSender ==
    ASSUME TypeInv, LockInv, FlightInv, NEW s \in Senders, SenderNext(s)
    PROVE  FlightInv'
<1> USE DEF continuity, channelVars, senderVars, agentVars
<1>t. /\ outgoing \in Seq(Pending) /\ writer \in Seq(Message) /\ toAgent \in Seq(Message)
      /\ submitted \in Seq(Data) /\ held \in SUBSET Message /\ DOMAIN pc = Senders /\ DOMAIN msg = Senders
      /\ resend \in Message \cup {NoMessage} /\ \A t \in Senders : pc[t] \in Busy => msg[t] \in Message
  BY Zenon DEF TypeInv, TypeOK
<1>0. ASSUME UNCHANGED <<outgoing, writer, toAgent, held, resend, submitted>>,
             \A t \in Senders : pc'[t] = "write" => pc[t] = "write" /\ msg'[t] = msg[t]
      PROVE  FlightInv'
    BY <1>0, Zenon DEF FlightInv, Genuine, OldestFirst
<1>1. ASSUME NEW d \in Data, SendPayload(s, d) PROVE FlightInv'
    BY <1>0, <1>1, SMTT(60) DEF SendPayload
<1>2. CASE Acquire(s)
    BY <1>0, <1>2, SMTT(60) DEF Acquire
<1>3. CASE Track(s)
    BY <1>3, FlightTrack, Zenon
<1>4. CASE Wake(s)
  <2>1. \A t \in Senders : pc'[t] = "write" => pc[t] = "write"
    <3>1. DOMAIN pc = Senders
      BY <1>t, Zenon
    <3>2. pc' = [pc EXCEPT ![s] = "track"]
      BY <1>4, Zenon DEF Wake
    <3> QED
      BY <3>1, <3>2, Zenon
  <2>2. UNCHANGED <<outgoing, writer, toAgent, held, resend, submitted, msg>>
    BY <1>4, Zenon DEF Wake
  <2> QED
    BY <1>0, <2>1, <2>2, Zenon
<1>5. CASE ParkedClosed(s)
    BY <1>0, <1>5, SMTT(60) DEF ParkedClosed, Return
<1>6. CASE Write(s)
  <2>1. msg[s] \in Message /\ Genuine(msg[s]) /\ writer' = Append(writer, msg[s])
    BY <1>t, <1>6, ZenonT(30) DEF Write, Busy, FlightInv
  <2>2. \A i \in DOMAIN writer' :
            writer'[i] = msg[s] \/ (i \in DOMAIN writer /\ writer'[i] = writer[i])
    <3>1. writer \in Seq(Message)
        BY <1>t, Zenon
    <3> QED
        BY <2>1, <3>1, AppendElements
  <2>3. \A i \in DOMAIN writer' : Genuine(writer'[i])
    BY <2>1, <2>2, Zenon DEF FlightInv
  <2>4. /\ UNCHANGED <<outgoing, toAgent, held, resend, submitted>>
        /\ \A t \in Senders : pc'[t] = "write" => pc[t] = "write" /\ msg'[t] = msg[t]
    BY <1>t, <1>6, Zenon DEF Write, Return
  <2> QED
    BY <2>3, <2>4, Zenon DEF FlightInv, Genuine, OldestFirst
<1>7. CASE WriteUnread(s) \/ WriteRefused(s)
    BY <1>t, <1>0, <1>7, Zenon DEF WriteUnread, WriteRefused, Return
<1>8. CASE Exit(s)
  <2>1. \A t \in Senders : pc'[t] = "write" => pc[t] = "write"
    <3>1. DOMAIN pc = Senders
      BY <1>t, Zenon
    <3>2. pc' = [pc EXCEPT ![s] = "exited"]
      BY <1>8, Zenon DEF Exit
    <3> QED
      BY <3>1, <3>2, Zenon
  <2>2. UNCHANGED <<outgoing, writer, toAgent, held, resend, submitted, msg>>
    BY <1>8, Zenon DEF Exit
  <2> QED
    BY <1>0, <2>1, <2>2, Zenon
<1>9. CASE Abort(s)
    BY <1>t, <1>0, <1>9, Zenon DEF Abort
<1> QED
    BY <1>1, <1>2, <1>3, <1>4, <1>5, <1>6, <1>7, <1>8, <1>9, Zenon DEF SenderNext

(* The other tasks move and copy messages; the reader removes one from      *)
(* wherever it is in the buffer.                                            *)
LEMMA FlightStep == TypeInv /\ LockInv /\ FlightInv /\ [Next]_vars => FlightInv'
<1> SUFFICES ASSUME TypeInv, LockInv, FlightInv, [Next]_vars PROVE FlightInv'
    BY Zenon
<1> USE DEF continuity, channelVars, senderVars, agentVars
<1>t. /\ outgoing \in Seq(Pending) /\ writer \in Seq(Message) /\ toAgent \in Seq(Message)
      /\ submitted \in Seq(Data) /\ held \in SUBSET Message /\ DOMAIN pc = Senders /\ DOMAIN msg = Senders
      /\ resend \in Message \cup {NoMessage} /\ \A t \in Senders : pc[t] \in Busy => msg[t] \in Message
  BY Zenon DEF TypeInv, TypeOK
<1>1. CASE \E s \in Senders : SenderNext(s)
    BY <1>1, FlightSender, Zenon
<1>2. ASSUME NEW why, Close(why),
             UNCHANGED <<continuity, senderVars, toAgent, held, delivered, submitted>>
      PROVE  FlightInv'
  <2>1. UNCHANGED <<outgoing, toAgent, held, submitted, pc, msg>>
    BY <1>2, Zenon
  <2>2. resend' = NoMessage /\ writer' = <<>>
    BY <1>2, Zenon DEF Close
  <2>3. \A i \in DOMAIN writer' : FALSE
    BY <2>2
  <2> QED
    BY <2>1, <2>2, <2>3, ZenonT(30) DEF FlightInv, Genuine, OldestFirst
<1>3. CASE TransportFails \/ SessionEnds \/ HeartbeatClose \/ PollGaveUp
    BY <1>2, <1>3, Zenon DEF TransportFails, SessionEnds, HeartbeatClose, PollGaveUp
<1>4. CASE Resume
  <2>1. UNCHANGED <<outgoing, writer, resend, held, submitted, pc, msg>> /\ toAgent' = <<>>
    BY <1>4, Zenon DEF Resume, Backlog
  <2>2. \A i \in DOMAIN toAgent' : FALSE
    BY <2>1
  <2> QED
    BY <2>1, <2>2, ZenonT(30) DEF FlightInv, Genuine, OldestFirst
<1>5. CASE WriterTask
  <2> DEFINE h == Head(writer)
  <2>1. /\ h \in Message /\ h = writer[1] /\ 1 \in DOMAIN writer
        /\ \A i \in DOMAIN Tail(writer) : i + 1 \in DOMAIN writer /\ Tail(writer)[i] = writer[i + 1]
    BY <1>t, <1>5, TailProperties, ZenonT(30) DEF WriterTask
  <2>2. Genuine(h)
    BY <2>1, Zenon DEF FlightInv
  <2> HIDE DEF h
  <2>3. toAgent' = Append(toAgent, h) /\ writer' = Tail(writer)
    BY <1>5, Zenon DEF WriterTask, h
  <2>4. \A i \in DOMAIN toAgent' :
            toAgent'[i] = h \/ (i \in DOMAIN toAgent /\ toAgent'[i] = toAgent[i])
    <3>1. toAgent \in Seq(Message)
        BY <1>t, Zenon
    <3> QED
        BY <2>1, <2>3, <3>1, AppendElements
  <2>5. \A i \in DOMAIN toAgent' : Genuine(toAgent'[i])
    BY <2>2, <2>4, Zenon DEF FlightInv
  <2>6. \A i \in DOMAIN writer' : Genuine(writer'[i])
    BY <2>1, <2>3, Zenon DEF FlightInv
  <2> QED
    BY <1>5, <2>5, <2>6, ZenonT(30) DEF WriterTask, FlightInv, Genuine, OldestFirst
<1>6. CASE PollResend
  <2>1. /\ outgoing # <<>> /\ outgoing[1].attempts < MaxAttempts
        /\ Head(outgoing) = outgoing[1] /\ 1 \in DOMAIN outgoing
    BY <1>t, <1>6, TailProperties, Zenon DEF PollResend
  <2>2. /\ DOMAIN outgoing' = DOMAIN outgoing
        /\ \A i \in DOMAIN outgoing :
             outgoing'[i].seq = outgoing[i].seq /\ outgoing'[i].data = outgoing[i].data
    BY <1>6, <2>1, BumpProperties, SMTT(60) DEF PollResend
  <2>3. resend'.seq = outgoing[1].seq /\ resend'.data = outgoing[1].data
    BY <1>6, <2>1, Zenon DEF PollResend
  <2>4. UNCHANGED <<writer, toAgent, held, submitted, pc, msg>>
    BY <1>6, Zenon DEF PollResend
  <2>5. Genuine(resend') /\ \A i \in DOMAIN outgoing' : Genuine(outgoing'[i])
    BY <2>1, <2>2, <2>3, <2>4, ZenonT(30) DEF FlightInv, Genuine
  <2>6. OldestFirst'
    BY <2>2, ZenonT(30) DEF FlightInv, OldestFirst
  <2> QED
    BY <2>4, <2>5, <2>6, ZenonT(30) DEF FlightInv, Genuine
<1>7. CASE RetransmitWrite
  <2>1. resend \in Message /\ Genuine(resend) /\ writer' = Append(writer, resend)
    BY <1>t, <1>7, ZenonT(30) DEF RetransmitWrite, FlightInv
  <2>2. \A i \in DOMAIN writer' :
            writer'[i] = resend \/ (i \in DOMAIN writer /\ writer'[i] = writer[i])
    <3>1. writer \in Seq(Message)
        BY <1>t, Zenon
    <3> QED
        BY <2>1, <3>1, AppendElements, SMTT(60)
  <2>3. \A i \in DOMAIN writer' : Genuine(writer'[i])
    BY <2>1, <2>2, Zenon DEF FlightInv
  <2> QED
    BY <1>7, <2>3, Zenon DEF RetransmitWrite, FlightInv, Genuine, OldestFirst
<1>8. CASE ReaderAck
  <2>1. UNCHANGED <<writer, toAgent, held, resend, submitted, pc, msg>>
    BY <1>8, Zenon DEF ReaderAck
  <2>2. ASSUME NEW i \in DOMAIN outgoing, outgoing' = Retired(i) PROVE FlightInv'
    <3>1. /\ \A j \in DOMAIN outgoing' :
               Before(i, j) \in DOMAIN outgoing /\ outgoing'[j] = outgoing[Before(i, j)]
          /\ \A j, k \in DOMAIN outgoing' : j < k => Before(i, j) < Before(i, k)
      <4>1. outgoing \in Seq(Pending) /\ outgoing' = Remove(outgoing, i)
        BY <1>t, <2>2, Zenon DEF Retired
      <4> QED
        BY <2>2, <4>1, RemoveOrder, SMTT(120)
    <3>2. /\ \A k \in DOMAIN outgoing : Genuine(outgoing[k])
          /\ OldestFirst
        BY Zenon DEF FlightInv
    <3>3. \A j \in DOMAIN outgoing' : Genuine(outgoing'[j])
        BY <3>1, <3>2, Zenon
    <3>4. OldestFirst'
        BY <3>1, <3>2, Zenon DEF OldestFirst
    <3> QED
        BY <2>1, <3>3, <3>4, Zenon DEF FlightInv, Genuine
  <2>3. CASE UNCHANGED outgoing
    BY <2>1, <2>3, Zenon DEF FlightInv, Genuine, OldestFirst
  <2> QED
    BY <1>8, <2>2, <2>3, Zenon DEF ReaderAck
<1>9. CASE NotifyAck
    BY <1>9, Zenon DEF NotifyAck, FlightInv, Genuine, OldestFirst
<1>10. CASE AgentTakes
  <2>1. /\ Head(toAgent) = toAgent[1] /\ 1 \in DOMAIN toAgent /\ toAgent' = Tail(toAgent)
        /\ \A i \in DOMAIN Tail(toAgent) :
             i + 1 \in DOMAIN toAgent /\ Tail(toAgent)[i] = toAgent[i + 1]
    BY <1>t, <1>10, TailProperties, ZenonT(30) DEF AgentTakes
  <2>2. \A i \in DOMAIN toAgent' : Genuine(toAgent'[i])
    BY <2>1, Zenon DEF FlightInv
  <2>3. \A m \in held' : Genuine(m)
    <3>1. Genuine(Head(toAgent)) /\ \A m \in held : Genuine(m)
      BY <2>1, Zenon DEF FlightInv
    <3>2. \A m \in held' : m \in held \/ m = Head(toAgent)
      <4>1. held' = held \/ held' = held \cup {Head(toAgent)}
        BY <1>10, Zenon DEF AgentTakes
      <4> QED
        BY <4>1, Zenon
    <3> QED
      BY <3>1, <3>2, Zenon
  <2> QED
    BY <1>10, <2>2, <2>3, ZenonT(30) DEF AgentTakes, FlightInv, Genuine, OldestFirst
<1>11. CASE AgentDrops
  <2>1. /\ toAgent' = Tail(toAgent)
        /\ \A i \in DOMAIN Tail(toAgent) :
             i + 1 \in DOMAIN toAgent /\ Tail(toAgent)[i] = toAgent[i + 1]
    BY <1>11, TailProperties, SMTT(60) DEF AgentDrops
  <2>2. \A i \in DOMAIN toAgent' : Genuine(toAgent'[i])
    BY <2>1, Zenon DEF FlightInv
  <2> QED
    BY <1>11, <2>2, ZenonT(30) DEF AgentDrops, FlightInv, Genuine, OldestFirst
<1>12. CASE AgentProcesses
    BY <1>12, ZenonT(60) DEF AgentProcesses, FlightInv, Genuine, OldestFirst
<1>13. CASE SocketStalls \/ UNCHANGED vars
    BY <1>13, ZenonT(30) DEF SocketStalls, vars, FlightInv, Genuine, OldestFirst
<1> QED
    BY <1>1, <1>3, <1>4, <1>5, <1>6, <1>7, <1>8, <1>9, <1>10, <1>11, <1>12,
       <1>13, SMTT(60) DEF Next

(* Every copy of a message, queued, on the wire, being resent or held by    *)
(* the agent, carries the payload that was submitted under its number.      *)
THEOREM FlightInvHolds == Spec => []FlightInv
    BY FlightInit, FlightStep, TypeInvHolds, LockInvHolds, PTL DEF Spec

(* The buffer stays ordered by number through acknowledgements in any order,*)
(* so the head poll_retransmit resends is the oldest unacknowledged one.    *)
THEOREM HeadIsOldest == Spec => []OldestFirst
    BY FlightInvHolds, PTL DEF FlightInv

-----------------------------------------------------------------------------
(* Delivery: nothing with a number is lost, and the stream the agent        *)
(* processes is the stream the callers submitted                            *)

(* Layer 4: what the agent has.  It has processed a prefix of what was      *)
(* submitted, every acknowledgement on its way is for a message it has, and *)
(* what is numbered is tracked or with the agent.                           *)

AgentHas(n) == n < Len(delivered) \/ \E m \in held : m.seq = n

AgentInv ==
    /\ Len(delivered) <= Len(submitted)
    /\ \A i \in 1..Len(delivered) : delivered[i] = submitted[i]
    /\ \A i \in DOMAIN acks : AgentHas(acks[i])
    /\ NothingLost

(* A fresh Continuity: nothing is numbered and the agent has nothing.       *)
LEMMA AgentInit == Init => AgentInv
    BY DEF Init, AgentInv, NothingLost

(* What the agent has it never loses: an early message is held until it is  *)
(* processed.                                                               *)
LEMMA AgentKeeps ==
    ASSUME TypeInv, [Next]_vars, NEW n \in Nat, AgentHas(n)
    PROVE  AgentHas(n)'
<1> USE DEF TypeInv, TypeOK
<1>1. CASE UNCHANGED <<held, delivered>>
    BY <1>1, Zenon DEF AgentHas
<1>2. CASE AgentTakes
  <2>1. delivered' = delivered /\ held \subseteq held'
    BY <1>2, Zenon DEF AgentTakes
  <2> QED
    BY <2>1, Zenon DEF AgentHas
<1>3. CASE AgentProcesses
  <2>1. PICK m \in held : /\ m.seq = Len(delivered)
                          /\ delivered' = Append(delivered, m.data)
                          /\ held' = held \ {m}
    BY <1>3, Zenon DEF AgentProcesses
  <2>2. Len(delivered') = Len(delivered) + 1 /\ Len(delivered) \in Nat
    BY <2>1, AppendProperties DEF Message
  <2> QED
    BY <2>1, <2>2 DEF AgentHas
<1>4. AgentTakes \/ AgentProcesses \/ UNCHANGED <<held, delivered>>
  <2> HIDE DEF TypeInv
  <2> QED
    BY Zenon DEF Next, SenderNext, vars, agentVars, TransportFails, SessionEnds,
           HeartbeatClose, Resume, SocketStalls, WriterTask, PollResend, PollGaveUp,
           RetransmitWrite, ReaderAck, NotifyAck, AgentDrops, SendPayload,
           Acquire, Track, Wake, ParkedClosed, Write, WriteUnread, WriteRefused, Exit, Abort
<1> QED
    BY <1>1, <1>2, <1>3, <1>4, Zenon

(* The agent processes the stream in order, from genuine messages.          *)
LEMMA PrefixStep ==
    ASSUME TypeInv, LockInv, FlightInv, AgentInv, [Next]_vars
    PROVE  /\ Len(delivered') <= Len(submitted')
           /\ \A i \in 1..Len(delivered') : delivered'[i] = submitted'[i]
<1> USE DEF TypeInv, TypeOK, AgentInv
<1>1. CASE UNCHANGED <<delivered, submitted>>
    BY <1>1, Zenon
<1>2. ASSUME NEW s \in Senders, Track(s), submitted' # submitted
      PROVE  /\ Len(delivered') <= Len(submitted')
             /\ \A i \in 1..Len(delivered') : delivered'[i] = submitted'[i]
  <2>1. /\ submitted' = Append(submitted, msg[s].data) /\ delivered' = delivered
        /\ msg[s] \in Message
    BY <1>2, ZenonT(30) DEF Track, HasRoom, agentVars, Busy
  <2>2. /\ Len(submitted') = Len(submitted) + 1
        /\ \A i \in 1..Len(submitted) : submitted'[i] = submitted[i]
        /\ Len(submitted) \in Nat /\ Len(delivered) \in Nat
    BY <2>1, AppendProperties, LenProperties, SMTT(60) DEF Message
  <2>3. Len(delivered) <= Len(submitted) /\ \A i \in 1..Len(delivered) : delivered[i] = submitted[i]
    BY Zenon DEF AgentInv
  <2> HIDE DEF TypeInv, TypeOK, AgentInv
  <2>4. Len(delivered') = Len(delivered) /\ \A i \in 1..Len(delivered) : i \in 1..Len(submitted)
    BY <2>1, <2>2, <2>3
  <2> QED
    BY <2>1, <2>2, <2>3, <2>4, SMTT(30)
<1>3. CASE AgentProcesses
  <2>1. PICK m \in held : /\ m.seq = Len(delivered)
                          /\ delivered' = Append(delivered, m.data)
                          /\ submitted' = submitted
    BY <1>3, Zenon DEF AgentProcesses
  <2>2. m \in Message /\ m.seq < Len(submitted) /\ m.data = submitted[m.seq + 1]
    BY <2>1, ZenonT(30) DEF FlightInv, Genuine
  <2>3. /\ Len(delivered') = Len(delivered) + 1
        /\ \A i \in 1..Len(delivered) : delivered'[i] = delivered[i]
        /\ delivered'[Len(delivered) + 1] = m.data
        /\ Len(submitted) \in Nat /\ Len(delivered) \in Nat
    <3>1. delivered \in Seq(Data) /\ submitted \in Seq(Data)
      BY Zenon
    <3>2. m.data \in Data /\ delivered' = Append(delivered, m.data)
      BY <2>1, <2>2, Zenon DEF Message
    <3> HIDE DEF TypeInv, TypeOK, AgentInv
    <3> QED
      BY <3>1, <3>2, AppendProperties, LenProperties
  <2>4. ASSUME NEW i \in 1..(Len(delivered) + 1) PROVE delivered'[i] = submitted[i]
    <3>1. i \in 1..Len(delivered) \/ i = Len(delivered) + 1
        BY <2>3, SMTT(120)
    <3> QED
        BY <2>1, <2>2, <2>3, <3>1, Zenon
  <2> QED
    BY <2>1, <2>2, <2>3, <2>4, SMTT(120)
<1>4. \/ UNCHANGED <<delivered, submitted>> \/ AgentProcesses
      \/ \E s \in Senders : Track(s) /\ submitted' # submitted
  <2> HIDE DEF TypeInv, AgentInv
  <2> QED
    BY Zenon DEF Next, SenderNext, vars, agentVars, TransportFails, SessionEnds,
           HeartbeatClose, Resume, SocketStalls, WriterTask, PollResend, PollGaveUp,
           RetransmitWrite, ReaderAck, NotifyAck, AgentDrops, AgentTakes,
           SendPayload, Acquire, Track, Wake, ParkedClosed, Write, WriteUnread, WriteRefused,
           Exit, Abort
<1> QED
    BY <1>1, <1>2, <1>3, <1>4, Zenon

(* The agent acknowledges only what it keeps or has processed.              *)
LEMMA AcksStep ==
    ASSUME TypeInv, AgentInv, [Next]_vars
    PROVE  (\A i \in DOMAIN acks : AgentHas(acks[i]))'
<1> USE DEF TypeInv, TypeOK, AgentInv
<1> DEFINE HasNow(n) == n < Len(delivered') \/ \E m \in held' : m.seq = n
<1>1. \A n \in Nat : AgentHas(n) => HasNow(n)
    BY AgentKeeps, ZenonT(30) DEF AgentHas
<1>2. \A i \in DOMAIN acks : HasNow(acks[i])
  <2>1. \A i \in DOMAIN acks : acks[i] \in Nat /\ AgentHas(acks[i])
    BY LenProperties, SMTT(60)
  <2> HIDE DEF HasNow
  <2> QED
    BY <1>1, <2>1, ZenonT(30)
<1>3. SUFFICES \A i \in DOMAIN acks' : HasNow(acks'[i])
    BY Zenon DEF AgentHas
<1>4. CASE acks' = acks \/ acks' = <<>>
  <2>1. CASE acks' = acks
    BY <1>2, <2>1, Zenon
  <2>2. CASE acks' = <<>>
    <3>1. DOMAIN acks' = {}
        BY <2>2
    <3> QED
        BY <3>1, Zenon
  <2> QED
    BY <1>4, <2>1, <2>2, Zenon
<1>5. CASE acks # <<>> /\ acks' = Tail(acks)
  <2>1. \A i \in DOMAIN acks' : i + 1 \in DOMAIN acks /\ acks'[i] = acks[i + 1]
    BY <1>5, TailProperties, Zenon
  <2> HIDE DEF HasNow
  <2> QED
    BY <1>2, <2>1, Zenon
<1>6. CASE AgentTakes /\ acks' = Append(acks, Head(toAgent).seq)
  <2>1. Head(toAgent) \in Message
    BY <1>6, TailProperties, Zenon DEF AgentTakes
  <2>2. Head(toAgent).seq \in Nat /\ HasNow(Head(toAgent).seq)
    BY <1>6, <2>1, Zenon DEF AgentTakes, Message
  <2>3. \A i \in DOMAIN acks' :
            acks'[i] = Head(toAgent).seq \/ (i \in DOMAIN acks /\ acks'[i] = acks[i])
    <3>1. acks \in Seq(Nat)
        OBVIOUS
    <3> HIDE DEF TypeInv, TypeOK, AgentInv
    <3> QED
        BY <1>6, <2>2, <3>1, AppendElements, SMTT(60)
  <2> HIDE DEF HasNow
  <2> QED
    BY <1>2, <2>2, <2>3, Zenon
<1>7. \/ acks' = acks \/ acks' = <<>> \/ (acks # <<>> /\ acks' = Tail(acks))
      \/ (AgentTakes /\ acks' = Append(acks, Head(toAgent).seq))
  <2> HIDE DEF TypeInv, AgentInv
  <2> QED
    BY Zenon DEF Next, SenderNext, vars, agentVars, TransportFails, SessionEnds,
           HeartbeatClose, Resume, SocketStalls, WriterTask, PollResend, PollGaveUp,
           RetransmitWrite, ReaderAck, NotifyAck, AgentDrops, AgentTakes,
           AgentProcesses, SendPayload, Acquire, Track, Wake, ParkedClosed,
           Write, WriteUnread, WriteRefused, Exit, Abort, Close
<1> QED
    BY <1>4, <1>5, <1>6, <1>7, ZenonT(30)

(* The buffer gives a message up only when the reader has an                *)
(* acknowledgement for it, and the counter moves only with the buffer.      *)
LEMMA NothingLostStep ==
    ASSUME TypeInv, LockInv, FlightInv, AgentInv, [Next]_vars
    PROVE  NothingLost'
<1> USE DEF TypeInv, TypeOK
<1> DEFINE HasNow(n) == n < Len(delivered') \/ \E m \in held' : m.seq = n
<1>1. \A n \in Nat : AgentHas(n) => HasNow(n)
    BY AgentKeeps, Zenon DEF AgentHas
<1>2. \A n \in 0..(sequence - 1) : n \in Tracked \/ HasNow(n)
  <2>1. \A n \in 0..(sequence - 1) : n \in Nat
    OBVIOUS
  <2>2. \A n \in 0..(sequence - 1) : n \in Tracked \/ AgentHas(n)
    <3> HIDE DEF TypeInv, TypeOK
    <3> QED
        BY Zenon DEF AgentInv, NothingLost, AgentHas
  <2> HIDE DEF HasNow
  <2> QED
    BY <1>1, <2>1, <2>2, Zenon
<1>3. SUFFICES \A n \in 0..(sequence' - 1) : n \in Tracked' \/ HasNow(n)
    BY Zenon DEF NothingLost
<1> HIDE DEF HasNow
<1>4. CASE UNCHANGED <<sequence, outgoing>>
    BY <1>2, <1>4, Zenon DEF Tracked
<1>5. ASSUME NEW s \in Senders, Track(s), HasRoom
      PROVE  \A n \in 0..(sequence' - 1) : n \in Tracked' \/ HasNow(n)
  <2> DEFINE e == [seq |-> msg[s].seq, data |-> msg[s].data, attempts |-> 1]
  <2>1. outgoing' = Append(outgoing, e) /\ sequence' = sequence + 1
    BY <1>5, Zenon DEF Track, HasRoom, NextNumber
  <2>2. msg[s] \in Message /\ e.seq = sequence /\ pc[s] = "track"
    BY <1>5, Zenon DEF Track, LockInv, Busy
  <2>3. e \in Pending
    <3>1. msg[s].seq \in Nat /\ msg[s].data \in Data
      BY <2>2, Zenon DEF Message
    <3>2. 1 \in 1..MaxAttempts
      BY OutboundAssumption
    <3> QED
      BY <3>1, <3>2, Zenon DEF Pending
  <2> HIDE DEF e
  <2>4. /\ DOMAIN outgoing' = 1..(Len(outgoing) + 1) /\ Len(outgoing) \in Nat
        /\ DOMAIN outgoing = 1..Len(outgoing)
        /\ \A i \in 1..Len(outgoing) : outgoing'[i] = outgoing[i]
        /\ outgoing'[Len(outgoing) + 1] = e
    BY <2>1, <2>3, AppendProperties, LenProperties, SMTT(60)
  <2>5. Tracked \subseteq Tracked' /\ sequence \in Tracked'
    <3>1. \A i \in DOMAIN outgoing : i \in DOMAIN outgoing' /\ outgoing'[i] = outgoing[i]
        BY <2>4, SMTT(60)
    <3>2. Len(outgoing) + 1 \in DOMAIN outgoing' /\ outgoing'[Len(outgoing) + 1].seq = sequence
        BY <2>2, <2>4, SMTT(60)
    <3> HIDE DEF TypeInv, TypeOK
    <3> QED
        BY <3>1, <3>2, Zenon DEF Tracked
  <2>6. \A n \in 0..sequence : n \in 0..(sequence - 1) \/ n = sequence
    OBVIOUS
  <2> QED
    BY <1>2, <2>1, <2>5, <2>6, SMTT(60)
<1>6. CASE PollResend
  <2>1. outgoing # <<>> /\ outgoing[1].attempts < MaxAttempts
    BY <1>6, TailProperties, Zenon DEF PollResend
  <2>2. /\ DOMAIN outgoing' = DOMAIN outgoing /\ sequence' = sequence
        /\ \A i \in DOMAIN outgoing : outgoing'[i].seq = outgoing[i].seq
    BY <1>6, <2>1, BumpProperties, Zenon DEF PollResend
  <2> QED
    BY <1>2, <2>2, Zenon DEF Tracked
<1>7. ASSUME ReaderAck, NEW i \in DOMAIN outgoing, acks # <<>>,
             outgoing[i].seq = Head(acks), outgoing' = Retired(i)
      PROVE  \A n \in 0..(sequence' - 1) : n \in Tracked' \/ HasNow(n)
  <2>1. Head(acks) \in Nat /\ AgentHas(Head(acks))
    BY <1>7, TailProperties, SMTT(120) DEF AgentInv
  <2>2. HasNow(outgoing[i].seq) /\ sequence' = sequence
    BY <1>1, <1>7, <2>1, Zenon DEF ReaderAck
  <2>3. \A k \in DOMAIN outgoing : k # i => \E j \in DOMAIN outgoing' : outgoing'[j] = outgoing[k]
    <3>1. outgoing \in Seq(Pending) /\ outgoing' = Remove(outgoing, i)
        BY <1>7, Zenon DEF Retired
    <3> HIDE DEF TypeInv, TypeOK
    <3> QED
        BY <1>7, <3>1, RemoveOrder, SMTT(60)
  <2>4. \A n \in Tracked : n \in Tracked' \/ n = outgoing[i].seq
    BY <2>3, Zenon DEF Tracked
  <2> QED
    BY <1>2, <2>2, <2>4, Zenon
<1>8. \/ UNCHANGED <<sequence, outgoing>> \/ PollResend
      \/ \E s \in Senders : Track(s) /\ HasRoom
      \/ /\ ReaderAck /\ acks # <<>>
         /\ \E i \in DOMAIN outgoing : outgoing[i].seq = Head(acks) /\ outgoing' = Retired(i)
  <2> HIDE DEF TypeInv
  <2> QED
    BY Zenon DEF Next, SenderNext, vars, continuity, TransportFails, SessionEnds,
           HeartbeatClose, Resume, SocketStalls, WriterTask, PollGaveUp, Backlog,
           RetransmitWrite, ReaderAck, NotifyAck, AgentDrops, AgentTakes,
           AgentProcesses, SendPayload, Acquire, Track, HasRoom, Wake,
           ParkedClosed, Write, WriteUnread, WriteRefused, Exit, Abort
<1> QED
    BY <1>4, <1>5, <1>6, <1>7, <1>8, Zenon

(* Every step keeps what is known about the agent.                          *)
LEMMA AgentStep ==
    TypeInv /\ LockInv /\ FlightInv /\ AgentInv /\ [Next]_vars => AgentInv'
    BY PrefixStep, AcksStep, NothingLostStep, Zenon DEF AgentInv

(* The agent has processed a prefix of what was submitted and acknowledges  *)
(* only what it has.                                                        *)
THEOREM AgentInvHolds == Spec => []AgentInv
    BY AgentInit, AgentStep, TypeInvHolds, LockInvHolds, FlightInvHolds, PTL DEF Spec

(* A numbered message is in the outgoing buffer until the agent has it,     *)
(* whatever is closed, aborted or resumed in between.                       *)
THEOREM NumberedNotLost == Spec => []NothingLost
    BY AgentInvHolds, PTL DEF AgentInv

-----------------------------------------------------------------------------
(* Refinement                                                               *)

(* A step numbers one message, lets the agent process one, or is invisible  *)
(* to the users of the stream.                                              *)
LEMMA StreamStep ==
    ASSUME TypeInv, FlightInv, [Next]_vars
    PROVE  [Stream!Next]_(Stream!vars)
<1> USE DEF Stream!vars
<1>1. ASSUME NEW s \in Senders, Track(s), submitted' # submitted
      PROVE  Stream!Next
  <2>1. submitted' = Append(submitted, msg[s].data) /\ delivered' = delivered
    BY <1>1, Zenon DEF Track, HasRoom, agentVars
  <2>2. msg[s].data \in Data
    BY <1>1, Zenon DEF Track, TypeInv, Busy, Message
  <2> QED
    BY <2>1, <2>2, Zenon DEF Stream!Next, Stream!Submit
<1>2. CASE AgentProcesses
  <2>1. PICK m \in held : /\ m.seq = Len(delivered)
                          /\ delivered' = Append(delivered, m.data)
                          /\ submitted' = submitted
    BY <1>2, Zenon DEF AgentProcesses
  <2>2. m.seq < Len(submitted) /\ m.data = submitted[m.seq + 1]
    BY Zenon DEF FlightInv, Genuine
  <2> QED
    BY <2>1, <2>2, Zenon DEF Stream!Next, Stream!Deliver
<1>3. \/ UNCHANGED <<delivered, submitted>> \/ AgentProcesses
      \/ \E s \in Senders : Track(s) /\ submitted' # submitted
    BY Zenon DEF Next, SenderNext, vars, agentVars, TransportFails, SessionEnds,
           HeartbeatClose, Resume, SocketStalls, WriterTask, PollResend, PollGaveUp,
           RetransmitWrite, ReaderAck, NotifyAck, AgentDrops, AgentTakes,
           SendPayload, Acquire, Track, Wake, ParkedClosed, Write, WriteUnread, WriteRefused,
           Exit, Abort
<1> QED
    BY <1>1, <1>2, <1>3, Zenon

(* The agent processes exactly the numbered messages, in order and once     *)
(* each: send_payload, retransmit_task and the hand-over of Continuity      *)
(* implement the abstract stream.                                           *)
THEOREM Refinement == Spec => ReliableInOrder
<1>1. Init => Stream!Init
    BY Zenon DEF Init, Stream!Init
<1>2. TypeInv /\ FlightInv /\ [Next]_vars => [Stream!Next]_(Stream!vars)
    BY StreamStep, Zenon
<1> QED
    BY <1>1, <1>2, TypeInvHolds, FlightInvHolds, PTL
    DEF Spec, ReliableInOrder, Stream!Spec

-----------------------------------------------------------------------------
(* The round-trip estimate stays within its samples, whatever they are      *)

(* The default estimate is a proper one, for every range of samples.        *)
LEMMA DefaultWithin ==
    ASSUME NEW lo \in Nat, NEW hi \in Nat
    PROVE  DefaultEstimate \in Estimate /\ Within(DefaultEstimate, lo, hi)
  BY RttAssumption DEF DefaultEstimate, Estimate, Within

(* An average of two values between two bounds, rounded down, is between    *)
(* the bounds.                                                              *)
LEMMA SmoothedBetween ==
    ASSUME NEW lo \in Nat, NEW hi \in Nat, NEW x \in lo..hi, NEW s \in lo..hi
    PROVE  (s * 7 + x) \div 8 \in lo..hi
  OBVIOUS

(* The deviation of two values up to hi is at most hi, and so is what it is *)
(* folded into.                                                             *)
LEMMA VarianceBelow ==
    ASSUME NEW hi \in Nat, NEW x \in 0..hi, NEW s \in 0..hi, NEW v \in 0..hi
    PROVE  (v * 3 + AbsDiff(s, x)) \div 4 \in 0..hi
  BY DEF AbsDiff

(* Clamp's result is in its range, and is only below its argument when it   *)
(* is the upper end.                                                        *)
LEMMA ClampBetween ==
    ASSUME NEW x \in Nat
    PROVE  /\ Clamp(x) \in Nat /\ MIN_RTO <= Clamp(x) /\ Clamp(x) <= MAX_RTO
           /\ x <= Clamp(x) \/ Clamp(x) = MAX_RTO
  BY RttAssumption DEF Clamp

(* RttEstimate::record keeps an estimate within any range that holds its    *)
(* samples so far and the new one.                                          *)
THEOREM RecordWithin ==
    ASSUME NEW lo \in Nat, NEW hi \in Nat, NEW e \in Estimate, Within(e, lo, hi),
           NEW sample \in lo..hi
    PROVE  Record(e, sample) \in Estimate /\ Within(Record(e, sample), lo, hi)
<1> DEFINE smoothed == IF e.samples = 0 THEN sample ELSE NextSmoothed(e, sample)
           variance == IF e.samples = 0 THEN sample \div 2 ELSE NextVariance(e, sample)
           rto == Clamp(smoothed + RTO_VARIANCE_FACTOR * variance)
<1>1. Record(e, sample) = [smoothed |-> smoothed, variance |-> variance, rto |-> rto,
                           samples |-> e.samples + 1]
  BY Zenon DEF Record
<1>2. e.samples \in Nat /\ e.smoothed \in Nat /\ e.variance \in Nat
  BY Zenon DEF Estimate
<1>3. smoothed \in lo..hi
  <2>1. CASE e.samples = 0
    BY <2>1, Zenon
  <2>2. CASE e.samples # 0
    <3>1. e.smoothed \in lo..hi
      BY <1>2, <2>2 DEF Within
    <3> QED
      BY <2>2, <3>1, SmoothedBetween, Zenon DEF NextSmoothed
  <2> QED
    BY <2>1, <2>2, Zenon
<1>4. variance \in 0..hi
  <2>1. CASE e.samples = 0
    BY <2>1
  <2>2. CASE e.samples # 0
    <3>1. e.smoothed \in 0..hi /\ e.variance \in 0..hi /\ sample \in 0..hi
      BY <1>2, <2>2 DEF Within
    <3> QED
      BY <2>2, <3>1, VarianceBelow, Zenon DEF NextVariance
  <2> QED
    BY <2>1, <2>2, Zenon
<1> HIDE DEF smoothed, variance
<1>5. smoothed + RTO_VARIANCE_FACTOR * variance \in Nat /\ smoothed <= smoothed + RTO_VARIANCE_FACTOR * variance
  BY <1>3, <1>4 DEF RTO_VARIANCE_FACTOR
<1>6. /\ rto \in Nat /\ MIN_RTO <= rto /\ rto <= MAX_RTO
      /\ smoothed <= rto \/ rto = MAX_RTO
  BY <1>3, <1>5, ClampBetween, RttAssumption
<1> HIDE DEF rto
<1> QED
  BY <1>1, <1>2, <1>3, <1>4, <1>6 DEF Estimate, Within

-----------------------------------------------------------------------------
(* The estimate as OutboundRtt keeps it                                     *)

(* Every step of OutboundRtt is a step of Outbound: the estimate only       *)
(* watches, so what is proved of Outbound holds with it.                    *)
LEMMA RttStep == [RttNext]_rttVars => [Next]_vars
<1>1. ReaderAck => Next
    BY Zenon DEF Next
<1> QED
    BY <1>1, Zenon DEF RttNext, AcknowledgeRtt, rttVars

(* OutboundRtt implements Outbound (OutgoingState.rtt is read for its       *)
(* timeout only, and Outbound leaves the time open).                        *)
THEOREM RttImplements == RttSpec => Spec
<1>1. RttInit => Init
    BY Zenon DEF RttInit
<1> QED
    BY <1>1, RttStep, PTL DEF RttSpec, Spec

(* The messages that have left the buffer.                                  *)
Retirements == sequence - Len(outgoing)

(* The estimate is one, lies within every range that holds the link's round *)
(* trips, and has at most one sample for each message acknowledge retired.  *)
RttInv ==
    /\ rtt \in Estimate
    /\ \A lo, hi \in RttSamples : RttSamples \subseteq lo..hi => Within(rtt, lo, hi)
    /\ rtt.samples <= Retirements

(* A fresh OutgoingBuffer has the default estimate and retired nothing.     *)
LEMMA RttInvInit == RttInit => RttInv
<1> SUFFICES ASSUME RttInit PROVE RttInv
    OBVIOUS
<1>1. rtt = DefaultEstimate /\ sequence = 0 /\ outgoing = <<>>
    BY Zenon DEF RttInit, Init
<1>2. \A lo, hi \in RttSamples : lo \in Nat /\ hi \in Nat
    BY RttAssumption, Zenon
<1>3. rtt \in Estimate
    BY <1>1, RttAssumption DEF DefaultEstimate, Estimate
<1>4. \A lo, hi \in RttSamples : Within(rtt, lo, hi)
    BY <1>1, <1>2, DefaultWithin, Zenon
<1>5. rtt.samples <= Retirements
    BY <1>1 DEF DefaultEstimate, Retirements
<1> QED
    BY <1>3, <1>4, <1>5, Zenon DEF RttInv

(* The number of retired messages: track adds a message and a number,       *)
(* acknowledge takes one message out, and nothing else moves either.        *)
LEMMA RetirementsStep ==
    ASSUME TypeInv, [Next]_vars
    PROVE  /\ Retirements \in Int /\ Retirements' \in Int
           /\ Retirements <= Retirements'
           /\ ReaderAck /\ outgoing' # outgoing => Retirements' = Retirements + 1
<1>1. sequence \in Nat /\ outgoing \in Seq(Pending) /\ Len(outgoing) \in Nat
    BY LenProperties DEF TypeInv, TypeOK
<1>2. ASSUME UNCHANGED <<sequence, outgoing>> PROVE Retirements' = Retirements
    BY <1>2 DEF Retirements
<1>3. ASSUME NEW s \in Senders, Track(s), ~UNCHANGED <<sequence, outgoing>>
      PROVE  Retirements' = Retirements
    <2>1. /\ sequence' = sequence + 1
          /\ \E e : outgoing' = Append(outgoing, e)
        BY <1>3, Zenon DEF Track, NextNumber, continuity
    <2>2. Len(outgoing') = Len(outgoing) + 1
        BY <1>1, <2>1
    <2> QED
        BY <1>1, <2>1, <2>2 DEF Retirements
<1>4. ASSUME PollResend PROVE Retirements' = Retirements
    <2>1. sequence' = sequence /\ outgoing # <<>>
          /\ outgoing' = [outgoing EXCEPT ![1].attempts = @ + 1]
        BY <1>4, Zenon DEF PollResend
    <2>2. outgoing[1].attempts < MaxAttempts
        BY <1>1, <1>4 DEF PollResend
    <2>3. Len(outgoing') = Len(outgoing)
        BY <1>1, <2>1, <2>2, BumpProperties, Zenon
    <2> QED
        BY <2>1, <2>3, Zenon DEF Retirements
<1>5. ASSUME ReaderAck
      PROVE  \/ outgoing' = outgoing /\ Retirements' = Retirements
             \/ Retirements' = Retirements + 1
    <2>1. /\ sequence' = sequence
          /\ \/ \E i \in DOMAIN outgoing : outgoing' = Remove(outgoing, i)
             \/ outgoing' = outgoing
        BY <1>5, Zenon DEF ReaderAck, Retired
    <2>2. ASSUME NEW i \in DOMAIN outgoing, outgoing' = Remove(outgoing, i)
          PROVE  Retirements' = Retirements + 1
        <3>1. i \in 1..Len(outgoing)
            BY <1>1, LenProperties, Zenon
        <3>2. Len(outgoing') = Len(outgoing) - 1
            BY <1>1, <2>2, <3>1, RemoveProperties, Zenon
        <3> QED
            BY <1>1, <2>1, <3>2 DEF Retirements
    <2> QED
        BY <1>2, <2>1, <2>2, Zenon
<1>6. \/ UNCHANGED <<sequence, outgoing>>
      \/ \E s \in Senders : Track(s)
      \/ PollResend \/ ReaderAck
    <2>1. ASSUME NEW s \in Senders, SenderNext(s)
          PROVE  UNCHANGED <<sequence, outgoing>> \/ Track(s)
        BY <2>1, Zenon DEF SenderNext, SendPayload, Acquire, Wake, ParkedClosed, Write,
           WriteUnread, WriteRefused, Exit, Abort, continuity, Return
    <2> QED
        BY <2>1, Zenon DEF Next, vars, continuity, TransportFails, SessionEnds, HeartbeatClose,
           Resume, Backlog, SocketStalls, WriterTask, PollGaveUp, RetransmitWrite, NotifyAck, AgentTakes,
           AgentDrops, AgentProcesses
<1>7. Retirements \in Int
    BY <1>1 DEF Retirements
<1>8. Retirements' = Retirements \/ Retirements' = Retirements + 1
    BY <1>2, <1>3, <1>4, <1>5, <1>6, Zenon
<1>9. ReaderAck /\ outgoing' # outgoing => Retirements' = Retirements + 1
    BY <1>5, Zenon
<1> QED
    BY <1>7, <1>8, <1>9

(* A new sample makes a proper estimate of a proper one.                    *)
LEMMA RecordTyped ==
    ASSUME NEW e \in Estimate, NEW sample \in Nat
    PROVE  Record(e, sample) \in Estimate
<1>1. e.smoothed \in Nat /\ e.variance \in Nat /\ e.samples \in Nat
    BY Zenon DEF Estimate
<1>2. NextSmoothed(e, sample) \in Nat
    BY <1>1 DEF NextSmoothed
<1>3. NextVariance(e, sample) \in Nat
    BY <1>1 DEF NextVariance, AbsDiff
<1>4. ASSUME NEW a \in Nat, NEW b \in Nat
      PROVE  [smoothed |-> a, variance |-> b, rto |-> Clamp(a + RTO_VARIANCE_FACTOR * b),
              samples |-> e.samples + 1] \in Estimate
    <2>1. Clamp(a + RTO_VARIANCE_FACTOR * b) \in Nat
        BY RttAssumption DEF Clamp, RTO_VARIANCE_FACTOR
    <2> QED
        BY <1>1, <2>1 DEF Estimate
<1>5. sample \div 2 \in Nat
    OBVIOUS
<1> QED
    BY <1>2, <1>3, <1>4, <1>5, Zenon DEF Record

(* An acknowledgement that finds its entry takes it out of the buffer.      *)
LEMMA AckedLeaves ==
    ASSUME TypeInv, ReaderAck, Acked # {}
    PROVE  outgoing' # outgoing
<1>1. outgoing \in Seq(Pending) /\ Len(outgoing) \in Nat
    BY LenProperties DEF TypeInv, TypeOK
<1>2. Head(acks) \in Tracked
    BY Zenon DEF Acked, Tracked
<1>3. PICK i \in DOMAIN outgoing : outgoing' = Remove(outgoing, i)
    BY <1>2, Zenon DEF ReaderAck, Retired
<1>4. i \in 1..Len(outgoing)
    BY <1>1, LenProperties, Zenon
<1>5. Len(outgoing') = Len(outgoing) - 1
    BY <1>1, <1>3, <1>4, RemoveProperties, Zenon
<1> QED
    BY <1>1, <1>5

(* acknowledge records a sample of the link, of a message it takes out, or  *)
(* leaves the estimate alone.                                               *)
LEMMA RttInvStep == TypeInv /\ RttInv /\ [RttNext]_rttVars => RttInv'
<1> SUFFICES ASSUME TypeInv, RttInv, [RttNext]_rttVars PROVE RttInv'
    BY Zenon
<1>1. /\ Retirements \in Int /\ Retirements' \in Int
      /\ Retirements <= Retirements'
      /\ ReaderAck /\ outgoing' # outgoing => Retirements' = Retirements + 1
    BY RttStep, RetirementsStep, Zenon
<1>2. rtt \in Estimate /\ rtt.samples \in Nat
    BY Zenon DEF RttInv, Estimate
<1>3. CASE rtt' = rtt
    <2>1. rtt'.samples <= Retirements'
        BY <1>1, <1>2, <1>3 DEF RttInv
    <2>2. ASSUME NEW lo, NEW hi, Within(rtt, lo, hi) PROVE Within(rtt', lo, hi)
        BY <1>3, <2>2, Zenon
    <2> QED
        BY <1>2, <1>3, <2>1, <2>2, Zenon DEF RttInv
<1>4. ASSUME NEW sample \in RttSamples, ReaderAck, Acked # {}, rtt' = Record(rtt, sample)
      PROVE  RttInv'
    <2>1. rtt' \in Estimate
          /\ \A lo, hi \in RttSamples : RttSamples \subseteq lo..hi => Within(rtt', lo, hi)
        <3>1. \A lo \in RttSamples : lo \in Nat
            BY RttAssumption, Zenon
        <3>2. ASSUME NEW lo \in RttSamples, NEW hi \in RttSamples, RttSamples \subseteq lo..hi
              PROVE  Within(rtt', lo, hi)
            <4>1. sample \in lo..hi /\ Within(rtt, lo, hi)
                BY <3>2, Zenon DEF RttInv
            <4> QED
                BY <1>2, <1>4, <3>1, <4>1, RecordWithin, Zenon
        <3>3. rtt' \in Estimate
            BY <1>2, <1>4, <3>1, RecordTyped, Zenon
        <3> QED
            BY <3>2, <3>3, Zenon
    <2>2. outgoing' # outgoing
        BY <1>4, AckedLeaves, Zenon
    <2>3. rtt'.samples = rtt.samples + 1
        BY <1>4, Zenon DEF Record
    <2>4. rtt'.samples <= Retirements'
        BY <1>1, <1>2, <1>4, <2>2, <2>3 DEF RttInv
    <2> QED
        BY <2>1, <2>4, Zenon DEF RttInv
<1>5. ASSUME NEW entry \in Acked, ReaderAck, SentOnce(entry), NEW sample \in Elapsed(entry),
             rtt' = Record(rtt, sample)
      PROVE  RttInv'
    BY <1>4, <1>5, Zenon DEF SentOnce, Elapsed
<1> QED
    BY <1>3, <1>5, Zenon DEF RttNext, AcknowledgeRtt, rttVars

(* The estimate poll_retransmit takes its timeout from is within the link's *)
(* round trips in every reachable state, and has at most one sample for     *)
(* each retired message.                                                    *)
THEOREM EstimateSound == RttSpec => []EstimateWithinSamples
<1>1. RttInv => EstimateWithinSamples
    BY Zenon DEF RttInv, EstimateWithinSamples, Retirements
<1>2. RttSpec => []TypeInv
    BY RttImplements, TypeInvHolds, PTL
<1> QED
    BY <1>1, <1>2, RttInvInit, RttInvStep, PTL DEF RttSpec
=============================================================================
