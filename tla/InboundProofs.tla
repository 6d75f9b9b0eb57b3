--------------------------- MODULE InboundProofs ----------------------------
(***************************************************************************)
(* Proofs about Inbound, for every value of its constants.  The inductive  *)
(* invariant comes in layers: types, what the agent's numbers can be, what *)
(* was acknowledged, what may wait in the reorder buffer, and the order of *)
(* delivery while no reply is cut off.                                     *)
(***************************************************************************)
EXTENDS Inbound, FiniteSetTheorems, SequenceTheorems, TLAPS

(* An appended queue holds what it held and the new element.                *)
LEMMA AppendDomain ==
    ASSUME NEW S, NEW q \in Seq(S), NEW e \in S, NEW r, r = Append(q, e)
    PROVE  /\ r \in Seq(S) /\ Len(r) = Len(q) + 1
           /\ DOMAIN r = 1..(Len(q) + 1)
           /\ \A i \in DOMAIN q : i \in DOMAIN r /\ r[i] = q[i]
           /\ \A i \in DOMAIN r : r[i] = e \/ (i \in DOMAIN q /\ r[i] = q[i])
           /\ Len(q) + 1 \in DOMAIN r /\ r[Len(q) + 1] = e
<1>1. Len(q) \in Nat /\ DOMAIN q = 1..Len(q)
  BY LenProperties, Zenon
<1>2. /\ r \in Seq(S) /\ Len(r) = Len(q) + 1
      /\ \A i \in 1..Len(q) : r[i] = q[i]
      /\ r[Len(q) + 1] = e
  BY <1>1, AppendProperties
<1>3. DOMAIN r = 1..(Len(q) + 1)
  BY <1>2, LenProperties, Zenon
<1>4. ASSUME NEW i \in 1..(Len(q) + 1)
      PROVE  r[i] = e \/ (i \in 1..Len(q) /\ r[i] = q[i])
  <2>1. i \in 1..Len(q) \/ i = Len(q) + 1
    BY <1>1
  <2> QED
    BY <1>2, <2>1, Zenon
<1> QED
  BY <1>1, <1>2, <1>3, <1>4

(* What is taken from the head of a queue leaves only what was in it, and   *)
(* all of it but the head.                                                  *)
LEMMA TailDomain ==
    ASSUME NEW S, NEW q \in Seq(S), q # <<>>
    PROVE  /\ Head(q) \in S /\ Head(q) = q[1] /\ 1 \in DOMAIN q
           /\ Tail(q) \in Seq(S) /\ Len(Tail(q)) = Len(q) - 1
           /\ \A i \in DOMAIN Tail(q) : i + 1 \in DOMAIN q /\ Tail(q)[i] = q[i + 1]
           /\ \A i \in DOMAIN q : i # 1 => i - 1 \in DOMAIN Tail(q) /\ Tail(q)[i - 1] = q[i]
  OBVIOUS

-----------------------------------------------------------------------------
(* Types                                                                    *)

(* A fresh Continuity and its first channel.                                *)
LEMMA TypeInit == Init => TypeOK
<1> SUFFICES ASSUME Init PROVE TypeOK
  OBVIOUS
<1>1. IsFiniteSet(incoming) /\ Cardinality(incoming) = 0
  BY FS_EmptySet, Zenon DEF Init
<1>2. channel \in Channels
  BY InboundAssumption DEF Init, Channels
<1>3. cut \in BOOLEAN
  BY Zenon DEF Init
<1>4. /\ pc \in [Channels -> {"idle", "reply", "exited"} \cup Synchronous]
      /\ at \in [Channels -> Nat]
  BY Zenon DEF Init, Synchronous
<1>5. acks \in Seq(Nat) /\ Len(acks) = 0 /\ submitted \in Seq(Data)
  BY DEF Init
<1>6. toClient \in Seq(Nat) /\ delivered \in Seq(Nat)
  BY DEF Init
<1> QED
  BY <1>1, <1>2, <1>3, <1>4, <1>5, <1>6, InboundAssumption DEF Init, TypeOK

(* acknowledge keeps the writer queue within its depth.                     *)
LEMMA AcknowledgeType ==
    ASSUME TypeOK, NEW n \in Nat, Acknowledge(n)
    PROVE  acks' \in Seq(Nat) /\ Len(acks') <= WriterDepth
  BY AppendDomain, InboundAssumption DEF Acknowledge, TypeOK

(* The reader that starts a delivery has a number to deliver.               *)
LEMMA StartDeliveryType ==
    ASSUME TypeOK, NEW c \in Channels, NEW n \in Nat, StartDelivery(c, n)
    PROVE  /\ pc' \in [Channels -> {"idle", "reply", "exited"} \cup Synchronous]
           /\ at' \in [Channels -> Nat]
  BY Zenon DEF StartDelivery, TypeOK, Synchronous

(* Taking a frame from the socket leaves the others.                        *)
LEMMA ReadsType ==
    ASSUME TypeOK, NEW n, Reads(n)
    PROVE  n \in Nat /\ toClient' \in Seq(Nat)
  BY TailDomain, Zenon DEF Reads, TypeOK

(* Every step of the readers, the channels and the agent keeps the types.   *)
LEMMA TypeStep == TypeOK /\ [Next]_vars => TypeOK'
<1> SUFFICES ASSUME TypeOK, [Next]_vars PROVE TypeOK'
  OBVIOUS
<1> USE DEF TypeOK, readerVars, agentVars
<1>1. ASSUME NEW n, DropStale(n) PROVE TypeOK'
  BY <1>1, ReadsType, Zenon DEF DropStale
<1>2. ASSUME NEW n, FindEarly(n) PROVE TypeOK'
  BY <1>2, ReadsType, Zenon DEF FindEarly, Synchronous
<1>3. ASSUME NEW c \in Channels, Insert(c) PROVE TypeOK'
  <2>0. /\ at[c] \in Nat
        /\ pc' \in [Channels -> {"idle", "reply", "exited"} \cup Synchronous]
    BY <1>3, Zenon DEF Insert
  <2>1. CASE /\ Accepts(at[c]) /\ incoming' = incoming \cup {at[c]}
             /\ Acknowledge(at[c])
    <3>1. acks' \in Seq(Nat) /\ Len(acks') <= WriterDepth
      BY <2>0, <2>1, AcknowledgeType, Zenon
    <3>2. /\ IsFiniteSet(incoming')
          /\ Cardinality(incoming') = IF at[c] \in incoming THEN Cardinality(incoming)
                                      ELSE Cardinality(incoming) + 1
      BY <2>1, FS_AddElement, Zenon
    <3>3. Cardinality(incoming) \in Nat
      BY FS_CardinalityType, Zenon
    <3>4. Cardinality(incoming) < Capacity \/ at[c] \in incoming
      BY <2>1, Zenon DEF Accepts
    <3>5. Cardinality(incoming') <= Capacity
      BY <3>2, <3>3, <3>4, InboundAssumption
    <3>6. incoming' \in SUBSET Nat
      BY <2>0, <2>1, Zenon
    <3> QED
      BY <1>3, <2>0, <3>1, <3>2, <3>5, <3>6, Zenon DEF Insert
  <2>2. CASE Silent(at[c]) /\ UNCHANGED incoming
    BY <1>3, <2>0, <2>2, Zenon DEF Insert, Silent
  <2> QED
    BY <1>3, <2>1, <2>2, Zenon DEF Insert
<1>4. ASSUME NEW n, TakeExpected(n) PROVE TypeOK'
  BY <1>4, ReadsType, AcknowledgeType, StartDeliveryType, Zenon DEF TakeExpected
<1>5. ASSUME NEW n \in 0..(MaxMessages - 1), AgentSends(n) PROVE TypeOK'
  <2>1. n \in Nat
    BY InboundAssumption
  <2> QED
    BY <1>5, <2>1, AppendDomain, Zenon DEF AgentSends
<1>6. ASSUME NEW c \in Channels, Deliver(c) PROVE TypeOK'
  <2>1. delivered' \in Seq(Nat)
    BY <1>6, AppendDomain, Zenon DEF Deliver
  <2> QED
    BY <1>6, <2>1, Zenon DEF Deliver, Synchronous
<1>7. ASSUME NEW c \in Channels, ReplyFails(c) PROVE TypeOK'
  <2>1. cut' \in BOOLEAN
    BY <1>7, Zenon DEF ReplyFails
  <2> QED
    BY <1>7, <2>1, Zenon DEF ReplyFails
<1>8. ASSUME NEW c \in Channels, ProtocolFails(c) PROVE TypeOK'
  BY <1>8 DEF ProtocolFails
<1>9. ASSUME NEW c \in Channels, Advance(c) PROVE TypeOK'
  <2>1. Successor \in Nat
    BY DEF Successor
  <2> QED
    BY <1>9, <2>1, Zenon DEF Advance, Synchronous
<1>16. ASSUME NEW c \in Channels, Take(c) PROVE TypeOK'
  <2>1. /\ IsFiniteSet(incoming') /\ Cardinality(incoming') <= Cardinality(incoming)
        /\ incoming' \in SUBSET Nat
    BY <1>16, FS_Subset, Zenon DEF Take
  <2>2. Cardinality(incoming') \in Nat /\ Cardinality(incoming) \in Nat
    BY <2>1, FS_CardinalityType, Zenon
  <2>3. Cardinality(incoming') <= Capacity
    BY <2>1, <2>2, InboundAssumption
  <2>4. at[c] \in Nat
    BY Zenon
  <2>5. CASE StartDelivery(c, at[c])
    BY <1>16, <2>1, <2>3, <2>4, <2>5, StartDeliveryType, Zenon DEF Take
  <2>6. CASE pc' = [pc EXCEPT ![c] = "idle"] /\ UNCHANGED at
    BY <1>16, <2>1, <2>3, <2>6, Zenon DEF Take
  <2> QED
    BY <1>16, <2>5, <2>6, Zenon DEF Take
<1>10. ASSUME NEW c \in Channels, Exit(c) \/ Abort(c) PROVE TypeOK'
  BY <1>10, Zenon DEF Exit, Abort
<1>11. CASE Close
  BY <1>11 DEF Close
<1>12. CASE Resume
  <2>1. cut' \in BOOLEAN
    BY <1>12, Zenon DEF Resume
  <2> QED
    BY <1>12, <2>1, InboundAssumption DEF Resume, Inherited, Channels
<1>13. CASE AgentTakesAck
  <2>1. acks' \in Seq(Nat) /\ Len(acks') = Len(acks) - 1 /\ Len(acks) \in Nat
    BY <1>13, TailDomain, LenProperties, Zenon DEF AgentTakesAck
  <2>2. Len(acks') <= WriterDepth
    BY <2>1, InboundAssumption
  <2> QED
    BY <1>13, <2>1, <2>2, Zenon DEF AgentTakesAck
<1>14. ASSUME NEW d \in Data, AgentSubmits(d) PROVE TypeOK'
  <2>1. submitted' \in Seq(Data) /\ Len(submitted) \in Nat
    BY <1>14, AppendDomain, LenProperties, Zenon DEF AgentSubmits
  <2> QED
    BY <1>14, <2>1, Zenon DEF AgentSubmits
<1>15. CASE UNCHANGED vars
  BY <1>15, Zenon DEF vars
<1> QED
  BY <1>1, <1>2, <1>3, <1>4, <1>5, <1>6, <1>7, <1>8, <1>9, <1>10, <1>11, <1>12, <1>13,
     <1>14, <1>15, <1>16, Zenon DEF Next, ReadNext, ReaderNext

(* The variables keep their types; in particular the reorder buffer never   *)
(* holds more than MESSAGE_BUFFER_CAPACITY messages, resumed channels       *)
(* included.                                                                *)
THEOREM InboundTypeCorrect == Spec => []TypeOK
  BY TypeInit, TypeStep, PTL DEF Spec
-----------------------------------------------------------------------------
(* Acknowledgements                                                         *)

Waiting == {"idle", "exited"}
WithMessage == {"insert", "deliver", "reply", "advance"}
Delivered(n) == \E i \in DOMAIN delivered : delivered[i] = n

(* Every number in the system is one the agent has given, a reader that     *)
(* waits for send_payload has a message that needs a reply, and one that    *)
(* has returned from deliver has processed its message.                     *)
NumberInv ==
    /\ \A n \in incoming \cup unacked : n < Len(submitted)
    /\ \A i \in DOMAIN acks : acks[i] < Len(submitted)
    /\ \A i \in DOMAIN toClient : toClient[i] < Len(submitted)
    /\ \A c \in Channels : pc[c] \in WithMessage => at[c] < Len(submitted)
    /\ \A c \in Channels : pc[c] = "reply" => Payload(at[c]) \in Replies
    /\ \A c \in Channels : pc[c] = "advance" => Delivered(at[c])

(* The frame the reader takes is one of the agent's.                        *)
LEMMA ReadsNumber ==
    ASSUME TypeOK, NumberInv, NEW n, Reads(n)
    PROVE  /\ n \in Nat /\ n < Len(submitted)
           /\ \A i \in DOMAIN toClient' : toClient'[i] < Len(submitted)
  BY TailDomain DEF Reads, TypeOK, NumberInv

(* An acknowledgement the reader enqueues is for a number of the agent's.   *)
LEMMA AcknowledgeNumber ==
    ASSUME TypeOK, NumberInv, NEW n \in Nat, n < Len(submitted), Acknowledge(n)
    PROVE  \A i \in DOMAIN acks' : acks'[i] < Len(submitted)
  BY AppendDomain DEF Acknowledge, TypeOK, NumberInv

(* A delivery that starts has the payload its program counter says.         *)
LEMMA StartNumber ==
    ASSUME TypeOK, NumberInv, NEW c \in Channels, NEW n \in Nat, n < Len(submitted),
           StartDelivery(c, n), UNCHANGED <<submitted, delivered>>
    PROVE  /\ \A d \in Channels : pc'[d] \in WithMessage => at'[d] < Len(submitted)
           /\ \A d \in Channels : pc'[d] = "reply" => Payload(at'[d]) \in Replies
           /\ \A d \in Channels : pc'[d] = "advance" => Delivered(at'[d])
  BY Zenon DEF StartDelivery, TypeOK, NumberInv, Payload, Delivered

(* Every step keeps it: deliver is given what the agent submitted under the *)
(* number the reader expects, and the number is advanced after it.          *)
LEMMA NumberStep == TypeOK /\ NumberInv /\ [Next]_vars => NumberInv'
<1> SUFFICES ASSUME TypeOK, NumberInv, [Next]_vars PROVE NumberInv'
  OBVIOUS
<1> USE DEF readerVars, agentVars
<1>1. ASSUME NEW n, DropStale(n) PROVE NumberInv'
  BY <1>1, ReadsNumber, Zenon DEF DropStale, NumberInv, Delivered, Payload
<1>2. ASSUME NEW n, FindEarly(n) PROVE NumberInv'
  <2>1. /\ n < Len(submitted) /\ channel \in Channels
        /\ \A i \in DOMAIN toClient' : toClient'[i] < Len(submitted)
    BY <1>2, ReadsNumber, Zenon DEF FindEarly, TypeOK
  <2>2. /\ pc'[channel] = "insert" /\ at'[channel] = n
        /\ \A d \in Channels \ {channel} : pc'[d] = pc[d] /\ at'[d] = at[d]
    BY <1>2, <2>1, Zenon DEF FindEarly, TypeOK
  <2> QED
    BY <1>2, <2>1, <2>2, ZenonT(60) DEF FindEarly, NumberInv, Delivered, Payload, WithMessage
<1>3. ASSUME NEW c \in Channels, Insert(c) PROVE NumberInv'
  <2>1. at[c] \in Nat /\ at[c] < Len(submitted)
    BY <1>3, Zenon DEF Insert, NumberInv, WithMessage, TypeOK
  <2>2. \A d \in Channels : pc'[d] = pc[d] \/ pc'[d] = "idle"
    BY <1>3, Zenon DEF Insert, TypeOK
  <2>3. \A i \in DOMAIN acks' : acks'[i] < Len(submitted)
    BY <1>3, <2>1, AcknowledgeNumber, Zenon DEF Insert, Silent, NumberInv
  <2>4. \A n \in incoming' : n < Len(submitted)
    BY <1>3, <2>1, Zenon DEF Insert, NumberInv
  <2> QED
    BY <1>3, <2>2, <2>3, <2>4, Zenon DEF Insert, NumberInv, Delivered, Payload, WithMessage
<1>4. ASSUME NEW n, TakeExpected(n) PROVE NumberInv'
  <2>1. /\ n \in Nat /\ n < Len(submitted)
        /\ \A i \in DOMAIN toClient' : toClient'[i] < Len(submitted)
        /\ \A i \in DOMAIN acks' : acks'[i] < Len(submitted)
    BY <1>4, ReadsNumber, AcknowledgeNumber, Zenon DEF TakeExpected
  <2>2. /\ \A d \in Channels : pc'[d] \in WithMessage => at'[d] < Len(submitted)
        /\ \A d \in Channels : pc'[d] = "reply" => Payload(at'[d]) \in Replies
        /\ \A d \in Channels : pc'[d] = "advance" => Delivered(at'[d])
    BY <1>4, <2>1, StartNumber, Zenon DEF TakeExpected, TypeOK
  <2> QED
    BY <1>4, <2>1, <2>2, Zenon DEF TakeExpected, NumberInv, Delivered, Payload
<1>5. ASSUME NEW n \in 0..(MaxMessages - 1), AgentSends(n) PROVE NumberInv'
  <2>1. n \in Nat /\ n < Len(submitted)
    BY <1>5, InboundAssumption DEF AgentSends, NumberInv
  <2>2. \A i \in DOMAIN toClient' : toClient'[i] < Len(submitted)
    <3>1. toClient \in Seq(Nat) /\ toClient' = Append(toClient, n)
      BY <1>5, Zenon DEF AgentSends, TypeOK
    <3>2. \A i \in DOMAIN toClient' :
            toClient'[i] = n \/ (i \in DOMAIN toClient /\ toClient'[i] = toClient[i])
      BY <2>1, <3>1, AppendDomain, SMTT(60)
    <3> QED
      BY <2>1, <3>2, Zenon DEF NumberInv
  <2> QED
    BY <1>5, <2>2, Zenon DEF AgentSends, NumberInv, Delivered, Payload
<1>6. ASSUME NEW c \in Channels, Deliver(c) PROVE NumberInv'
  <2>1. at[c] \in Nat
    BY Zenon DEF TypeOK
  <2>2. /\ \A n : Delivered(n) => Delivered(n)'
        /\ Delivered(at[c])'
    <3>1. delivered \in Seq(Nat) /\ delivered' = Append(delivered, at[c])
      BY <1>6, Zenon DEF Deliver, TypeOK
    <3>2. /\ \A i \in DOMAIN delivered : i \in DOMAIN delivered' /\ delivered'[i] = delivered[i]
          /\ Len(delivered) + 1 \in DOMAIN delivered' /\ delivered'[Len(delivered) + 1] = at[c]
      BY <2>1, <3>1, AppendDomain, SMTT(60)
    <3>3. at' = at
      BY <1>6, Zenon DEF Deliver
    <3> QED
      BY <3>2, <3>3, Zenon DEF Delivered
  <2>3. \A d \in Channels : pc'[d] = "advance" => Delivered(at[d])'
    BY <1>6, <2>2, Zenon DEF Deliver, TypeOK, NumberInv
  <2>4. \A d \in Channels : pc'[d] \in WithMessage => pc[d] \in WithMessage
    BY <1>6, Zenon DEF Deliver, TypeOK, WithMessage
  <2>5. \A d \in Channels : pc'[d] = "reply" => pc[d] = "reply"
    BY <1>6, Zenon DEF Deliver, TypeOK
  <2> QED
    BY <1>6, <2>3, <2>4, <2>5, Zenon DEF Deliver, NumberInv, Payload, Delivered
<1>7. ASSUME NEW c \in Channels, ReplyFails(c) \/ ProtocolFails(c) \/ Exit(c) \/ Abort(c)
      PROVE  NumberInv'
  <2>1. /\ pc' = [pc EXCEPT ![c] = "exited"]
        /\ toClient' \in {toClient, <<>>}
        /\ UNCHANGED <<incoming, at, acks, submitted, unacked, delivered>>
    BY <1>7, Zenon DEF ReplyFails, ProtocolFails, Exit, Abort
  <2>2. \A d \in Channels : pc'[d] = pc[d] \/ pc'[d] = "exited"
    BY <2>1, Zenon DEF TypeOK
  <2>3. \A i \in DOMAIN toClient' : toClient'[i] < Len(submitted)
    BY <2>1 DEF NumberInv
  <2> QED
    BY <2>1, <2>2, <2>3, Zenon DEF NumberInv, WithMessage, Delivered, Payload
<1>8. ASSUME NEW c \in Channels, Advance(c) PROVE NumberInv'
  <2>1. /\ pc'[c] = "take"
        /\ \A d \in Channels \ {c} : pc'[d] = pc[d] /\ at'[d] = at[d]
    BY <1>8, Zenon DEF Advance, TypeOK
  <2> QED
    BY <1>8, <2>1, Zenon DEF Advance, NumberInv, Delivered, Payload, WithMessage
<1>14. ASSUME NEW c \in Channels, Take(c) PROVE NumberInv'
  <2>1. incoming' \subseteq incoming /\ at[c] \in Nat
    BY <1>14, Zenon DEF Take, TypeOK
  <2>2. CASE at[c] \in incoming /\ StartDelivery(c, at[c])
    <3>1. at[c] < Len(submitted)
      BY <2>2, Zenon DEF NumberInv
    <3>2. /\ \A d \in Channels : pc'[d] \in WithMessage => at'[d] < Len(submitted)
          /\ \A d \in Channels : pc'[d] = "reply" => Payload(at'[d]) \in Replies
          /\ \A d \in Channels : pc'[d] = "advance" => Delivered(at'[d])
      BY <1>14, <2>1, <2>2, <3>1, StartNumber, Zenon DEF Take
    <3> QED
      BY <1>14, <2>1, <3>2, Zenon DEF Take, NumberInv, Delivered, Payload
  <2>3. CASE pc' = [pc EXCEPT ![c] = "idle"] /\ UNCHANGED at
    <3>1. \A d \in Channels : pc'[d] = pc[d] \/ pc'[d] = "idle"
      BY <2>3, Zenon DEF TypeOK
    <3> QED
      BY <1>14, <2>1, <2>3, <3>1, Zenon DEF Take, NumberInv, Delivered, Payload, WithMessage
  <2> QED
    BY <1>14, <2>2, <2>3, Zenon DEF Take
<1>9. CASE Close
  BY <1>9 DEF Close, NumberInv, Delivered, Payload
<1>10. CASE Resume
  BY <1>10 DEF Resume, Inherited, NumberInv, Delivered, Payload
<1>11. CASE AgentTakesAck
  <2>1. \A i \in DOMAIN acks' : acks'[i] < Len(submitted)
    BY <1>11, TailDomain DEF AgentTakesAck, TypeOK, NumberInv
  <2> QED
    BY <1>11, <2>1, Zenon DEF AgentTakesAck, NumberInv, Delivered, Payload
<1>12. ASSUME NEW d \in Data, AgentSubmits(d) PROVE NumberInv'
  <2>1. Len(submitted) \in Nat /\ Len(submitted') = Len(submitted) + 1
    BY <1>12, AppendDomain, LenProperties DEF AgentSubmits, TypeOK
  <2>2. \A n \in Nat : n < Len(submitted) => submitted'[n + 1] = submitted[n + 1]
    BY <1>12, <2>1, AppendProperties DEF AgentSubmits, TypeOK
  <2>3. \A n \in incoming' \cup unacked' : n < Len(submitted')
    BY <1>12, <2>1 DEF AgentSubmits, NumberInv, TypeOK
  <2>4. /\ \A i \in DOMAIN acks : acks[i] < Len(submitted')
        /\ \A i \in DOMAIN toClient : toClient[i] < Len(submitted')
    BY <2>1 DEF NumberInv, TypeOK
  <2>5. /\ \A c \in Channels : pc[c] \in WithMessage => at[c] < Len(submitted')
        /\ \A c \in Channels : pc[c] = "reply" => Payload(at[c])' \in Replies
    <3>1. \A c \in Channels : pc[c] \in WithMessage => at[c] \in Nat /\ at[c] < Len(submitted)
      BY Zenon DEF NumberInv, TypeOK
    <3>2. \A c \in Channels : pc[c] = "reply" => submitted'[at[c] + 1] \in Replies
      BY <2>2, <3>1, Zenon DEF NumberInv, Payload, WithMessage
    <3>3. at' = at
      BY <1>12, Zenon DEF AgentSubmits
    <3> QED
      BY <2>1, <3>1, <3>2, <3>3 DEF Payload
  <2> QED
    BY <1>12, <2>3, <2>4, <2>5, Zenon DEF AgentSubmits, NumberInv, Delivered
<1>13. CASE UNCHANGED vars
  BY <1>13, Zenon DEF vars, NumberInv, Delivered, Payload
<1> QED
  BY <1>1, <1>2, <1>3, <1>4, <1>5, <1>6, <1>7, <1>8, <1>9, <1>10, <1>11, <1>12, <1>13,
     <1>14, Zenon DEF Next, ReadNext, ReaderNext

(* What is kept stays kept while the session can go on: a reader gives up   *)
(* a message it has not processed only if the message needs a reply.        *)
LEMMA KeptStep ==
    ASSUME TypeOK, NumberInv, [Next]_vars, NEW n \in Nat,
           Kept(n), Payload(n) \notin Replies, status' # "over"
    PROVE  Kept(n)'
<1> USE DEF readerVars, agentVars
<1>1. ASSUME Delivered(n) PROVE Kept(n)'
  <2>1. CASE UNCHANGED delivered
    BY <1>1, <2>1, Zenon DEF Delivered, Kept
  <2>2. ASSUME NEW c \in Channels, Deliver(c) PROVE Kept(n)'
    <3>1. delivered \in Seq(Nat) /\ delivered' = Append(delivered, at[c]) /\ at[c] \in Nat
      BY <2>2, Zenon DEF Deliver, TypeOK
    <3>2. \A i \in DOMAIN delivered : i \in DOMAIN delivered' /\ delivered'[i] = delivered[i]
      BY <3>1, AppendDomain, SMTT(60)
    <3> QED
      BY <1>1, <3>2, Zenon DEF Delivered, Kept
  <2>3. UNCHANGED delivered \/ \E c \in Channels : Deliver(c)
    BY Zenon DEF Next, vars, ReadNext, ReaderNext, DropStale, FindEarly, Insert, TakeExpected,
       AgentSends, ReplyFails, ProtocolFails, Advance, Take, Exit, Abort, Close, Resume,
       AgentTakesAck, AgentSubmits
  <2> QED
    BY <2>1, <2>2, <2>3, Zenon
<1>2. ASSUME n \in incoming PROVE Kept(n)'
  <2>1. CASE n \in incoming'
    BY <2>1, Zenon DEF Kept
  <2>2. ASSUME NEW c \in Channels, Take(c), n \notin incoming' PROVE Kept(n)'
    <3>1. n = at[c] /\ StartDelivery(c, at[c])
      BY <1>2, <2>2, Zenon DEF Take
    <3>2. pc'[c] \in InHand /\ at'[c] = n
      BY <3>1, Zenon DEF StartDelivery, TypeOK, InHand
    <3> QED
      BY <3>2, Zenon DEF Kept
  <2>3. n \in incoming' \/ \E c \in Channels : Take(c)
    BY <1>2, Zenon DEF Next, vars, ReadNext, ReaderNext, DropStale, FindEarly, Insert,
       TakeExpected, AgentSends, Deliver, ReplyFails, ProtocolFails, Advance, Exit, Abort,
       Close, Resume, Inherited, AgentTakesAck, AgentSubmits
  <2> QED
    BY <2>1, <2>2, <2>3, Zenon
<1>3. ASSUME NEW c \in Channels, pc[c] \in InHand, at[c] = n PROVE Kept(n)'
  <2>1. CASE pc'[c] = pc[c] /\ at'[c] = at[c]
    BY <1>3, <2>1, Zenon DEF Kept
  <2>2. CASE Deliver(c)
    <3>1. delivered \in Seq(Nat) /\ delivered' = Append(delivered, n)
      BY <1>3, <2>2, Zenon DEF Deliver, TypeOK
    <3>2. Len(delivered) + 1 \in DOMAIN delivered' /\ delivered'[Len(delivered) + 1] = n
      BY <3>1, AppendDomain, SMTT(60)
    <3> QED
      BY <3>2, Zenon DEF Kept
  <2>3. ~(Insert(c) \/ Advance(c) \/ Take(c) \/ Exit(c))
    BY <1>3, Zenon DEF Insert, Advance, Take, Exit, InHand
  <2>4. CASE ReplyFails(c) \/ Abort(c)
    BY <1>3, <2>4, Zenon DEF ReplyFails, Abort, NumberInv
  <2>5. CASE ProtocolFails(c)
    BY <2>5, Zenon DEF ProtocolFails
  <2>6. ASSUME NEW m, TakeExpected(m) PROVE pc'[c] = pc[c] /\ at'[c] = at[c]
    BY <1>3, <2>6, Zenon DEF TakeExpected, Reads, StartDelivery, TypeOK, InHand
  <2>9. ASSUME NEW m, FindEarly(m) PROVE pc'[c] = pc[c] /\ at'[c] = at[c]
    BY <1>3, <2>9, Zenon DEF FindEarly, Reads, TypeOK, InHand
  <2>7. ASSUME NEW d \in Channels, d # c, ReaderNext(d)
        PROVE  pc'[c] = pc[c] /\ at'[c] = at[c]
    BY <2>7, Zenon DEF ReaderNext, Insert, Deliver, ReplyFails, ProtocolFails, Advance, Take,
       Exit, Abort, StartDelivery, TypeOK
  <2>8. \/ UNCHANGED <<pc, at>> \/ \E m : TakeExpected(m) \/ FindEarly(m)
        \/ \E d \in Channels : ReaderNext(d)
    BY Zenon DEF Next, vars, ReadNext, DropStale, AgentSends, Close, Resume, AgentTakesAck,
       AgentSubmits
  <2> QED
    BY <2>1, <2>2, <2>3, <2>4, <2>5, <2>6, <2>7, <2>8, <2>9, Zenon DEF ReaderNext
<1> QED
  BY <1>1, <1>2, <1>3, Zenon DEF Kept, Delivered

(* route_stream_data acknowledges only what it has just put where it is     *)
(* kept, and a number the agent has just given is not acknowledged.         *)
LEMMA AckedStep ==
    ASSUME TypeOK, NumberInv, [Next]_vars, NEW n \in Nat, Acked(n)'
    PROVE  Acked(n) \/ Kept(n)'
<1> USE DEF readerVars, agentVars
<1>1. ASSUME NEW c \in Channels, Insert(c) PROVE Acked(n) \/ Kept(n)'
  <2> DEFINE m == at[c]
  <2>1. m \in Nat /\ acks \in Seq(Nat)
    BY Zenon DEF TypeOK
  <2>2. CASE acks' = acks
    BY <1>1, <2>2, Zenon DEF Insert, Acked
  <2>3. CASE m \in incoming' /\ Acknowledge(m)
    <3> HIDE DEF m
    <3>1. \A i \in DOMAIN acks' : acks'[i] = m \/ (i \in DOMAIN acks /\ acks'[i] = acks[i])
      BY <2>1, <2>3, AppendDomain, SMTT(60) DEF Acknowledge
    <3> QED
      BY <1>1, <2>3, <3>1, Zenon DEF Insert, Acked, Kept
  <2> QED
    BY <1>1, <2>2, <2>3, Zenon DEF Insert, Silent
<1>2. ASSUME NEW m, TakeExpected(m) PROVE Acked(n) \/ Kept(n)'
  <2>1. m \in Nat /\ acks \in Seq(Nat) /\ channel \in Channels
    BY <1>2, ReadsType, Zenon DEF TakeExpected, TypeOK
  <2>2. \A i \in DOMAIN acks' : acks'[i] = m \/ (i \in DOMAIN acks /\ acks'[i] = acks[i])
    BY <1>2, <2>1, AppendDomain, SMTT(60) DEF TakeExpected, Acknowledge
  <2>3. pc'[channel] \in InHand /\ at'[channel] = m
    BY <1>2, <2>1, Zenon DEF TakeExpected, StartDelivery, TypeOK, InHand
  <2>4. Kept(m)'
    BY <2>1, <2>3, Zenon DEF Kept
  <2> QED
    BY <1>2, <2>2, <2>4, Zenon DEF TakeExpected, Acked
<1>3. CASE Resume
  BY <1>3 DEF Resume, Acked
<1>4. CASE AgentTakesAck
  <2>1. acks \in Seq(Nat) /\ acks # <<>> /\ acks' = Tail(acks)
    BY <1>4, Zenon DEF AgentTakesAck, TypeOK
  <2>2. /\ 1 \in DOMAIN acks /\ Head(acks) = acks[1]
        /\ \A i \in DOMAIN acks' : i + 1 \in DOMAIN acks /\ acks'[i] = acks[i + 1]
    BY <2>1, TailDomain, SMTT(60)
  <2> QED
    BY <1>4, <2>2, Zenon DEF AgentTakesAck, Acked
<1>5. ASSUME NEW d \in Data, AgentSubmits(d) PROVE Acked(n) \/ Kept(n)'
  <2>1. Len(submitted) \in Nat /\ Len(submitted') = Len(submitted) + 1
    BY <1>5, AppendDomain, LenProperties DEF AgentSubmits, TypeOK
  <2>2. n # Len(submitted)
    BY <1>5, <2>1 DEF AgentSubmits, Acked, NumberInv
  <2> QED
    BY <1>5, <2>1, <2>2 DEF AgentSubmits, Acked
<1>6. \/ UNCHANGED <<submitted, unacked, acks>>
      \/ Resume \/ AgentTakesAck
      \/ \E m : TakeExpected(m)
      \/ \E c \in Channels : Insert(c)
      \/ \E d \in Data : AgentSubmits(d)
  BY Zenon DEF Next, vars, ReadNext, ReaderNext, DropStale, FindEarly, AgentSends, Deliver,
     ReplyFails, ProtocolFails, Advance, Take, Exit, Abort, Close
<1>7. CASE UNCHANGED <<submitted, unacked, acks>>
  BY <1>7, Zenon DEF Acked
<1> QED
  BY <1>1, <1>2, <1>3, <1>4, <1>5, <1>6, <1>7, Zenon

(* Every step keeps AckedOutputIsKept: output that is acknowledged is then  *)
(* being delivered, or is in the reorder buffer, which a resumed channel    *)
(* inherits.                                                                *)
LEMMA AckedOutputStep ==
    TypeOK /\ NumberInv /\ AckedOutputIsKept /\ [Next]_vars => AckedOutputIsKept'
<1> SUFFICES ASSUME TypeOK, NumberInv, AckedOutputIsKept, [Next]_vars,
                    NEW n \in 0..(MaxMessages - 1),
                    status' # "over", Acked(n)', Payload(n)' \notin Replies
             PROVE  Kept(n)'
  BY Zenon DEF AckedOutputIsKept
<1>1. n \in Nat
  BY InboundAssumption
<1>2. CASE Kept(n)'
  BY <1>2, Zenon
<1>3. CASE Acked(n)
  <2>1. Payload(n)' = Payload(n)
    <3>1. CASE UNCHANGED submitted
      BY <3>1, Zenon DEF Payload
    <3>2. ASSUME NEW d \in Data, AgentSubmits(d) PROVE Payload(n)' = Payload(n)
      <4>1. n < Len(submitted) /\ Len(submitted) \in Nat /\ submitted \in Seq(Data)
        BY <1>3, LenProperties, Zenon DEF Acked, TypeOK
      <4>2. submitted' = Append(submitted, d)
        BY <3>2, Zenon DEF AgentSubmits
      <4>3. n + 1 \in 1..Len(submitted)
        BY <1>1, <4>1
      <4> QED
        BY <4>1, <4>2, <4>3, AppendProperties DEF Payload
    <3>3. UNCHANGED submitted \/ \E d \in Data : AgentSubmits(d)
      BY Zenon DEF Next, vars, agentVars, ReadNext, ReaderNext, DropStale, FindEarly, Insert,
         TakeExpected, AgentSends, Deliver, ReplyFails, ProtocolFails, Advance, Take, Exit,
         Abort, Close, Resume, AgentTakesAck
    <3> QED
      BY <3>1, <3>2, <3>3, Zenon
  <2>2. status # "over"
    BY Zenon DEF Next, vars, agentVars, ReadNext, ReaderNext, DropStale, FindEarly, Insert,
       TakeExpected, Reads, AgentSends, Deliver, ReplyFails, ProtocolFails, Advance, Take, Exit,
       Abort, Close, Resume, AgentTakesAck, AgentSubmits
  <2>3. Kept(n)
    BY <1>3, <2>1, <2>2, Zenon DEF AckedOutputIsKept
  <2> QED
    BY <1>1, <2>1, <2>3, KeptStep, Zenon
<1> QED
  BY <1>1, <1>2, <1>3, AckedStep, Zenon

(* A fresh channel: nothing is numbered.                                    *)
LEMMA NumberInit == Init => NumberInv /\ AckedOutputIsKept
  BY DEF Init, NumberInv, AckedOutputIsKept, Acked, WithMessage

(* The invariant that AckedOutputIsKept needs to be inductive.              *)
THEOREM NumberInvHolds == Spec => []NumberInv
  BY NumberInit, NumberStep, InboundTypeCorrect, PTL DEF Spec

(* Output that was acknowledged is processed or kept until it is, for every *)
(* number of messages and channels and every capacity: also when the        *)
(* channel is lost and resumed between the acknowledgement and the          *)
(* delivery, and while two readers are at work on one Continuity.           *)
THEOREM AckedIsKept == Spec => []AckedOutputIsKept
  BY NumberInit, AckedOutputStep, NumberInvHolds, InboundTypeCorrect, PTL DEF Spec

-----------------------------------------------------------------------------
(* Order                                                                    *)

(* What the reorder buffer holds lies beyond the number the reader waits    *)
(* for, but for the moment between advance_expected and take.               *)
BufferedIsEarly ==
    cut = FALSE =>
        \A n \in incoming : n > expected \/ (n = expected /\ pc[channel] = "take")

(* Until a reply is cut off by a lost channel only the reader of the        *)
(* channel in use is at work, at the expected number or with an early       *)
(* message, and everything below that number has been processed.            *)
OrderInv ==
    /\ \A c \in Channels : c > channel => pc[c] = "idle"
    /\ cut = FALSE =>
        /\ \A c \in Channels : c # channel => pc[c] \in Waiting
        /\ pc[channel] \in InHand \cup {"advance", "take"} => at[channel] = expected
        /\ pc[channel] = "insert" => at[channel] > expected
        /\ Len(delivered) = IF pc[channel] = "advance" THEN expected + 1 ELSE expected
    /\ BufferedIsEarly

(* A resumed channel starts where the reader of the old one stopped, unless *)
(* that reader was sending a reply.                                         *)
LEMMA OrderStep == TypeOK /\ OrderInv /\ [Next]_vars => OrderInv'
<1> SUFFICES ASSUME TypeOK, OrderInv, [Next]_vars PROVE OrderInv'
  OBVIOUS
<1> USE DEF readerVars, agentVars, Waiting, InHand, Synchronous, BufferedIsEarly
<1>0. /\ channel \in Channels /\ channel \in Nat /\ \A c \in Channels : c \in Nat
      /\ pc \in [Channels -> {"idle", "reply", "exited"} \cup Synchronous]
      /\ at \in [Channels -> Nat] /\ expected \in Nat /\ Len(delivered) \in Nat
      /\ incoming \subseteq Nat
  BY LenProperties DEF TypeOK, Channels
<1>1. CASE UNCHANGED <<pc, at, channel, cut, expected, delivered, incoming>>
  BY <1>1, Zenon DEF OrderInv
<1>2. ASSUME NEW n, TakeExpected(n) PROVE OrderInv'
  BY <1>0, <1>2 DEF TakeExpected, Reads, StartDelivery, OrderInv
<1>11. ASSUME NEW n, FindEarly(n) PROVE OrderInv'
  BY <1>0, <1>11 DEF FindEarly, Reads, OrderInv
<1>12. ASSUME NEW c \in Channels, Insert(c) PROVE OrderInv'
  BY <1>0, <1>12 DEF Insert, OrderInv
<1>3. ASSUME NEW c \in Channels, Deliver(c) PROVE OrderInv'
  <2>1. Len(delivered') = Len(delivered) + 1
    BY <1>0, <1>3, AppendDomain DEF Deliver, TypeOK
  <2> QED
    BY <1>0, <1>3, <2>1, Zenon DEF Deliver, OrderInv
<1>4. ASSUME NEW c \in Channels, ReplyFails(c) PROVE OrderInv'
  <2>1. cut' # FALSE
    BY <1>4, Zenon DEF ReplyFails
  <2>2. \A d \in Channels : d > channel => pc'[d] = "idle"
    BY <1>0, <1>4, Zenon DEF ReplyFails, OrderInv
  <2> QED
    BY <1>4, <2>1, <2>2, Zenon DEF ReplyFails, OrderInv
<1>5. ASSUME NEW c \in Channels, ProtocolFails(c) PROVE OrderInv'
  BY <1>0, <1>5, Zenon DEF ProtocolFails, OrderInv
<1>6. ASSUME NEW c \in Channels, Advance(c) PROVE OrderInv'
  BY <1>0, <1>6 DEF Advance, Successor, OrderInv
<1>13. ASSUME NEW c \in Channels, Take(c) PROVE OrderInv'
  BY <1>0, <1>13 DEF Take, StartDelivery, OrderInv
<1>7. ASSUME NEW c \in Channels, Exit(c) PROVE OrderInv'
  BY <1>0, <1>7 DEF Exit, OrderInv
<1>8. ASSUME NEW c \in Channels, Abort(c) PROVE OrderInv'
  BY <1>0, <1>8, Zenon DEF Abort, OrderInv
<1>9. CASE Resume
  <2>1. channel' \in Channels /\ channel' = channel + 1
    BY <1>0, <1>9, InboundAssumption DEF Resume, Channels
  <2>2. \A c \in Channels : c > channel' => pc'[c] = "idle"
    BY <1>0, <1>9, <2>1 DEF Resume, OrderInv
  <2>3. ASSUME cut' = FALSE
        PROVE  cut = FALSE /\ pc[channel] # "reply"
    BY <1>9, <2>3, Zenon DEF Resume, TypeOK
  <2>4. pc[channel] \notin Synchronous
    BY <1>9, Zenon DEF Resume
  <2>5. ASSUME cut' = FALSE
        PROVE  /\ \A c \in Channels : c # channel' => pc'[c] \in Waiting
               /\ pc'[channel'] = "idle"
               /\ Len(delivered') = expected'
               /\ BufferedIsEarly'
    <3>1. /\ \A c \in Channels : c # channel => pc[c] \in Waiting
          /\ Len(delivered) = IF pc[channel] = "advance" THEN expected + 1 ELSE expected
      BY <2>3, <2>5, Zenon DEF OrderInv
    <3>2. pc[channel] \in Waiting /\ pc[channel] # "advance"
      BY <1>0, <2>3, <2>4, <2>5, Zenon DEF Synchronous
    <3>3. UNCHANGED <<pc, delivered, expected, incoming>>
      BY <1>9, Zenon DEF Resume, Inherited
    <3>4. pc[channel'] = "idle"
      BY <1>0, <2>1 DEF OrderInv
    <3>5. \A n \in incoming : n > expected
      BY <2>3, <2>5, <3>2, Zenon DEF OrderInv
    <3> QED
      BY <3>1, <3>2, <3>3, <3>4, <3>5, Zenon
  <2> QED
    BY <2>2, <2>5, Zenon DEF OrderInv
<1>10. \/ UNCHANGED <<pc, at, channel, cut, expected, delivered, incoming>>
       \/ Resume \/ \E n : TakeExpected(n) \/ FindEarly(n)
       \/ \E c \in Channels : ReaderNext(c)
  BY Zenon DEF Next, vars, ReadNext, DropStale, AgentSends, Close, AgentTakesAck, AgentSubmits
<1> QED
  BY <1>1, <1>2, <1>3, <1>4, <1>5, <1>6, <1>7, <1>8, <1>9, <1>10, <1>11, <1>12, <1>13, Zenon
  DEF ReaderNext

(* The numbers in the agent's stream are those it has given so far.         *)
LEMMA NumbersStep ==
    ASSUME TypeOK, NEW d \in Data, AgentSubmits(d)
    PROVE  Numbers' = Append(Numbers, Len(submitted)) /\ Len(submitted) \in 0..(MaxMessages - 1)
<1>1. Len(submitted) \in Nat /\ Len(submitted') = Len(submitted) + 1
  BY AppendDomain, LenProperties DEF AgentSubmits, TypeOK
<1>2. Len(submitted) \in 0..(MaxMessages - 1)
  BY <1>1, InboundAssumption DEF AgentSubmits
<1> DEFINE m == Len(submitted)
<1>3. Numbers' = [i \in 1..(m + 1) |-> i - 1]
  BY <1>1, Zenon DEF Numbers
<1>4. Numbers \in Seq(Nat) /\ Len(Numbers) = m /\ \A i \in 1..m : Numbers[i] = i - 1
  BY <1>1 DEF Numbers
<1>5. Numbers' \in Seq(Nat) /\ Len(Numbers') = m + 1
  BY <1>1, <1>3
<1> HIDE DEF m
<1>6. /\ Append(Numbers, m) \in Seq(Nat) /\ Len(Append(Numbers, m)) = m + 1
      /\ \A i \in 1..m : Append(Numbers, m)[i] = i - 1
      /\ Append(Numbers, m)[m + 1] = m
  BY <1>1, <1>4, AppendProperties DEF m
<1>7. \A i \in 1..(m + 1) : Numbers'[i] = Append(Numbers, m)[i]
  <2>1. m \in Nat
    BY <1>1, Zenon DEF m
  <2> QED
    BY <1>3, <1>6, <2>1
<1>8. Numbers' = Append(Numbers, m)
  BY <1>5, <1>6, <1>7, SeqEqual, Zenon
<1> QED
  BY <1>2, <1>8, Zenon DEF m

(* A step gives a number, processes the next message, or is invisible to    *)
(* the users of the stream; or a reply has been cut off.                    *)
LEMMA StreamStep ==
    ASSUME TypeOK, NumberInv, OrderInv, [Next]_vars
    PROVE  [Stream!Next \/ cut]_(Stream!vars)
<1> USE DEF Stream!vars
<1>1. ASSUME NEW d \in Data, AgentSubmits(d) PROVE Stream!Next
  <2>1. delivered' = delivered
    BY <1>1, Zenon DEF AgentSubmits
  <2> QED
    BY <1>1, <2>1, NumbersStep, Zenon DEF Stream!Next, Stream!Submit
<1>2. ASSUME NEW c \in Channels, Deliver(c), cut = FALSE PROVE Stream!Next
  <2>1. c = channel
    BY <1>2, Zenon DEF OrderInv, Deliver, Waiting
  <2>2. at[c] = Len(delivered)
    BY <1>2, <2>1, Zenon DEF OrderInv, Deliver, InHand
  <2>3. at[c] < Len(submitted) /\ at[c] \in Nat /\ Len(submitted) \in Nat
    BY <1>2, LenProperties, Zenon DEF Deliver, NumberInv, WithMessage, TypeOK
  <2>4. Len(Numbers) = Len(submitted) /\ \A i \in 1..Len(submitted) : Numbers[i] = i - 1
    BY <2>3 DEF Numbers
  <2>5. Numbers[at[c] + 1] = at[c]
    BY <2>3, <2>4
  <2>6. delivered' = Append(delivered, Numbers[Len(delivered) + 1]) /\ Len(delivered) < Len(Numbers)
    BY <1>2, <2>2, <2>3, <2>4, <2>5, Zenon DEF Deliver
  <2>7. Numbers' = Numbers
    BY <1>2, Zenon DEF Deliver, agentVars, Numbers
  <2> QED
    BY <2>6, <2>7, Zenon DEF Stream!Next, Stream!Deliver
<1>3. \/ UNCHANGED <<delivered, submitted>>
      \/ \E d \in Data : AgentSubmits(d)
      \/ \E c \in Channels : Deliver(c)
  BY Zenon DEF Next, vars, agentVars, ReadNext, ReaderNext, DropStale, FindEarly, Insert,
     TakeExpected, AgentSends, ReplyFails, ProtocolFails, Advance, Take, Exit, Abort, Close,
     Resume, AgentTakesAck
<1>4. CASE UNCHANGED <<delivered, submitted>>
  BY <1>4, Zenon DEF Numbers
<1>5. cut = FALSE \/ cut
  BY Zenon DEF TypeOK
<1> QED
  BY <1>1, <1>2, <1>3, <1>4, <1>5, Zenon

(* A fresh channel delivers from the first number.                          *)
LEMMA OrderInit == Init => OrderInv /\ Stream!Init
<1> SUFFICES ASSUME Init PROVE OrderInv /\ Stream!Init
  OBVIOUS
<1>1. OrderInv
  BY InboundAssumption DEF Init, OrderInv, BufferedIsEarly, Channels, Waiting, InHand
<1>2. Numbers = <<>>
  BY DEF Init, Numbers
<1> QED
  BY <1>1, <1>2, Zenon DEF Init, Stream!Init

(* The safety half of EventuallyProcessed, for every capacity and number of *)
(* channels: until a channel is lost in the middle of a reply no reader     *)
(* waits for a message the reorder buffer holds, also when the buffer was   *)
(* inherited from a lost channel.  After such a loss it may: one reader     *)
(* compares a number with expected, the other advances that and finds       *)
(* nothing to take, and only then the first one inserts.                    *)
THEOREM NothingDueWaits == Spec => []BufferedIsEarly
<1>1. OrderInv => BufferedIsEarly
  BY Zenon DEF OrderInv
<1> QED
  BY <1>1, OrderInit, OrderStep, InboundTypeCorrect, PTL DEF Spec

(* The reader of a data channel hands the agent's messages on in the        *)
(* agent's order and once each, up to the loss of a channel in the middle   *)
(* of a reply: route_stream_data and the hand-over of Continuity implement  *)
(* the abstract stream.                                                     *)
THEOREM InboundRefinement == Spec => ReliableInOrder
<1>1. TypeOK /\ NumberInv /\ OrderInv /\ [Next]_vars => [Stream!Next \/ cut]_(Stream!vars)
  BY StreamStep, Zenon
<1> QED
  BY <1>1, OrderInit, OrderStep, InboundTypeCorrect, NumberInvHolds, PTL
  DEF Spec, ReliableInOrder
=============================================================================
