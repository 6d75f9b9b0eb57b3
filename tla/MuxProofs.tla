----------------------------- MODULE MuxProofs ------------------------------
(***************************************************************************)
(* Proofs about Mux, for every set of streams and every depth of the       *)
(* queues.  The inductive invariant comes in layers: types, what the agent *)
(* can know of a stream, which streams have lost data, who is still to     *)
(* hear of a close, and the numbers of the data on their way to a stream.  *)
(***************************************************************************)
EXTENDS Mux, TLAPS

PushFrame == [cmd : {"PSH"}, id : Streams, n : Nat]
FromAgent == PushFrame \cup [cmd : {"FIN"}, id : Streams] \cup {Corrupt}
ToAgent == [cmd : {"SYN"}, id : Streams] \cup {[cmd |-> "other"]}

(* recv_task has a sender in its hands.                                     *)
Routing == {"push", "full", "evict"}

(* Layer 1: types.  A receive task between two locks has a data frame.      *)
FrameInv ==
    /\ table \in SUBSET Streams /\ known \in SUBSET Streams /\ lost \in SUBSET Streams
    /\ DOMAIN tag = Streams
    /\ recv \in {"loop", "select", "push", "full", "evict", "stopped"}
    /\ recv \in Routing => routing \in PushFrame
    /\ frames \in Seq(ToAgent) /\ sending \in ToAgent \cup {None}
    /\ stream \in [Streams -> {"none", "insert", "syn", "open", "failed", "dropped"}]
    /\ queue \in [Streams -> Seq(Nat)]
    /\ output \in Seq(FromAgent)
    /\ pushed \in [Streams -> Nat] /\ read \in [Streams -> Nat]

(* Layer 2: nothing of a stream is on its way, in either direction, before  *)
(* open_stream has entered it in the table and returned it.                 *)
Opened == {id \in Streams : stream[id] \in {"open", "dropped"}}

KnownInv ==
    /\ \A i \in DOMAIN frames : frames[i].cmd = "SYN" => frames[i].id \in Opened
    /\ sending.cmd = "SYN" => sending.id \in Opened
    /\ known \subseteq Opened
    /\ \A i \in DOMAIN output : output[i].cmd # "corrupt" => output[i].id \in known
    /\ recv \in Routing => routing.id \in known
    /\ lost \subseteq known
    /\ \A id \in Streams \ known : pushed[id] = 0 /\ read[id] = 0 /\ queue[id] = <<>>

(* Layer 3: a stream that has lost data is on its way out of the table, and *)
(* has its reason unless the receive task is about to store it.             *)
LostInv ==
    /\ \A id \in lost \cap table : recv \in {"full", "evict"} /\ routing.id = id
    /\ \A id \in lost : tag[id] = "SlowConsumer" \/ (recv = "full" /\ routing.id = id)

(* Layer 4: the number a stream needs next, and the one it needs from the   *)
(* output that recv_task has yet to take.                                   *)
NextNumber(id) == read[id] + Len(queue[id]) + 1
Due(id) == IF recv = "push" /\ routing.id = id THEN NextNumber(id) + 1 ELSE NextNumber(id)

IsPush(i, id) == output[i].cmd = "PSH" /\ output[i].id = id

(* The data on their way to a stream come in order, and not beyond what the *)
(* agent has sent.                                                          *)
Increasing ==
    /\ \A i, j \in DOMAIN output, id \in Streams :
         IsPush(i, id) /\ IsPush(j, id) /\ i < j => output[i].n < output[j].n
    /\ \A i \in DOMAIN output, id \in Streams : IsPush(i, id) => output[i].n <= pushed[id]

(* The data frame in the hands of recv_task is the one its stream needs.    *)
Routable == recv = "push" /\ ReceiverAlive(routing.id) => routing.n = NextNumber(routing.id)

(* The frames waiting for a stream that still gets data start at the number *)
(* due, without a gap.                                                      *)
ContinuesAt(id) ==
    \A i \in DOMAIN output :
        IsPush(i, id) =>
            /\ output[i].n >= Due(id)
            /\ output[i].n > Due(id) =>
                 \E j \in DOMAIN output : IsPush(j, id) /\ output[j].n = output[i].n - 1
Continues == \A id \in table \ lost : ContinuesAt(id)

(* And while there is someone to give them to they end at the last one sent.*)
CompleteAt(id) ==
    feed = "open" /\ recv # "stopped" =>
        \/ pushed[id] = Due(id) - 1
        \/ \E j \in DOMAIN output : IsPush(j, id) /\ output[j].n = pushed[id]
Complete == \A id \in table \ lost : CompleteAt(id)

OrderInv == GapFree /\ Routable /\ Increasing /\ Continues /\ Complete

-----------------------------------------------------------------------------
(* Queues and frames                                                        *)

(* The length of a queue and its indices.                                   *)
LEMMA LenProperties ==
    ASSUME NEW S, NEW q \in Seq(S)
    PROVE  Len(q) \in Nat /\ DOMAIN q = 1..Len(q)
  OBVIOUS

(* A new queue is empty.                                                    *)
LEMMA EmptySeq == ASSUME NEW S PROVE <<>> \in Seq(S)
  OBVIOUS

(* Append leaves what is there and adds one at the end.                     *)
LEMMA AppendProperties ==
    ASSUME NEW S, NEW q \in Seq(S), NEW e \in S
    PROVE  /\ Append(q, e) \in Seq(S) /\ Append(q, e) # <<>> /\ Len(Append(q, e)) = Len(q) + 1
           /\ \A i \in 1..Len(q) : Append(q, e)[i] = q[i]
           /\ Append(q, e)[Len(q) + 1] = e
  OBVIOUS

(* An appended queue holds what it held, and the new element at its end.    *)
LEMMA AppendDomain ==
    ASSUME NEW S, NEW q \in Seq(S), NEW e \in S, NEW r, r = Append(q, e)
    PROVE  /\ r \in Seq(S) /\ Len(r) = Len(q) + 1 /\ Len(q) \in Nat
           /\ DOMAIN q = 1..Len(q) /\ DOMAIN r = 1..(Len(q) + 1)
           /\ \A i \in DOMAIN q : i \in DOMAIN r /\ r[i] = q[i] /\ i < Len(q) + 1
           /\ \A i \in DOMAIN r : i = Len(q) + 1 \/ (i \in DOMAIN q /\ r[i] = q[i])
           /\ Len(q) + 1 \in DOMAIN r /\ r[Len(q) + 1] = e
<1>1. Len(q) \in Nat /\ DOMAIN q = 1..Len(q)
  BY LenProperties, Zenon
<1>2. /\ r \in Seq(S) /\ Len(r) = Len(q) + 1
      /\ \A i \in 1..Len(q) : r[i] = q[i]
      /\ r[Len(q) + 1] = e
  BY <1>1, AppendProperties
<1>3. DOMAIN r = 1..(Len(q) + 1)
  BY <1>2, LenProperties, Zenon
<1>4. ASSUME NEW i \in 1..(Len(q) + 1)
      PROVE  i = Len(q) + 1 \/ (i \in 1..Len(q) /\ r[i] = q[i])
  <2>1. i \in 1..Len(q) \/ i = Len(q) + 1
    BY <1>1
  <2> QED
    BY <1>2, <2>1, Zenon
<1> QED
  BY <1>1, <1>2, <1>3, <1>4

(* A queue without its head holds the rest, one place further on.           *)
LEMMA TailDomain ==
    ASSUME NEW S, NEW q \in Seq(S), q # <<>>
    PROVE  /\ Head(q) \in S /\ Head(q) = q[1] /\ 1 \in DOMAIN q
           /\ Tail(q) \in Seq(S) /\ Len(Tail(q)) = Len(q) - 1 /\ Len(q) \in Nat
           /\ \A i \in DOMAIN Tail(q) : i + 1 \in DOMAIN q /\ Tail(q)[i] = q[i + 1] /\ i \in Nat
           /\ \A i \in DOMAIN q :
                i # 1 => i - 1 \in DOMAIN Tail(q) /\ Tail(q)[i - 1] = q[i] /\ i - 1 + 1 = i
  OBVIOUS

(* What a frame is follows from its command.                                *)
LEMMA FrameKinds ==
    /\ \A f \in FromAgent : f.cmd = "PSH" => f \in PushFrame
    /\ \A f \in PushFrame : f.cmd = "PSH" /\ f.id \in Streams /\ f.n \in Nat
    /\ \A f \in FromAgent : f.cmd # "corrupt" => f.id \in Streams
    /\ Corrupt \in FromAgent /\ Corrupt.cmd = "corrupt"
    /\ \A id \in Streams : Fin(id) \in FromAgent /\ Fin(id).cmd = "FIN" /\ Fin(id).id = id
    /\ \A id \in Streams, n \in Nat :
         /\ Push(id, n) \in FromAgent /\ Push(id, n).cmd = "PSH"
         /\ Push(id, n).id = id /\ Push(id, n).n = n
  BY DEF FromAgent, PushFrame, Corrupt, Fin, Push

(* What open_stream and the others queue for the agent.                     *)
LEMMA OutgoingKinds ==
    /\ \A id \in Streams : Outgoing("SYN", id) = [cmd |-> "SYN", id |-> id]
    /\ \A id : /\ Outgoing("FIN", id) = [cmd |-> "other"]
               /\ Outgoing("PSH", id) = [cmd |-> "other"]
               /\ Outgoing("NOP", id) = [cmd |-> "other"]
    /\ \A id \in Streams : Outgoing("SYN", id) \in ToAgent
    /\ [cmd |-> "other"] \in ToAgent
    /\ \A f \in ToAgent : f.cmd = "SYN" => f.id \in Streams
    /\ None.cmd # "SYN" /\ [cmd |-> "other"].cmd # "SYN"
  BY DEF Outgoing, ToAgent, None

(* try_send leaves a queue of frames.                                       *)
LEMMA TrySendType ==
    ASSUME frames \in Seq(ToAgent), NEW f \in ToAgent, TrySend(f)
    PROVE  /\ frames' \in Seq(ToAgent)
           /\ \A i \in DOMAIN frames' :
                frames'[i] = f \/ (i \in DOMAIN frames /\ frames'[i] = frames[i])
<1>1. CASE frames' = frames
  BY <1>1, Zenon
<1>2. CASE frames' = Append(frames, f)
  BY <1>2, AppendDomain, SMTT(60)
<1> QED
  BY <1>1, <1>2, Zenon DEF TrySend

(* The frame recv_task takes is the head of its output.                     *)
LEMMA TakesType ==
    ASSUME FrameInv, NEW f, Takes(f)
    PROVE  /\ f \in FromAgent /\ f = output[1] /\ 1 \in DOMAIN output
           /\ output' \in Seq(FromAgent)
           /\ recv \in {"select", "loop"} /\ recv \notin Routing
  BY TailDomain, Zenon DEF FrameInv, Takes, Routing

(* What the fan-out gives recv_task.                                        *)
LEMMA EmitType ==
    ASSUME FrameInv, NEW f \in FromAgent, Emit(f)
    PROVE  output' \in Seq(FromAgent)
<1>1. CASE output' = output
  BY <1>1, Zenon DEF FrameInv
<1>2. CASE output' = Append(output, f)
  BY <1>2, AppendDomain, SMTT(60) DEF FrameInv
<1> QED
  BY <1>1, <1>2, Zenon DEF Emit

-----------------------------------------------------------------------------
(* The steps that touch no data, by what they do to what the layers speak   *)
(* of: nothing; the receive task waits or stops; the send task stops;       *)
(* something other than a SYN is queued for the agent.                      *)
rest == <<table, tag, stream, queue, known, pushed, read, lost>>

Quiet == UNCHANGED <<rest, recv, routing, frames, sending, feed, output>>

RecvRests ==
    /\ recv \in {"loop", "select"}
    /\ \/ recv' = "select" /\ output' = output
       \/ recv' = "stopped" /\ output' \in {output, <<>>}
    /\ UNCHANGED <<rest, routing, frames, sending, feed>>

SendRests == sending' = None /\ UNCHANGED <<rest, recv, routing, frames, feed, output>>

QueuesOther ==
    /\ TrySend([cmd |-> "other"])
    /\ UNCHANGED <<rest, recv, routing, sending, feed, output>>

(* Every step is one of these or one of the rest of the actions.            *)
LEMMA NextCases ==
    ASSUME FrameInv, [Next]_vars
    PROVE  \/ Quiet \/ RecvRests \/ SendRests \/ QueuesOther \/ CloseClear \/ OutputEnds \/ Garbled
           \/ RouteTag(routing) \/ RoutePush(routing) \/ RouteGone(routing) \/ RouteFull(routing)
           \/ Evict \/ SendTake \/ SendDone
           \/ output # <<>> /\ RecvFrame(Head(output))
           \/ \E id \in Streams :
                \/ OpenCheck(id) \/ OpenInsert(id) \/ OpenSyn(id) \/ ReadFrame(id)
                \/ DropStream(id) \/ AgentPushes(id) \/ AgentFinishes(id)
<1> USE DEF rest, innerVars, closeVars, taskVars, streamVars, agentVars
<1>1. CASE CloseNext \/ OwnerDrops
  BY <1>1, Zenon DEF CloseNext, CloseNotify, OwnerDrops, Close, Quiet
<1>2. CASE RecvNext
  <2>1. CASE RecvSelect
    BY <2>1, Zenon DEF RecvSelect, RecvRests
  <2>2. CASE RecvDie
    BY <2>2, Zenon DEF RecvDie, RecvRests
  <2>3. CASE RecvEnd
    BY <2>3, Zenon DEF RecvEnd, RecvRests
  <2> QED
    BY <1>2, <2>1, <2>2, <2>3, Zenon DEF RecvNext
<1>3. CASE SendNext
  <2>1. CASE SendEnable \/ SendAgain
    BY <2>1, Zenon DEF SendEnable, SendAgain, Quiet
  <2>2. CASE SendCheck \/ SendEnd
    BY <2>2, Zenon DEF SendCheck, SendEnd, SendStop, Quiet, SendRests
  <2> QED
    BY <1>3, <2>1, <2>2, Zenon DEF SendNext
<1>4. CASE KeepaliveNext
  BY <1>4, OutgoingKinds, Zenon
  DEF KeepaliveNext, KeepaliveSelect, KeepaliveDie, KeepaliveTick, Quiet, QueuesOther
<1>5. ASSUME NEW id \in Streams, ReadNext(id) PROVE Quiet \/ ReadFrame(id)
  BY <1>5, Zenon DEF ReadNext, ReadEmpty, ReadPending, ReadWoken, Quiet
<1>6. ASSUME NEW id \in Streams, Write(id) \/ Shutdown(id) PROVE QueuesOther
  BY <1>6, OutgoingKinds, Zenon DEF Write, Shutdown, QueuesOther
<1>7. CASE SessionCloses \/ UNCHANGED vars
  BY <1>7, Zenon DEF SessionCloses, vars, Quiet
<1> QED
  BY <1>1, <1>2, <1>3, <1>4, <1>5, <1>6, <1>7, Zenon DEF Next

-----------------------------------------------------------------------------
(* Types                                                                    *)

(* SmuxSession::new                                                         *)
LEMMA FrameInit == Init => FrameInv
<1> SUFFICES ASSUME Init PROVE FrameInv
  OBVIOUS
<1>1. /\ frames \in Seq(ToAgent) /\ output \in Seq(FromAgent)
      /\ queue \in [Streams -> Seq(Nat)]
  BY DEF Init
<1>2. /\ DOMAIN tag = Streams
      /\ stream \in [Streams -> {"none", "insert", "syn", "open", "failed", "dropped"}]
      /\ pushed \in [Streams -> Nat] /\ read \in [Streams -> Nat]
  BY Zenon DEF Init
<1> QED
  BY <1>1, <1>2, Zenon DEF Init, FrameInv, Routing

(* Every step keeps FrameInv, of the tasks, the streams and the agent.      *)
LEMMA FrameStep == FrameInv /\ [Next]_vars => FrameInv'
<1> SUFFICES ASSUME FrameInv, [Next]_vars PROVE FrameInv'
  OBVIOUS
<1> USE DEF rest, innerVars, closeVars, taskVars, streamVars, agentVars, Routing
<1>1. CASE Quiet
  BY <1>1, Zenon DEF Quiet, FrameInv
<1>2. CASE RecvRests
  <2>1. output' \in Seq(FromAgent)
    BY <1>2, EmptySeq, Zenon DEF RecvRests, FrameInv
  <2> QED
    BY <1>2, <2>1, Zenon DEF RecvRests, FrameInv
<1>3. CASE SendRests
  BY <1>3, Zenon DEF SendRests, FrameInv
<1>4. CASE QueuesOther
  <2>1. frames' \in Seq(ToAgent)
    BY <1>4, TrySendType, OutgoingKinds, Zenon DEF QueuesOther, FrameInv
  <2> QED
    BY <1>4, <2>1, Zenon DEF QueuesOther, FrameInv
<1>5. CASE CloseClear \/ OutputEnds
  BY <1>5, Zenon DEF CloseClear, OutputEnds, FrameInv
<1>6. CASE Garbled
  <2>1. output' \in Seq(FromAgent)
    BY <1>6, FrameKinds, AppendDomain, Zenon DEF Garbled, FrameInv
  <2> QED
    BY <1>6, <2>1, Zenon DEF Garbled, FrameInv
<1>7. CASE RouteTag(routing)
  BY <1>7, Zenon DEF RouteTag, FrameInv
<1>8. CASE RoutePush(routing)
  <2>1. routing.id \in Streams /\ routing.n \in Nat
    BY <1>8, FrameKinds, Zenon DEF RoutePush, Routed, FrameInv
  <2>2. Append(queue[routing.id], routing.n) \in Seq(Nat)
    BY <2>1, AppendDomain, Zenon DEF FrameInv
  <2> QED
    BY <1>8, <2>2, Zenon DEF RoutePush, Routed, FrameInv
<1>9. CASE RouteGone(routing) \/ RouteFull(routing)
  BY <1>9, FrameKinds DEF RouteGone, RouteFull, Routed, FrameInv
<1>10. CASE Evict
  <2>1. frames' \in Seq(ToAgent)
    BY <1>10, TrySendType, OutgoingKinds, Zenon DEF Evict, FrameInv
  <2> QED
    BY <1>10, <2>1, Zenon DEF Evict, FrameInv
<1>11. CASE SendTake
  BY <1>11, TailDomain, Zenon DEF SendTake, FrameInv
<1>12. CASE SendDone
  <2>1. known' \in SUBSET Streams
    BY <1>12, OutgoingKinds DEF SendDone, FrameInv
  <2> QED
    BY <1>12, <2>1, Zenon DEF SendDone, FrameInv
<1>13. ASSUME NEW f, RecvFrame(f) PROVE FrameInv'
  <2>1. Takes(f)
    BY <1>13, Zenon DEF RecvFrame, DecodeCorrupt, RouteFin, RouteUnknown, RouteLookup
  <2>2. f \in FromAgent /\ output' \in Seq(FromAgent)
    BY <2>1, TakesType, Zenon
  <2>3. CASE DecodeCorrupt(f)
    BY <2>2, <2>3, Zenon DEF DecodeCorrupt, FrameInv
  <2>4. CASE RouteFin(f)
    BY <2>2, <2>4, Zenon DEF RouteFin, FrameInv
  <2>5. CASE RouteUnknown(f)
    <3>1. frames' \in Seq(ToAgent)
      BY <2>5, TrySendType, OutgoingKinds, Zenon DEF RouteUnknown, FrameInv
    <3> QED
      BY <2>2, <2>5, <3>1, Zenon DEF RouteUnknown, FrameInv
  <2>6. CASE RouteLookup(f)
    BY <2>2, <2>6, FrameKinds, Zenon DEF RouteLookup, FrameInv
  <2> QED
    BY <1>13, <2>3, <2>4, <2>5, <2>6, Zenon DEF RecvFrame
<1>14. ASSUME NEW id \in Streams, OpenCheck(id) \/ OpenInsert(id) PROVE FrameInv'
  BY <1>14, Zenon DEF OpenCheck, OpenInsert, FrameInv
<1>15. ASSUME NEW id \in Streams, OpenSyn(id) PROVE FrameInv'
  <2>1. frames' \in Seq(ToAgent)
    BY <1>15, TrySendType, OutgoingKinds, Zenon DEF OpenSyn, FrameInv
  <2> QED
    BY <1>15, <2>1, Zenon DEF OpenSyn, FrameInv
<1>16. ASSUME NEW id \in Streams, ReadFrame(id) PROVE FrameInv'
  <2>1. queue[id] \in Seq(Nat) /\ queue[id] # <<>>
    BY <1>16, Zenon DEF ReadFrame, FrameInv
  <2>2. Head(queue[id]) \in Nat /\ Tail(queue[id]) \in Seq(Nat)
    BY <2>1, TailDomain, Zenon
  <2> QED
    BY <1>16, <2>2, Zenon DEF ReadFrame, FrameInv
<1>17. ASSUME NEW id \in Streams, DropStream(id) PROVE FrameInv'
  <2>1. frames' \in Seq(ToAgent)
    BY <1>17, TrySendType, OutgoingKinds, Zenon DEF DropStream, FrameInv
  <2>2. queue' \in [Streams -> Seq(Nat)]
    BY <1>17 DEF DropStream, FrameInv
  <2> QED
    BY <1>17, <2>1, <2>2, Zenon DEF DropStream, FrameInv
<1>18. ASSUME NEW id \in Streams, AgentPushes(id) \/ AgentFinishes(id) PROVE FrameInv'
  <2>1. pushed[id] + 1 \in Nat
    BY DEF FrameInv
  <2>2. output' \in Seq(FromAgent)
    BY <1>18, <2>1, EmitType, FrameKinds, Zenon DEF AgentPushes, AgentFinishes
  <2> QED
    BY <1>18, <2>1, <2>2, ZenonT(60) DEF AgentPushes, AgentFinishes, FrameInv
<1> QED
  BY <1>1, <1>2, <1>3, <1>4, <1>5, <1>6, <1>7, <1>8, <1>9, <1>10, <1>11, <1>12, <1>13, <1>14,
     <1>15, <1>16, <1>17, <1>18, NextCases, Zenon

(* The types hold in every reachable state.                                 *)
LEMMA FrameInvHolds == Spec => []FrameInv
  BY FrameInit, FrameStep, PTL DEF Spec

-----------------------------------------------------------------------------
(* What the agent knows of a stream                                         *)

(* A stream that open_stream has returned stays returned.                   *)
LEMMA StreamSteps ==
    ASSUME FrameInv, [Next]_vars, NEW id \in Streams
    PROVE  /\ id \in Opened => id \in Opened'
           /\ id \in known => id \in known'
<1> USE DEF rest, innerVars, closeVars, taskVars, streamVars, agentVars
<1>1. ASSUME NEW j \in Streams, OpenCheck(j) \/ OpenInsert(j) \/ OpenSyn(j) \/ DropStream(j)
      PROVE  (id \in Opened => id \in Opened') /\ known' = known
  BY <1>1, Zenon DEF OpenCheck, OpenInsert, OpenSyn, DropStream, Opened, FrameInv
<1>2. CASE SendDone
  BY <1>2, Zenon DEF SendDone, Opened
<1>3. CASE UNCHANGED <<stream, known>>
  BY <1>3, Zenon DEF Opened
<1>4. \/ UNCHANGED <<stream, known>> \/ SendDone
      \/ \E j \in Streams : OpenCheck(j) \/ OpenInsert(j) \/ OpenSyn(j) \/ DropStream(j)
  BY NextCases, Zenon DEF Quiet, RecvRests, SendRests, QueuesOther, CloseClear, OutputEnds, Garbled,
     RouteTag, RoutePush, RouteGone, RouteFull, Evict, SendTake, RecvFrame, DecodeCorrupt,
     RouteFin, RouteUnknown, RouteLookup, ReadFrame, AgentPushes, AgentFinishes
<1> QED
  BY <1>1, <1>2, <1>3, <1>4, Zenon

(* A SYN is queued by open_stream, after the entry, and for a stream it     *)
(* then returns.                                                            *)
LEMMA SynStep ==
    ASSUME FrameInv, KnownInv, [Next]_vars
    PROVE  /\ \A i \in DOMAIN frames' : frames'[i].cmd = "SYN" => frames'[i].id \in Opened'
           /\ sending'.cmd = "SYN" => sending'.id \in Opened'
           /\ known' \subseteq Opened'
<1> USE DEF rest, innerVars, closeVars, taskVars, streamVars, agentVars
<1>0. /\ \A i \in DOMAIN frames : frames[i] \in ToAgent
      /\ \A f \in ToAgent : f.cmd = "SYN" => f.id \in Streams
      /\ None.cmd # "SYN" /\ [cmd |-> "other"].cmd # "SYN" /\ [cmd |-> "other"] \in ToAgent
  BY OutgoingKinds DEF FrameInv
<1>1. \A id \in Streams : id \in Opened => id \in Opened'
  BY StreamSteps, Zenon
<1>2. /\ \A i \in DOMAIN frames : frames[i].cmd = "SYN" => frames[i].id \in Opened'
      /\ sending.cmd = "SYN" => sending.id \in Opened'
      /\ known \subseteq Opened'
  BY <1>0, <1>1, Zenon DEF KnownInv, FrameInv
<1>3. ASSUME TrySend([cmd |-> "other"])
      PROVE  \A i \in DOMAIN frames' : frames'[i].cmd = "SYN" => frames'[i].id \in Opened'
  <2>1. \A i \in DOMAIN frames' : \/ frames'[i] = [cmd |-> "other"]
                                  \/ i \in DOMAIN frames /\ frames'[i] = frames[i]
    BY <1>0, <1>3, TrySendType, Zenon DEF FrameInv
  <2> QED
    BY <1>0, <1>2, <2>1, Zenon
<1>4. ASSUME NEW id \in Streams, OpenSyn(id)
      PROVE  \A i \in DOMAIN frames' : frames'[i].cmd = "SYN" => frames'[i].id \in Opened'
  <2>1. CASE FrameRoom
    <3>1. id \in Opened'
      BY <1>4, <2>1, Zenon DEF OpenSyn, Opened, FrameInv
    <3>2. Outgoing("SYN", id) \in ToAgent /\ Outgoing("SYN", id).id = id
      BY OutgoingKinds
    <3>3. \A i \in DOMAIN frames' : \/ frames'[i] = Outgoing("SYN", id)
                                    \/ i \in DOMAIN frames /\ frames'[i] = frames[i]
      BY <1>4, <3>2, TrySendType, Zenon DEF OpenSyn, FrameInv
    <3> QED
      BY <1>2, <3>1, <3>2, <3>3, Zenon
  <2>2. CASE ~FrameRoom
    <3>1. frames' = frames
      BY <1>4, <2>2, Zenon DEF OpenSyn, TrySend
    <3> QED
      BY <1>2, <3>1, Zenon
  <2> QED
    BY <2>1, <2>2, Zenon
<1>5. CASE SendTake
  <2>1. frames # <<>> /\ sending' = Head(frames) /\ frames' = Tail(frames) /\ known' = known
    BY <1>5, Zenon DEF SendTake
  <2>2. /\ sending' = frames[1] /\ 1 \in DOMAIN frames
        /\ \A i \in DOMAIN frames' : i + 1 \in DOMAIN frames /\ frames'[i] = frames[i + 1]
    BY <2>1, TailDomain, Zenon DEF FrameInv
  <2> QED
    BY <1>2, <2>1, <2>2, Zenon
<1>6. CASE SendDone
  <2>1. frames' = frames /\ sending' = None
        /\ known' = IF sending.cmd = "SYN" THEN known \cup {sending.id} ELSE known
    BY <1>6, Zenon DEF SendDone
  <2> QED
    BY <1>0, <1>2, <2>1, Zenon
<1>7. CASE SendRests
  BY <1>0, <1>2, <1>7, Zenon DEF SendRests
<1>8. CASE UNCHANGED <<frames, sending, known>>
  BY <1>2, <1>8, Zenon
<1>9. CASE TrySend([cmd |-> "other"]) /\ UNCHANGED <<sending, known>>
  BY <1>2, <1>3, <1>9, Zenon
<1>10. ASSUME NEW id \in Streams, OpenSyn(id) PROVE UNCHANGED <<sending, known>>
  BY <1>10, Zenon DEF OpenSyn
<1>11. \/ UNCHANGED <<frames, sending, known>> \/ SendRests \/ SendTake \/ SendDone
       \/ TrySend([cmd |-> "other"]) /\ UNCHANGED <<sending, known>>
       \/ \E id \in Streams : OpenSyn(id)
  <2>1. \A id : Outgoing("FIN", id) = [cmd |-> "other"]
    BY OutgoingKinds, Zenon
  <2> QED
    BY <2>1, NextCases, Zenon DEF Quiet, RecvRests, QueuesOther, CloseClear, OutputEnds,
       Garbled, RouteTag, RoutePush, RouteGone, RouteFull, Evict, RecvFrame, DecodeCorrupt,
       RouteFin, RouteUnknown, RouteLookup, OpenCheck, OpenInsert, ReadFrame, DropStream,
       AgentPushes, AgentFinishes
<1> QED
  BY <1>2, <1>4, <1>5, <1>6, <1>7, <1>8, <1>9, <1>10, <1>11, Zenon

(* What the agent sends is for streams it has a SYN for; until then nothing *)
(* is numbered, queued or read.                                             *)
LEMMA KnownStep == FrameInv /\ KnownInv /\ [Next]_vars => KnownInv'
<1> SUFFICES ASSUME FrameInv, KnownInv, [Next]_vars PROVE KnownInv'
  OBVIOUS
<1> DEFINE Rest ==
      /\ \A i \in DOMAIN output : output[i].cmd # "corrupt" => output[i].id \in known
      /\ recv \in Routing => routing.id \in known
      /\ lost \subseteq known
      /\ \A id \in Streams \ known : pushed[id] = 0 /\ read[id] = 0 /\ queue[id] = <<>>
<1> SUFFICES Rest'
  BY SynStep, Zenon DEF KnownInv
<1> USE DEF rest, innerVars, closeVars, taskVars, streamVars, agentVars, Routing
<1>0. known \subseteq known' /\ known' \in SUBSET Streams /\ known \in SUBSET Streams
  BY StreamSteps, FrameStep, Zenon DEF FrameInv
<1>1. Rest
  BY Zenon DEF KnownInv
<1>2. CASE UNCHANGED <<output, recv, routing, lost, pushed, read, queue>>
  BY <1>0, <1>1, <1>2, Zenon
<1>3. CASE RecvRests
  BY <1>0, <1>1, <1>3 DEF RecvRests
<1>4. ASSUME NEW f, RecvFrame(f) PROVE Rest'
  <2>1. Takes(f)
    BY <1>4, Zenon DEF RecvFrame, DecodeCorrupt, RouteFin, RouteUnknown, RouteLookup
  <2>2. \A i \in DOMAIN output' : i + 1 \in DOMAIN output /\ output'[i] = output[i + 1]
    BY <2>1, TailDomain, Zenon DEF Takes, FrameInv
  <2>3. f.cmd # "corrupt" => f.id \in known
    BY <1>1, <2>1, TakesType
  <2>4. UNCHANGED <<known, lost, pushed, read, queue>>
    BY <1>4, Zenon DEF RecvFrame, DecodeCorrupt, RouteFin, RouteUnknown, RouteLookup
  <2>5. recv' \in Routing => routing'.id \in known'
    BY <1>4, <2>3, <2>4, Zenon DEF RecvFrame, DecodeCorrupt, RouteFin, RouteUnknown, RouteLookup
  <2> QED
    BY <1>1, <2>2, <2>4, <2>5, Zenon
<1>5. CASE RoutePush(routing) \/ RouteGone(routing)
  BY <1>1, <1>5, Zenon DEF RoutePush, RouteGone, Routed, FrameInv
<1>6. CASE RouteFull(routing) \/ RouteTag(routing) \/ Evict
  BY <1>1, <1>6, Zenon DEF RouteFull, RouteTag, Evict
<1>7. ASSUME NEW id \in Streams, ReadFrame(id) PROVE Rest'
  BY <1>1, <1>7, Zenon DEF ReadFrame, FrameInv
<1>8. ASSUME NEW id \in Streams, DropStream(id) PROVE Rest'
  BY <1>1, <1>8, Zenon DEF DropStream, FrameInv
<1>9. ASSUME NEW f \in FromAgent, f.cmd # "corrupt" => f.id \in known,
             output' = output \/ output' = Append(output, f),
             UNCHANGED <<known, recv, routing, lost, read, queue>>,
             \A id \in Streams \ known : pushed'[id] = pushed[id]
      PROVE  Rest'
  <2>1. \A i \in DOMAIN output' : output'[i] = f \/ (i \in DOMAIN output /\ output'[i] = output[i])
    <3>1. CASE output' = output
      BY <3>1, Zenon
    <3>2. CASE output' = Append(output, f)
      BY <3>2, AppendDomain, SMTT(60) DEF FrameInv
    <3> QED
      BY <1>9, <3>1, <3>2, Zenon
  <2> QED
    BY <1>1, <1>9, <2>1, Zenon
<1>10. CASE Garbled
  BY <1>9, <1>10, FrameKinds, Zenon DEF Garbled
<1>11. ASSUME NEW id \in Streams, AgentPushes(id) PROVE Rest'
  <2>1. pushed[id] + 1 \in Nat
    BY DEF FrameInv
  <2>2. output' = output \/ output' = Append(output, Push(id, pushed[id] + 1))
    BY <1>11, Zenon DEF AgentPushes, Emit
  <2>3. \A j \in Streams \ known : pushed'[j] = pushed[j]
    BY <1>11, Zenon DEF AgentPushes, FrameInv
  <2>4. UNCHANGED <<known, recv, routing, lost, read, queue>> /\ id \in known
    BY <1>11, Zenon DEF AgentPushes
  <2> QED
    BY <1>9, <2>1, <2>2, <2>3, <2>4, FrameKinds
<1>12. ASSUME NEW id \in Streams, AgentFinishes(id) PROVE Rest'
  <2>1. output' = output \/ output' = Append(output, Fin(id))
    BY <1>12, Zenon DEF AgentFinishes, Emit
  <2>2. UNCHANGED <<known, recv, routing, lost, read, queue, pushed>> /\ id \in known
    BY <1>12, Zenon DEF AgentFinishes
  <2> QED
    BY <1>9, <2>1, <2>2, FrameKinds
<1> HIDE DEF Rest
<1> QED
  BY <1>2, <1>3, <1>4, <1>5, <1>6, <1>7, <1>8, <1>10, <1>11, <1>12, NextCases, Zenon
  DEF Quiet, SendRests, QueuesOther, CloseClear, OutputEnds, SendTake, SendDone, OpenCheck,
      OpenInsert, OpenSyn

(* SmuxSession::new                                                         *)
LEMMA KnownInit == Init => KnownInv
  BY DEF Init, KnownInv, None, Routing

(* Nothing of a stream is on its way before open_stream has returned it.    *)
LEMMA KnownInvHolds == Spec => []KnownInv
  BY KnownInit, KnownStep, FrameInvHolds, PTL DEF Spec

-----------------------------------------------------------------------------
(* Streams that have lost data                                              *)

(* Every step keeps LostInv: data is lost in front of a full queue only,    *)
(* and route_push then tags the stream and takes it out of the table.       *)
LEMMA LostStep == FrameInv /\ KnownInv /\ LostInv /\ [Next]_vars => LostInv'
<1> SUFFICES ASSUME FrameInv, KnownInv, LostInv, [Next]_vars PROVE LostInv'
  OBVIOUS
<1> USE DEF rest, innerVars, closeVars, taskVars, streamVars, agentVars
<1>1. CASE UNCHANGED <<lost, tag, recv, routing>> /\ table' \subseteq table
  BY <1>1, Zenon DEF LostInv
<1>2. CASE RecvRests
  BY <1>2, Zenon DEF RecvRests, LostInv
<1>3. CASE CloseClear
  BY <1>3, Zenon DEF CloseClear, FirstTag, LostInv, FrameInv
<1>4. ASSUME NEW f, RecvFrame(f) PROVE LostInv'
  <2>1. Takes(f)
    BY <1>4, Zenon DEF RecvFrame, DecodeCorrupt, RouteFin, RouteUnknown, RouteLookup
  <2>2. lost \cap table = {} /\ \A id \in lost : tag[id] = "SlowConsumer"
    BY <2>1, TakesType, Zenon DEF LostInv, Routing
  <2>3. lost' = lost /\ table' \subseteq table
    BY <1>4, Zenon DEF RecvFrame, DecodeCorrupt, RouteFin, RouteUnknown, RouteLookup
  <2>4. \A id \in lost : tag'[id] = "SlowConsumer"
    BY <1>4, <2>2, Zenon DEF RecvFrame, DecodeCorrupt, RouteFin, RouteUnknown, RouteLookup, FirstTag,
       FrameInv
  <2> QED
    BY <2>2, <2>3, <2>4, Zenon DEF LostInv
<1>5. CASE RoutePush(routing) \/ RouteGone(routing)
  BY <1>5, Zenon DEF RoutePush, RouteGone, Routed, LostInv
<1>6. CASE RouteFull(routing)
  BY <1>6, Zenon DEF RouteFull, LostInv
<1>7. CASE RouteTag(routing)
  BY <1>7, Zenon DEF RouteTag, LostInv, FrameInv
<1>8. CASE Evict
  BY <1>8, Zenon DEF Evict, LostInv
<1>9. ASSUME NEW id \in Streams, OpenInsert(id) PROVE LostInv'
  <2>1. id \notin lost
    BY <1>9, Zenon DEF OpenInsert, KnownInv, Opened
  <2> QED
    BY <1>9, <2>1, Zenon DEF OpenInsert, LostInv
<1>10. ASSUME NEW id \in Streams, OpenSyn(id) \/ DropStream(id) PROVE LostInv'
  <2>1. UNCHANGED <<lost, tag, recv, routing>> /\ table' \subseteq table
    BY <1>10, Zenon DEF OpenSyn, DropStream
  <2> QED
    BY <1>1, <2>1, Zenon
<1>11. CASE UNCHANGED <<lost, tag, recv, routing, table>>
  BY <1>1, <1>11, Zenon
<1> QED
  BY <1>2, <1>3, <1>4, <1>5, <1>6, <1>7, <1>8, <1>9, <1>10, <1>11, NextCases, Zenon
  DEF Quiet, SendRests, QueuesOther, OutputEnds, Garbled, SendTake, SendDone, OpenCheck,
      ReadFrame, AgentPushes, AgentFinishes

(* A stream that has lost data gets nothing more and has its reason.        *)
THEOREM LostInvHolds == Spec => []LostInv
<1>1. Init => LostInv
  BY Zenon DEF Init, LostInv
<1> QED
  BY <1>1, LostStep, FrameInvHolds, KnownInvHolds, PTL DEF Spec

(* Whoever reads to the end of a stream that overflowed learns that it was  *)
(* a slow consumer: no close of the multiplexer and no FIN of the agent     *)
(* takes that reason away or comes before it.                               *)
THEOREM OverflowIsTold == Spec => []EvictionIsTold
<1>1. LostInv => EvictionIsTold
  BY Zenon DEF LostInv, EvictionIsTold
<1> QED
  BY <1>1, LostInvHolds, PTL

-----------------------------------------------------------------------------
(* Nobody sleeps through the close                                          *)

(* Once the multiplexer is closed, a send task that sleeps in its select is *)
(* about to be notified, and a reader that sleeps with an entry in the      *)
(* table is about to lose its sender: the latch is looked at after the      *)
(* future is enqueued, and the close flag after poll_recv was pending.      *)
CloseHeard ==
    /\ send = "select" /\ "send" \in waiting /\ closed => closing = "notify"
    /\ \A id \in Streams : rd[id] = "parked" /\ id \in table /\ closed =>
         closing \in {"notify", "clear"}

(* A stream that is read is past open_stream, and never enters the table    *)
(* again.                                                                   *)
HearInv ==
    /\ rd \in [Streams -> {"poll", "empty", "parked", "eof"}]
    /\ \A id \in Streams : rd[id] # "poll" => stream[id] = "open"
    /\ CloseHeard

(* The swap of Inner::close, won or lost; or no call of it.                 *)
MayClose == (closing' = closing /\ (closed' => closed)) \/ closing' = "notify"

(* Who calls close.                                                         *)
LEMMA CloseSwaps == ASSUME NEW k, NEW r, Close(k, r) PROVE MayClose
  BY Zenon DEF Close, MayClose

(* A step keeps it that does not put the send task to sleep, enters nothing *)
(* in the table and leaves the readers alone.                               *)
LEMMA HearKept ==
    ASSUME HearInv, MayClose, UNCHANGED <<rd, stream>>, table' \subseteq table,
           send' = "select" => send = "select" /\ ("send" \in waiting' => "send" \in waiting)
    PROVE  HearInv'
  BY Zenon DEF HearInv, CloseHeard, MayClose

(* The steps of close itself.                                               *)
LEMMA HearClose ==
    ASSUME HearInv, CloseNext \/ OwnerDrops
    PROVE  HearInv'
<1> USE DEF streamVars
<1>1. CASE CloseNotify
  BY <1>1, Zenon DEF CloseNotify, HearInv, CloseHeard
<1>2. CASE CloseClear
  BY <1>2, Zenon DEF CloseClear, HearInv, CloseHeard
<1>3. CASE OwnerDrops
  BY <1>3, CloseSwaps, HearKept, Zenon DEF OwnerDrops
<1> QED
  BY <1>1, <1>2, <1>3, Zenon DEF CloseNext

(* The tasks.                                                               *)
LEMMA HearTasks ==
    ASSUME HearInv, RecvNext \/ SendNext \/ KeepaliveNext
    PROVE  HearInv'
<1> USE DEF streamVars, innerVars, closeVars
<1>0. UNCHANGED <<closed, closing>> => MayClose
  BY DEF MayClose
<1>1. CASE RecvSelect \/ RecvDie \/ RecvEnd \/ Evict
  BY <1>0, <1>1, CloseSwaps, HearKept, Zenon DEF RecvSelect, RecvDie, RecvEnd, Evict
<1>2. ASSUME NEW f, RecvFrame(f) PROVE HearInv'
  BY <1>0, <1>2, CloseSwaps, HearKept, Zenon
  DEF RecvFrame, DecodeCorrupt, RouteFin, RouteUnknown, RouteLookup, Takes
<1>3. CASE \/ RoutePush(routing) \/ RouteGone(routing) \/ RouteFull(routing)
           \/ RouteTag(routing)
  BY <1>0, <1>3, HearKept, Zenon DEF RoutePush, RouteGone, RouteFull, RouteTag
<1>4. CASE SendEnable \/ SendTake \/ SendAgain \/ SendDone
  BY <1>0, <1>4, HearKept, Zenon DEF SendEnable, SendTake, SendAgain, SendDone
<1>5. CASE SendCheck
  <2>1. CASE SendStop
    BY <1>5, <2>1, CloseSwaps, HearKept, Zenon DEF SendCheck, SendStop
  <2>2. CASE ~SendStop
    <3>1. ~closed /\ UNCHANGED <<closed, closing, table, rd, stream>>
      BY <1>5, <2>2, Zenon DEF SendCheck, Latched
    <3>2. ~closed'
      BY <3>1
    <3> QED
      BY <3>1, <3>2, Zenon DEF HearInv, CloseHeard
  <2> QED
    BY <2>1, <2>2, Zenon
<1>6. CASE SendEnd
  BY <1>6, CloseSwaps, HearKept, Zenon DEF SendEnd, SendStop
<1>7. CASE KeepaliveNext
  BY <1>0, <1>7, HearKept, Zenon DEF KeepaliveNext, KeepaliveSelect, KeepaliveDie, KeepaliveTick
<1> QED
  BY <1>1, <1>2, <1>3, <1>4, <1>5, <1>6, <1>7, Zenon DEF RecvNext, SendNext

(* The streams: a reader goes to sleep only when the flag is not set.       *)
LEMMA HearStream ==
    ASSUME FrameInv, HearInv, NEW id \in Streams,
           \/ OpenCheck(id) \/ OpenInsert(id) \/ OpenSyn(id)
           \/ ReadNext(id) \/ Write(id) \/ Shutdown(id) \/ DropStream(id)
    PROVE  HearInv'
<1> USE DEF streamVars, innerVars, taskVars, closeVars
<1>1. UNCHANGED <<closed, closing, send, waiting>>
  BY Zenon DEF OpenCheck, OpenInsert, OpenSyn, ReadNext, ReadFrame, ReadEmpty, ReadPending,
     ReadWoken, Write, Shutdown, DropStream
<1>2. CASE OpenCheck(id) \/ OpenInsert(id) \/ OpenSyn(id)
  <2>1. /\ rd' = rd /\ rd[id] = "poll" /\ table' \subseteq table \cup {id}
        /\ \A j \in Streams \ {id} : stream'[j] = stream[j]
    BY <1>2, Zenon DEF OpenCheck, OpenInsert, OpenSyn, HearInv, FrameInv
  <2> QED
    BY <1>1, <2>1, Zenon DEF HearInv, CloseHeard
<1>3. CASE ReadNext(id)
  <2>1. UNCHANGED <<stream, table>>
    BY <1>3, Zenon DEF ReadNext, ReadFrame, ReadEmpty, ReadPending, ReadWoken
  <2>2. /\ stream[id] = "open" /\ rd' \in [Streams -> {"poll", "empty", "parked", "eof"}]
        /\ \A j \in Streams \ {id} : rd'[j] = rd[j]
    BY <1>3, Zenon DEF ReadNext, ReadFrame, ReadEmpty, ReadPending, ReadWoken, Reading, IfClosed,
       HearInv
  <2>3. rd'[id] = "parked" => ~closed
    BY <1>3, Zenon DEF ReadNext, ReadFrame, ReadEmpty, ReadPending, ReadWoken, Reading, IfClosed,
       HearInv
  <2> QED
    BY <1>1, <2>1, <2>2, <2>3, Zenon DEF HearInv, CloseHeard
<1>4. CASE Write(id) \/ Shutdown(id)
  <2>1. UNCHANGED <<rd, stream, table>>
    BY <1>4, Zenon DEF Write, Shutdown
  <2> QED
    BY <1>1, <2>1, Zenon DEF HearInv, CloseHeard
<1>5. CASE DropStream(id)
  <2>1. /\ rd' = [rd EXCEPT ![id] = "poll"] /\ table' \subseteq table
        /\ \A j \in Streams \ {id} : stream'[j] = stream[j]
    BY <1>5, Zenon DEF DropStream, FrameInv
  <2> QED
    BY <1>1, <2>1, Zenon DEF HearInv, CloseHeard
<1> QED
  BY <1>2, <1>3, <1>4, <1>5, Zenon

(* The safety half of ReadsEnd and TasksStop, for any number of streams and *)
(* any depth of the queues: neither a reader nor the send task goes to      *)
(* sleep behind a close that has passed.                                    *)
THEOREM NobodySleepsOn == Spec => []CloseHeard
<1>1. Init => HearInv
  BY Zenon DEF Init, HearInv, CloseHeard
<1>2. FrameInv /\ HearInv /\ [Next]_vars => HearInv'
  <2> SUFFICES ASSUME FrameInv, HearInv, [Next]_vars PROVE HearInv'
    OBVIOUS
  <2>1. CASE UNCHANGED <<closed, closing, send, waiting, rd, stream, table>>
    BY <2>1, Zenon DEF HearInv, CloseHeard
  <2>2. CASE \/ SessionCloses \/ OutputEnds \/ Garbled \/ UNCHANGED vars
             \/ \E id \in Streams : AgentPushes(id) \/ AgentFinishes(id)
    BY <2>1, <2>2, Zenon DEF SessionCloses, OutputEnds, Garbled, AgentPushes, AgentFinishes,
       vars, innerVars, taskVars, closeVars, streamVars
  <2> QED
    BY <2>2, HearClose, HearTasks, HearStream, Zenon DEF Next
<1>3. HearInv => CloseHeard
  BY Zenon DEF HearInv
<1> QED
  BY <1>1, <1>2, <1>3, FrameInvHolds, PTL DEF Spec

-----------------------------------------------------------------------------
(* The order of the data                                                    *)

(* What the two queues of frames hold, said for the provers.                *)
LEMMA OutputTyped ==
    ASSUME FrameInv
    PROVE  /\ \A i \in DOMAIN output : i \in Nat /\ output[i] \in FromAgent
           /\ \A i \in DOMAIN output : output[i].cmd = "PSH" => output[i].n \in Nat /\ output[i].id \in Streams
  BY FrameKinds DEF FrameInv

(* Taking the head of the output moves every other frame up one place.      *)
LEMMA TakesOrder ==
    ASSUME FrameInv, NEW f, Takes(f)
    PROVE  /\ \A i \in DOMAIN output' : i \in Nat /\ i + 1 \in DOMAIN output /\ output'[i] = output[i + 1]
           /\ \A i \in DOMAIN output : i # 1 => i - 1 \in DOMAIN output' /\ output'[i - 1] = output[i]
           /\ f = output[1] /\ 1 \in DOMAIN output
           /\ \A i \in DOMAIN output : i >= 1
  BY TailDomain DEF FrameInv, Takes

(* The fan-out appends, or evicts and gives nothing more.                   *)
LEMMA EmitOrder ==
    ASSUME FrameInv, NEW f \in FromAgent, output' = Append(output, f)
    PROVE  /\ \A i \in DOMAIN output : i \in DOMAIN output' /\ output'[i] = output[i]
           /\ \A i \in DOMAIN output' :
                \/ i \in DOMAIN output /\ output'[i] = output[i]
                \/ i = Len(output) + 1 /\ output'[i] = f
           /\ Len(output) + 1 \in DOMAIN output' /\ output'[Len(output) + 1] = f
           /\ \A i \in DOMAIN output : i < Len(output) + 1
           /\ Len(output) \in Nat
  BY AppendDomain, SMTT(60) DEF FrameInv

(* The agent numbers its data in order, and the fan-out keeps the order.    *)
LEMMA IncreasingStep ==
    ASSUME FrameInv, Increasing, [Next]_vars
    PROVE  Increasing'
<1> USE DEF rest, innerVars, closeVars, taskVars, streamVars, agentVars
<1>0. /\ \A i \in DOMAIN output : i \in Nat
      /\ \A i \in DOMAIN output : output[i].cmd = "PSH" => output[i].n \in Nat
      /\ pushed \in [Streams -> Nat]
  BY OutputTyped, Zenon DEF FrameInv
<1>1. CASE UNCHANGED <<output, pushed>>
  BY <1>1, Zenon DEF Increasing, IsPush
<1>2. CASE RecvRests
  BY <1>2 DEF RecvRests, Increasing, IsPush
<1>3. ASSUME NEW f, RecvFrame(f) PROVE Increasing'
  <2>1. Takes(f) /\ UNCHANGED pushed
    BY <1>3, Zenon DEF RecvFrame, DecodeCorrupt, RouteFin, RouteUnknown, RouteLookup
  <2>2. \A i \in DOMAIN output' : i \in Nat /\ i + 1 \in DOMAIN output /\ output'[i] = output[i + 1]
    BY <2>1, TakesOrder, Zenon
  <2> QED
    BY <1>0, <2>1, <2>2 DEF Increasing, IsPush
<1>4. ASSUME NEW f \in FromAgent, f.cmd # "PSH", output' = output \/ output' = Append(output, f),
             UNCHANGED pushed
      PROVE  Increasing'
  <2>1. CASE output' = output
    BY <1>1, <1>4, <2>1, Zenon
  <2>2. CASE output' = Append(output, f)
    <3>1. \A i \in DOMAIN output' : \/ i \in DOMAIN output /\ output'[i] = output[i]
                                    \/ output'[i] = f
      BY <2>2, EmitOrder, Zenon
    <3> QED
      BY <1>4, <3>1, Zenon DEF Increasing, IsPush
  <2> QED
    BY <1>4, <2>1, <2>2, Zenon
<1>5. CASE Garbled
  BY <1>4, <1>5, FrameKinds, Zenon DEF Garbled
<1>6. ASSUME NEW id \in Streams, AgentFinishes(id) PROVE Increasing'
  <2>1. (output' = output \/ output' = Append(output, Fin(id))) /\ UNCHANGED pushed
    BY <1>6, Zenon DEF AgentFinishes, Emit
  <2> QED
    BY <1>4, <2>1, FrameKinds, Zenon
<1>7. ASSUME NEW id \in Streams, AgentPushes(id) PROVE Increasing'
  <2> DEFINE f == Push(id, pushed[id] + 1)
  <2>1. /\ f \in FromAgent /\ f.cmd = "PSH" /\ f.id = id /\ f.n = pushed[id] + 1
        /\ pushed[id] \in Nat
    BY <1>0, FrameKinds
  <2>2. /\ output' = output \/ output' = Append(output, f)
        /\ pushed' = [pushed EXCEPT ![id] = @ + 1]
    BY <1>7, Zenon DEF AgentPushes, Emit
  <2> HIDE DEF f
  <2>3. \A j \in Streams : pushed[j] <= pushed'[j] /\ pushed[j] \in Nat /\ pushed'[j] \in Nat
    BY <1>0, <2>2
  <2>4. pushed'[id] = pushed[id] + 1
    BY <1>0, <2>2, Zenon
  <2>5. CASE output' = output
    BY <1>0, <2>3, <2>5 DEF Increasing, IsPush
  <2>6. CASE output' = Append(output, f)
    <3>1. /\ \A i \in DOMAIN output' :
                \/ i \in DOMAIN output /\ output'[i] = output[i]
                \/ i = Len(output) + 1 /\ output'[i] = f
          /\ \A i \in DOMAIN output : i < Len(output) + 1
          /\ Len(output) \in Nat
      BY <2>1, <2>6, EmitOrder, Zenon
    <3>2. ASSUME NEW i \in DOMAIN output', NEW j \in Streams, IsPush(i, j)'
          PROVE  output'[i].n <= pushed'[j]
      BY <1>0, <2>1, <2>3, <2>4, <3>1, <3>2 DEF Increasing, IsPush
    <3>3. ASSUME NEW i \in DOMAIN output', NEW k \in DOMAIN output', NEW j \in Streams,
                 IsPush(i, j)', IsPush(k, j)', i < k
          PROVE  output'[i].n < output'[k].n
      <4>1. i \in DOMAIN output /\ output'[i] = output[i]
        BY <1>0, <3>1, <3>3
      <4>2. CASE k \in DOMAIN output /\ output'[k] = output[k]
        BY <3>3, <4>1, <4>2, Zenon DEF Increasing, IsPush
      <4>3. CASE output'[k] = f
        <5>1. j = id /\ output[i].n <= pushed[id] /\ output[i].n \in Nat
          BY <1>0, <2>1, <3>3, <4>1, <4>3, Zenon DEF Increasing, IsPush
        <5> QED
          BY <2>1, <4>1, <4>3, <5>1
      <4> QED
        BY <3>1, <4>2, <4>3, Zenon
    <3> QED
      BY <3>2, <3>3, Zenon DEF Increasing
  <2> QED
    BY <2>2, <2>5, <2>6, Zenon
<1> QED
  BY <1>1, <1>2, <1>3, <1>5, <1>6, <1>7, NextCases, Zenon
  DEF Quiet, SendRests, QueuesOther, CloseClear, OutputEnds, RouteTag, RoutePush, RouteGone,
      RouteFull, Evict, SendTake, SendDone, OpenCheck, OpenInsert, OpenSyn, ReadFrame, DropStream

(* recv_task finds a stream that still gets data the frame it needs.        *)
LEMMA HeadIsDue ==
    ASSUME FrameInv, LostInv, Increasing, Continues, NEW f, Takes(f), f.cmd = "PSH", f.id \in table
    PROVE  f.id \in table \ lost /\ f.n = Due(f.id) /\ Due(f.id) = NextNumber(f.id)
<1>1. recv \notin Routing /\ f = output[1] /\ 1 \in DOMAIN output
  BY TakesType, Zenon
<1>2. f.id \in table \ lost /\ Due(f.id) = NextNumber(f.id)
  BY <1>1, Zenon DEF LostInv, Routing, Due
<1>3. NextNumber(f.id) \in Nat
  BY <1>2 DEF NextNumber, FrameInv
<1>4. /\ \A i \in DOMAIN output : i \in Nat /\ i >= 1
      /\ \A i \in DOMAIN output : output[i].cmd = "PSH" => output[i].n \in Nat
  BY OutputTyped, TakesOrder, Zenon
<1>5. ~\E j \in DOMAIN output : IsPush(j, f.id) /\ output[j].n = f.n - 1
  <2> SUFFICES ASSUME NEW j \in DOMAIN output, IsPush(j, f.id), output[j].n = f.n - 1 PROVE FALSE
    OBVIOUS
  <2>1. j > 1
    BY <1>1, <1>4
  <2>2. f.id \in Streams /\ IsPush(1, f.id)
    BY <1>1, <1>2, Zenon DEF FrameInv, IsPush
  <2>3. output[1].n < output[j].n
    BY <1>1, <1>4, <2>1, <2>2, Zenon DEF Increasing
  <2> QED
    BY <1>1, <1>4, <2>3
<1>6. f.n >= Due(f.id) /\ ~(f.n > Due(f.id))
  BY <1>1, <1>2, <1>5 DEF Continues, ContinuesAt, IsPush
<1> QED
  BY <1>1, <1>2, <1>3, <1>4, <1>6

(* Every stream has a next number.                                          *)
LEMMA NumbersTyped ==
    ASSUME FrameInv, NEW id \in Streams
    PROVE  /\ read[id] \in Nat /\ queue[id] \in Seq(Nat) /\ Len(queue[id]) \in Nat
           /\ NextNumber(id) \in Nat /\ Due(id) \in Nat
  BY LenProperties DEF FrameInv, NextNumber, Due

(* A queue numbered from r on, read from or appended to.                    *)
LEMMA TailNumbers ==
    ASSUME NEW q \in Seq(Nat), q # <<>>, NEW r \in Nat, \A i \in DOMAIN q : q[i] = r + i
    PROVE  /\ Head(q) = r + 1
           /\ \A i \in DOMAIN Tail(q) : Tail(q)[i] = Head(q) + i
           /\ Head(q) + Len(Tail(q)) + 1 = r + Len(q) + 1
<1>1. /\ Head(q) = q[1] /\ 1 \in DOMAIN q /\ Len(Tail(q)) = Len(q) - 1 /\ Len(q) \in Nat
      /\ \A i \in DOMAIN Tail(q) : i + 1 \in DOMAIN q /\ Tail(q)[i] = q[i + 1] /\ i \in Nat
  BY TailDomain, Zenon
<1>2. Head(q) = r + 1
  BY <1>1, Zenon
<1>3. ASSUME NEW i \in DOMAIN Tail(q) PROVE Tail(q)[i] = Head(q) + i
  <2>1. Tail(q)[i] = r + (i + 1) /\ i \in Nat
    BY <1>1, Zenon
  <2>2. r + (i + 1) = (r + 1) + i
    BY <2>1
  <2> QED
    BY <1>2, <2>1, <2>2, Zenon
<1>4. Head(q) + Len(Tail(q)) + 1 = r + Len(q) + 1
  BY <1>1, <1>2
<1> QED
  BY <1>2, <1>3, <1>4, Zenon

(* The same for the other end.                                              *)
LEMMA AppendNumbers ==
    ASSUME NEW q \in Seq(Nat), NEW r \in Nat, \A i \in DOMAIN q : q[i] = r + i,
           NEW n, n = r + Len(q) + 1
    PROVE  /\ \A i \in DOMAIN Append(q, n) : Append(q, n)[i] = r + i
           /\ r + Len(Append(q, n)) + 1 = n + 1
<1>1. Len(q) \in Nat /\ n \in Nat
  BY LenProperties
<1>2. /\ Len(Append(q, n)) = Len(q) + 1
      /\ \A i \in DOMAIN Append(q, n) : i = Len(q) + 1 \/ (i \in DOMAIN q /\ Append(q, n)[i] = q[i])
      /\ Append(q, n)[Len(q) + 1] = n
  BY <1>1, AppendDomain, SMTT(60)
<1>3. ASSUME NEW i \in DOMAIN Append(q, n) PROVE Append(q, n)[i] = r + i
  <2>1. CASE i = Len(q) + 1
    <3>1. Append(q, n)[i] = n
      BY <1>2, <2>1, Zenon
    <3> QED
      BY <1>1, <2>1, <3>1
  <2>2. CASE i \in DOMAIN q /\ Append(q, n)[i] = q[i]
    BY <2>2, Zenon
  <2> QED
    BY <1>2, <2>1, <2>2, Zenon
<1> QED
  BY <1>1, <1>2, <1>3

(* A read takes the number from the queue and leaves what is due alone.     *)
LEMMA ReadStep ==
    ASSUME FrameInv, GapFree, NEW id \in Streams, ReadFrame(id)
    PROVE  GapFree' /\ \A j \in Streams : NextNumber(j)' = NextNumber(j)
<1>1. queue[id] \in Seq(Nat) /\ queue[id] # <<>> /\ read[id] \in Nat
  BY Zenon DEF ReadFrame, FrameInv
<1>2. /\ queue'[id] = Tail(queue[id]) /\ read'[id] = Head(queue[id])
      /\ \A j \in Streams : j # id => queue'[j] = queue[j] /\ read'[j] = read[j]
  BY Zenon DEF ReadFrame, FrameInv
<1>3. /\ \A i \in DOMAIN queue'[id] : queue'[id][i] = read'[id] + i
      /\ read'[id] + Len(queue'[id]) + 1 = read[id] + Len(queue[id]) + 1
  <2>1. \A i \in DOMAIN queue[id] : queue[id][i] = read[id] + i
    BY Zenon DEF GapFree
  <2>2. /\ \A i \in DOMAIN Tail(queue[id]) : Tail(queue[id])[i] = Head(queue[id]) + i
        /\ Head(queue[id]) + Len(Tail(queue[id])) + 1 = read[id] + Len(queue[id]) + 1
    BY <1>1, <2>1, TailNumbers, Zenon
  <2> QED
    BY <1>2, <2>2, Zenon
<1>4. ASSUME NEW j \in Streams
      PROVE  /\ \A i \in DOMAIN queue'[j] : queue'[j][i] = read'[j] + i
             /\ NextNumber(j)' = NextNumber(j)
  <2>1. CASE j = id
    BY <1>3, <2>1, Zenon DEF NextNumber
  <2>2. CASE j # id
    BY <1>2, <2>2, Zenon DEF GapFree, NextNumber
  <2> QED
    BY <2>1, <2>2, Zenon
<1> QED
  BY <1>4, Zenon DEF GapFree

(* A delivery extends the queue by the number it needs.                     *)
LEMMA RouteStep ==
    ASSUME FrameInv, GapFree, Routable, RoutePush(routing)
    PROVE  /\ GapFree'
           /\ \A j \in Streams :
                NextNumber(j)' = IF j = routing.id THEN NextNumber(j) + 1 ELSE NextNumber(j)
<1>1. PICK id \in Streams : id = routing.id
  BY FrameKinds, Zenon DEF RoutePush, Routed, FrameInv, Routing
<1>2. routing.n = read[id] + Len(queue[id]) + 1
  BY <1>1, Zenon DEF RoutePush, Routed, Routable, NextNumber
<1>3. read[id] \in Nat /\ queue[id] \in Seq(Nat)
  BY NumbersTyped, Zenon
<1>4. /\ queue'[id] = Append(queue[id], routing.n) /\ read' = read
      /\ \A j \in Streams : j # id => queue'[j] = queue[j]
  BY <1>1, Zenon DEF RoutePush, FrameInv
<1>5. /\ \A i \in DOMAIN queue'[id] : queue'[id][i] = read'[id] + i
      /\ read'[id] + Len(queue'[id]) + 1 = (read[id] + Len(queue[id]) + 1) + 1
  BY <1>2, <1>3, <1>4, AppendNumbers DEF GapFree
<1>6. ASSUME NEW j \in Streams
      PROVE  /\ \A i \in DOMAIN queue'[j] : queue'[j][i] = read'[j] + i
             /\ NextNumber(j)' = IF j = id THEN NextNumber(j) + 1 ELSE NextNumber(j)
  <2>1. CASE j = id
    BY <1>5, <2>1, Zenon DEF NextNumber
  <2>2. CASE j # id
    BY <1>4, <2>2, Zenon DEF GapFree, NextNumber
  <2> QED
    BY <2>1, <2>2, Zenon
<1> QED
  BY <1>1, <1>6, Zenon DEF GapFree

(* Every queue goes on from what was read, and the frame in the hands of    *)
(* recv_task goes on from the queue.                                        *)
LEMMA QueueStep ==
    ASSUME FrameInv, KnownInv, LostInv, OrderInv, [Next]_vars
    PROVE  GapFree' /\ Routable'
<1> USE DEF rest, innerVars, closeVars, taskVars, streamVars, agentVars
<1>0. GapFree /\ Routable /\ Increasing /\ Continues
  BY Zenon DEF OrderInv
<1>1. recv = "push" => routing.id \in known /\ routing.id \in Streams
  BY FrameKinds, Zenon DEF FrameInv, KnownInv, Routing
<1>2. ASSUME UNCHANGED <<queue, read>>, recv' = "push" => recv = "push" /\ UNCHANGED <<routing, stream>>
      PROVE  GapFree' /\ Routable'
  BY <1>0, <1>2, Zenon DEF GapFree, Routable, ReceiverAlive, NextNumber
<1>3. ASSUME NEW id \in Streams, OpenCheck(id) \/ OpenInsert(id) \/ OpenSyn(id)
      PROVE  GapFree' /\ Routable'
  <2>1. UNCHANGED <<queue, read, recv, routing>>
    BY <1>3, Zenon DEF OpenCheck, OpenInsert, OpenSyn
  <2>2. id \notin known
    BY <1>3, Zenon DEF OpenCheck, OpenInsert, OpenSyn, KnownInv, Opened
  <2>3. recv = "push" => stream'[routing.id] = stream[routing.id]
    BY <1>1, <1>3, <2>2, Zenon DEF OpenCheck, OpenInsert, OpenSyn, FrameInv
  <2> QED
    BY <1>0, <2>1, <2>3, Zenon DEF GapFree, Routable, ReceiverAlive, NextNumber
<1>4. ASSUME NEW id \in Streams, ReadFrame(id) PROVE GapFree' /\ Routable'
  <2>1. GapFree' /\ \A j \in Streams : NextNumber(j)' = NextNumber(j)
    BY <1>0, <1>4, ReadStep, Zenon
  <2>2. UNCHANGED <<recv, routing, stream>>
    BY <1>4, Zenon DEF ReadFrame
  <2>3. ASSUME recv = "push", ReceiverAlive(routing.id)
        PROVE  routing.n = read'[routing.id] + Len(queue'[routing.id]) + 1
    BY <1>0, <1>1, <2>1, <2>3, Zenon DEF Routable, NextNumber
  <2> QED
    BY <2>1, <2>2, <2>3, Zenon DEF Routable, ReceiverAlive, NextNumber
<1>5. ASSUME NEW id \in Streams, DropStream(id) PROVE GapFree' /\ Routable'
  <2>1. /\ queue'[id] = <<>> /\ stream'[id] = "dropped" /\ UNCHANGED <<read, recv, routing>>
        /\ \A j \in Streams : j # id => queue'[j] = queue[j] /\ stream'[j] = stream[j]
    BY <1>5, Zenon DEF DropStream, FrameInv
  <2>2. GapFree'
    BY <1>0, <2>1 DEF GapFree
  <2>3. Routable'
    BY <1>0, <1>1, <2>1, Zenon DEF Routable, ReceiverAlive, NextNumber
  <2> QED
    BY <2>2, <2>3, Zenon
<1>6. CASE RoutePush(routing)
  <2>1. recv' # "push"
    BY <1>6, Zenon DEF RoutePush, Routed
  <2> QED
    BY <1>0, <1>6, <2>1, RouteStep, Zenon DEF Routable
<1>7. ASSUME NEW f, RouteLookup(f) PROVE GapFree' /\ Routable'
  <2>1. Takes(f) /\ f.cmd = "PSH" /\ f.id \in table /\ routing' = f /\ UNCHANGED <<queue, read>>
    BY <1>7, Zenon DEF RouteLookup
  <2>2. f.n = NextNumber(f.id)
    BY <1>0, <2>1, HeadIsDue, Zenon
  <2> QED
    BY <1>0, <2>1, <2>2, Zenon DEF GapFree, Routable, NextNumber
<1>8. ASSUME NEW f, DecodeCorrupt(f) \/ RouteFin(f) \/ RouteUnknown(f) PROVE GapFree' /\ Routable'
  BY <1>2, <1>8, Zenon DEF DecodeCorrupt, RouteFin, RouteUnknown
<1>9. CASE RecvRests \/ RouteGone(routing) \/ RouteFull(routing) \/ RouteTag(routing) \/ Evict
  BY <1>2, <1>9, Zenon DEF RecvRests, RouteGone, Routed, RouteFull, RouteTag, Evict
<1>10. CASE UNCHANGED <<queue, read, recv, routing, stream>>
  BY <1>2, <1>10, Zenon
<1> QED
  BY <1>3, <1>4, <1>5, <1>6, <1>7, <1>8, <1>9, <1>10, NextCases, Zenon
  DEF RecvFrame, Quiet, SendRests, QueuesOther, CloseClear, OutputEnds, Garbled, SendTake, SendDone,
      AgentPushes, AgentFinishes

(* The number due from the output moves only when recv_task takes the frame.*)
LEMMA DueSteps ==
    ASSUME FrameInv, OrderInv, [Next]_vars, NEW id \in Streams, id \in table' \ lost'
    PROVE  \/ OpenInsert(id)
           \/ RouteLookup(Head(output)) /\ Head(output).id = id
           \/ id \in table \ lost /\ Due(id)' = Due(id)
<1> USE DEF rest, innerVars, closeVars, taskVars, streamVars, agentVars
<1>0. GapFree /\ Routable
  BY Zenon DEF OrderInv
<1>1. ASSUME table' \subseteq table, lost' = lost, UNCHANGED <<queue, read, recv, routing>>
      PROVE  id \in table \ lost /\ Due(id)' = Due(id)
  BY <1>1, Zenon DEF Due, NextNumber
<1>2. ASSUME table' \subseteq table, lost' = lost, UNCHANGED <<queue, read>>,
             recv # "push", recv' # "push"
      PROVE  id \in table \ lost /\ Due(id)' = Due(id)
  BY <1>2, Zenon DEF Due, NextNumber
<1>3. ASSUME NEW j \in Streams, OpenInsert(j), j # id
      PROVE  id \in table \ lost /\ Due(id)' = Due(id)
  BY <1>3, Zenon DEF OpenInsert, Due, NextNumber
<1>4. ASSUME NEW j \in Streams, ReadFrame(j) PROVE id \in table \ lost /\ Due(id)' = Due(id)
  <2>1. NextNumber(id)' = NextNumber(id)
    BY <1>0, <1>4, ReadStep, Zenon
  <2> QED
    BY <1>4, <2>1, Zenon DEF ReadFrame, Due
<1>5. ASSUME NEW j \in Streams, DropStream(j) PROVE id \in table \ lost /\ Due(id)' = Due(id)
  BY <1>5, Zenon DEF DropStream, Due, NextNumber, FrameInv
<1>6. CASE RoutePush(routing)
  <2>1. NextNumber(id)' = IF id = routing.id THEN NextNumber(id) + 1 ELSE NextNumber(id)
    BY <1>0, <1>6, RouteStep, Zenon
  <2>2. recv = "push" /\ recv' = "loop" /\ UNCHANGED <<table, lost>>
    BY <1>6, Zenon DEF RoutePush, Routed
  <2> QED
    BY <2>1, <2>2, Zenon DEF Due
<1>7. CASE RouteGone(routing) \/ RouteFull(routing)
  BY <1>7, Zenon DEF RouteGone, RouteFull, Routed, Due, NextNumber
<1>8. CASE RecvRests \/ RouteTag(routing) \/ Evict
  BY <1>2, <1>8, Zenon DEF RecvRests, RouteTag, Evict
<1>9. CASE DecodeCorrupt(Head(output)) \/ RouteFin(Head(output)) \/ RouteUnknown(Head(output))
  BY <1>2, <1>9, Zenon DEF DecodeCorrupt, RouteFin, RouteUnknown, Takes
<1>10. CASE RouteLookup(Head(output)) /\ Head(output).id # id
  BY <1>10, Zenon DEF RouteLookup, Takes, Due, NextNumber
<1>11. ASSUME NEW j \in Streams, OpenCheck(j) \/ OpenSyn(j)
       PROVE  id \in table \ lost /\ Due(id)' = Due(id)
  BY <1>1, <1>11, Zenon DEF OpenCheck, OpenSyn
<1>12. CASE UNCHANGED <<table, lost, queue, read, recv, routing>>
  BY <1>1, <1>12, Zenon
<1>13. CASE CloseClear
  BY <1>13, Zenon DEF CloseClear
<1> QED
  BY <1>3, <1>4, <1>5, <1>6, <1>7, <1>8, <1>9, <1>10, <1>11, <1>12, <1>13, NextCases, Zenon
  DEF RecvFrame, Quiet, SendRests, QueuesOther, OutputEnds, Garbled, SendTake, SendDone,
      AgentPushes, AgentFinishes

(* Taking a frame of another stream, or no data at all, leaves a stream what*)
(* it waits for.                                                            *)
LEMMA OtherTaken ==
    ASSUME FrameInv, NEW id \in Streams, ContinuesAt(id), CompleteAt(id), Due(id)' = Due(id),
           NEW f, Takes(f), ~(f.cmd = "PSH" /\ f.id = id), UNCHANGED <<feed, pushed>>
    PROVE  ContinuesAt(id)' /\ CompleteAt(id)'
<1>1. /\ \A i \in DOMAIN output' : i \in Nat /\ i + 1 \in DOMAIN output /\ output'[i] = output[i + 1]
      /\ \A i \in DOMAIN output : i # 1 => i - 1 \in DOMAIN output' /\ output'[i - 1] = output[i]
      /\ ~IsPush(1, id) /\ recv # "stopped"
  BY TakesOrder, TakesType, Zenon DEF IsPush
<1>2. \A n : (\E j \in DOMAIN output : IsPush(j, id) /\ output[j].n = n)
               => \E j \in DOMAIN output' : IsPush(j, id)' /\ output'[j].n = n
  <2> SUFFICES ASSUME NEW n, NEW j \in DOMAIN output, IsPush(j, id), output[j].n = n
               PROVE  \E k \in DOMAIN output' : IsPush(k, id)' /\ output'[k].n = n
    OBVIOUS
  <2>1. j # 1
    BY <1>1, Zenon
  <2>2. j - 1 \in DOMAIN output' /\ IsPush(j - 1, id)' /\ output'[j - 1].n = n
    BY <1>1, <2>1, Zenon DEF IsPush
  <2> QED
    BY <2>2, Zenon
<1>3. ContinuesAt(id)'
  <2> SUFFICES ASSUME NEW i \in DOMAIN output', IsPush(i, id)'
               PROVE  /\ output'[i].n >= Due(id)
                      /\ output'[i].n > Due(id) =>
                           \E j \in DOMAIN output' : IsPush(j, id)' /\ output'[j].n = output'[i].n - 1
    BY Zenon DEF ContinuesAt
  <2>1. i + 1 \in DOMAIN output /\ output'[i] = output[i + 1] /\ IsPush(i + 1, id)
    BY <1>1, Zenon DEF IsPush
  <2> QED
    BY <1>2, <2>1 DEF ContinuesAt
<1>4. CompleteAt(id)'
  BY <1>1, <1>2, Zenon DEF CompleteAt
<1> QED
  BY <1>3, <1>4, Zenon

(* Taking the frame due leaves the next one, if there is one, at the head.  *)
LEMMA DueTaken ==
    ASSUME FrameInv, LostInv, OrderInv, NEW f, RouteLookup(f), NEW id \in Streams, id = f.id
    PROVE  ContinuesAt(id)' /\ CompleteAt(id)'
<1>0. /\ Takes(f) /\ f.cmd = "PSH" /\ id \in table /\ recv' = "push" /\ routing' = f
      /\ UNCHANGED <<queue, read, feed, pushed>>
  BY Zenon DEF RouteLookup, innerVars, closeVars, taskVars, streamVars, agentVars
<1>1. /\ \A i \in DOMAIN output' : i \in Nat /\ i + 1 \in DOMAIN output /\ output'[i] = output[i + 1]
      /\ \A i \in DOMAIN output : i # 1 => i - 1 \in DOMAIN output' /\ output'[i - 1] = output[i]
      /\ IsPush(1, id) /\ recv # "stopped" /\ f = output[1] /\ 1 \in DOMAIN output
  BY <1>0, TakesOrder, TakesType, Zenon DEF IsPush
<1>2. id \in table \ lost /\ output[1].n = Due(id) /\ Due(id) = NextNumber(id)
  BY <1>0, <1>1, HeadIsDue, Zenon DEF OrderInv
<1>3. Due(id)' = Due(id) + 1 /\ Due(id) \in Nat
  BY <1>0, <1>2, NumbersTyped, Zenon DEF Due, NextNumber
<1>4. ContinuesAt(id) /\ CompleteAt(id)
  BY <1>2, Zenon DEF OrderInv, Continues, Complete
<1>5. /\ \A i \in DOMAIN output : output[i].cmd = "PSH" => output[i].n \in Nat
      /\ pushed[id] \in Nat
  BY OutputTyped, Zenon DEF FrameInv
<1>6. \A n : (\E j \in DOMAIN output : IsPush(j, id) /\ output[j].n = n)
               => n = Due(id) \/ \E j \in DOMAIN output' : IsPush(j, id)' /\ output'[j].n = n
  <2> SUFFICES ASSUME NEW n, NEW j \in DOMAIN output, IsPush(j, id), output[j].n = n, j # 1
               PROVE  \E k \in DOMAIN output' : IsPush(k, id)' /\ output'[k].n = n
    BY <1>2, Zenon
  <2>1. j - 1 \in DOMAIN output' /\ IsPush(j - 1, id)' /\ output'[j - 1].n = n
    BY <1>1, Zenon DEF IsPush
  <2> QED
    BY <2>1, Zenon
<1>7. ContinuesAt(id)'
  <2> SUFFICES ASSUME NEW i \in DOMAIN output', IsPush(i, id)'
               PROVE  /\ output'[i].n >= Due(id) + 1
                      /\ output'[i].n > Due(id) + 1 =>
                           \E j \in DOMAIN output' : IsPush(j, id)' /\ output'[j].n = output'[i].n - 1
    BY <1>3, Zenon DEF ContinuesAt
  <2>1. /\ i + 1 \in DOMAIN output /\ output'[i] = output[i + 1] /\ IsPush(i + 1, id)
        /\ i \in Nat /\ output'[i].n \in Nat
    BY <1>1, <1>5 DEF IsPush
  <2>2. 1 < i + 1
    <3>1. i # 0
      BY <1>0, TailDomain DEF Takes, FrameInv
    <3> QED
      BY <2>1, <3>1
  <2>3. output[1].n < output[i + 1].n
    BY <1>1, <2>1, <2>2, Zenon DEF OrderInv, Increasing
  <2>4. output'[i].n > Due(id)
    BY <1>2, <2>1, <2>3, Zenon
  <2>5. \E j \in DOMAIN output : IsPush(j, id) /\ output[j].n = output'[i].n - 1
    BY <1>4, <2>1, <2>4, Zenon DEF ContinuesAt
  <2> QED
    BY <1>3, <1>6, <2>1, <2>4, <2>5
<1>8. CompleteAt(id)'
  <2> SUFFICES ASSUME feed = "open"
               PROVE  \/ pushed[id] = Due(id) + 1 - 1
                      \/ \E j \in DOMAIN output' : IsPush(j, id)' /\ output'[j].n = pushed[id]
    BY <1>0, <1>3 DEF CompleteAt
  <2>1. Due(id) <= pushed[id]
    BY <1>1, <1>2, Zenon DEF OrderInv, Increasing
  <2>2. \E j \in DOMAIN output : IsPush(j, id) /\ output[j].n = pushed[id]
    BY <1>1, <1>3, <1>4, <1>5, <2>1 DEF CompleteAt
  <2> QED
    BY <1>3, <1>5, <1>6, <2>2
<1> QED
  BY <1>7, <1>8, Zenon

(* What the fan-out appends is the next frame of its stream.                *)
LEMMA NextAppended ==
    ASSUME FrameInv, NEW id \in Streams, ContinuesAt(id), CompleteAt(id), Due(id)' = Due(id),
           feed = "open", recv # "stopped", NEW f \in FromAgent, output' = Append(output, f),
           f.cmd = "PSH" /\ f.id = id => f.n = pushed[id] + 1,
           pushed'[id] = IF f.cmd = "PSH" /\ f.id = id THEN pushed[id] + 1 ELSE pushed[id]
    PROVE  ContinuesAt(id)' /\ CompleteAt(id)'
<1>0. PICK last : last = Len(output) + 1
  OBVIOUS
<1>1. /\ \A i \in DOMAIN output : i \in DOMAIN output' /\ output'[i] = output[i]
      /\ \A i \in DOMAIN output' :
           (i \in DOMAIN output /\ output'[i] = output[i]) \/ (i = last /\ output'[i] = f)
      /\ last \in DOMAIN output' /\ output'[last] = f
  BY <1>0, EmitOrder, Zenon
<1>2. \A n : (\E j \in DOMAIN output : IsPush(j, id) /\ output[j].n = n)
               => \E j \in DOMAIN output' : IsPush(j, id)' /\ output'[j].n = n
  BY <1>1, Zenon DEF IsPush
<1>3. /\ pushed[id] \in Nat /\ Due(id) \in Nat
      /\ \A i \in DOMAIN output : output[i].cmd = "PSH" => output[i].n \in Nat
  BY OutputTyped, NumbersTyped, Zenon DEF FrameInv
<1>4. \/ pushed[id] = Due(id) - 1
      \/ \E j \in DOMAIN output : IsPush(j, id) /\ output[j].n = pushed[id]
  BY Zenon DEF CompleteAt
<1>5. pushed[id] >= Due(id) - 1
  <2>1. ASSUME NEW j \in DOMAIN output, IsPush(j, id), output[j].n = pushed[id]
        PROVE  pushed[id] >= Due(id)
    BY <2>1, Zenon DEF ContinuesAt
  <2> QED
    BY <1>3, <1>4, <2>1
<1>6. ContinuesAt(id)'
  <2> SUFFICES ASSUME NEW i \in DOMAIN output', IsPush(i, id)'
               PROVE  /\ output'[i].n >= Due(id)
                      /\ output'[i].n > Due(id) =>
                           \E j \in DOMAIN output' : IsPush(j, id)' /\ output'[j].n = output'[i].n - 1
    BY Zenon DEF ContinuesAt
  <2>1. CASE i \in DOMAIN output /\ output'[i] = output[i]
    <3>1. IsPush(i, id)
      BY <2>1, Zenon DEF IsPush
    <3> QED
      BY <1>2, <2>1, <3>1, Zenon DEF ContinuesAt
  <2>2. CASE output'[i] = f
    <3>1. output'[i].n = pushed[id] + 1
      BY <2>2, Zenon DEF IsPush
    <3>2. pushed[id] + 1 >= Due(id) /\ pushed[id] + 1 - 1 = pushed[id]
      BY <1>3, <1>5
    <3>3. pushed[id] + 1 > Due(id) => pushed[id] # Due(id) - 1
      BY <1>3
    <3>4. pushed[id] + 1 > Due(id) =>
            \E j \in DOMAIN output' : IsPush(j, id)' /\ output'[j].n = pushed[id]
      BY <1>2, <1>4, <3>3, Zenon
    <3>5. \A k : k = pushed[id] + 1 => k - 1 = pushed[id] /\ k >= Due(id)
      BY <1>3, <1>5
    <3>6. output'[i].n - 1 = pushed[id] /\ output'[i].n >= Due(id)
      BY <3>1, <3>5, Zenon
    <3> QED
      BY <3>1, <3>4, <3>6, Zenon
  <2> QED
    BY <1>1, <2>1, <2>2, Zenon
<1>7. CompleteAt(id)'
  <2>1. CASE f.cmd = "PSH" /\ f.id = id
    <3>1. IsPush(last, id)' /\ output'[last].n = pushed'[id]
      BY <1>1, <2>1, Zenon DEF IsPush
    <3> QED
      BY <1>1, <3>1, Zenon DEF CompleteAt
  <2>2. CASE ~(f.cmd = "PSH" /\ f.id = id)
    <3>1. pushed'[id] = pushed[id]
      BY <2>2, Zenon
    <3> QED
      BY <1>2, <1>4, <3>1, ZenonT(60) DEF CompleteAt
  <2> QED
    BY <2>1, <2>2, Zenon
<1> QED
  BY <1>6, <1>7, Zenon

(* A step that leaves the output alone.                                     *)
LEMMA NoneTaken ==
    ASSUME NEW id \in Streams, ContinuesAt(id), CompleteAt(id), Due(id)' = Due(id), output' = output,
           feed' = "open" /\ recv' # "stopped" =>
               feed = "open" /\ recv # "stopped" /\ pushed'[id] = pushed[id]
    PROVE  ContinuesAt(id)' /\ CompleteAt(id)'
  BY Zenon DEF ContinuesAt, CompleteAt, IsPush

(* What waits for a stream goes on from what it has, after every step.      *)
LEMMA WaitingStep ==
    ASSUME FrameInv, KnownInv, LostInv, OrderInv, [Next]_vars
    PROVE  Continues' /\ Complete'
<1> USE DEF rest, innerVars, closeVars, taskVars, streamVars, agentVars
<1> SUFFICES ASSUME NEW id \in Streams, id \in table' \ lost' PROVE ContinuesAt(id)' /\ CompleteAt(id)'
  <2>1. table' \subseteq Streams
    BY FrameStep, Zenon DEF FrameInv
  <2> QED
    BY <2>1, Zenon DEF Continues, Complete
<1>1. CASE OpenInsert(id)
  <2>1. id \notin known
    BY <1>1, Zenon DEF OpenInsert, KnownInv, Opened
  <2>2. \A i \in DOMAIN output : ~IsPush(i, id)
    BY <2>1, Zenon DEF KnownInv, IsPush
  <2>3. pushed[id] = 0 /\ read[id] = 0 /\ queue[id] = <<>>
    BY <2>1, Zenon DEF KnownInv
  <2>4. ~(recv = "push" /\ routing.id = id)
    BY <2>1, Zenon DEF KnownInv, Routing
  <2>5. Due(id) = 1
    BY <2>3, <2>4 DEF Due, NextNumber
  <2>6. UNCHANGED <<output, pushed, read, queue, recv, routing, feed>>
    BY <1>1, Zenon DEF OpenInsert
  <2>7. Due(id)' = 1
    BY <2>5, <2>6, Zenon DEF Due, NextNumber
  <2> QED
    BY <2>2, <2>3, <2>6, <2>7 DEF ContinuesAt, CompleteAt, IsPush
<1>2. CASE RouteLookup(Head(output)) /\ Head(output).id = id
  BY <1>2, DueTaken, Zenon
<1>3. CASE id \in table \ lost /\ Due(id)' = Due(id)
  <2>1. ContinuesAt(id) /\ CompleteAt(id)
    BY <1>3, Zenon DEF OrderInv, Continues, Complete
  <2>2. CASE RecvRests
    <3>1. CASE output' = output
      <4>1. feed' = "open" /\ recv' # "stopped" =>
              feed = "open" /\ recv # "stopped" /\ pushed'[id] = pushed[id]
        BY <2>2, Zenon DEF RecvRests
      <4> QED
        BY <1>3, <2>1, <3>1, <4>1, NoneTaken, Zenon
    <3>2. CASE output' = <<>> /\ recv' = "stopped"
      BY <3>2 DEF ContinuesAt, CompleteAt
    <3> QED
      BY <2>2, <3>1, <3>2, Zenon DEF RecvRests
  <2>3. ASSUME NEW f, f = Head(output), RecvFrame(f) PROVE ContinuesAt(id)' /\ CompleteAt(id)'
    <3>1. Takes(f) /\ UNCHANGED <<feed, pushed>>
      BY <2>3, Zenon DEF RecvFrame, DecodeCorrupt, RouteFin, RouteUnknown, RouteLookup
    <3>2. CASE f.cmd = "PSH" /\ f.id = id
      <4>1. RouteLookup(f)
        BY <1>3, <2>3, <3>2, Zenon DEF RecvFrame, DecodeCorrupt, RouteFin, RouteUnknown
      <4> QED
        BY <3>2, <4>1, DueTaken, Zenon
    <3> QED
      BY <1>3, <2>1, <3>1, <3>2, OtherTaken, Zenon
  <2>4. CASE Garbled
    BY <1>3, <2>1, <2>4, FrameKinds, NextAppended, Zenon DEF Garbled
  <2>5. ASSUME NEW j \in Streams, AgentFinishes(j) PROVE ContinuesAt(id)' /\ CompleteAt(id)'
    <3>1. CASE Len(output) < OutputDepth
      <4>1. feed = "open" /\ recv # "stopped" /\ output' = Append(output, Fin(j)) /\ pushed' = pushed
        BY <2>5, <3>1, Zenon DEF AgentFinishes, Emit
      <4> QED
        BY <1>3, <2>1, <4>1, FrameKinds, NextAppended, Zenon
    <3>2. CASE ~(Len(output) < OutputDepth)
      BY <1>3, <2>1, <2>5, <3>2, NoneTaken, Zenon DEF AgentFinishes, Emit
    <3> QED
      BY <3>1, <3>2, Zenon
  <2>6. ASSUME NEW j \in Streams, AgentPushes(j) PROVE ContinuesAt(id)' /\ CompleteAt(id)'
    <3>0. pushed[j] + 1 \in Nat /\ pushed'[id] = IF id = j THEN pushed[id] + 1 ELSE pushed[id]
      BY <2>6 DEF AgentPushes, FrameInv
    <3>1. CASE Len(output) < OutputDepth
      <4>1. feed = "open" /\ recv # "stopped" /\ output' = Append(output, Push(j, pushed[j] + 1))
        BY <2>6, <3>1, Zenon DEF AgentPushes, Emit
      <4>2. /\ Push(j, pushed[j] + 1) \in FromAgent /\ Push(j, pushed[j] + 1).cmd = "PSH"
            /\ Push(j, pushed[j] + 1).id = j /\ Push(j, pushed[j] + 1).n = pushed[j] + 1
        BY <3>0, FrameKinds
      <4> QED
        BY <1>3, <2>1, <3>0, <4>1, <4>2, NextAppended, Zenon
    <3>2. CASE ~(Len(output) < OutputDepth)
      BY <1>3, <2>1, <2>6, <3>2, NoneTaken, Zenon DEF AgentPushes, Emit
    <3> QED
      BY <3>1, <3>2, Zenon
  <2>7. ASSUME output' = output, pushed' = pushed, recv = "stopped" => recv' = "stopped",
               feed' = "open" => feed = "open"
        PROVE  ContinuesAt(id)' /\ CompleteAt(id)'
    BY <1>3, <2>1, <2>7, NoneTaken, Zenon
  <2>8. CASE OutputEnds
    BY <2>7, <2>8, Zenon DEF OutputEnds
  <2>9. CASE UNCHANGED <<output, pushed, recv, feed>>
    BY <2>7, <2>9, Zenon
  <2>10. CASE RouteTag(routing) \/ RoutePush(routing) \/ RouteGone(routing) \/ RouteFull(routing) \/ Evict
    BY <2>7, <2>10, Zenon DEF RouteTag, RoutePush, RouteGone, RouteFull, Routed, Evict
  <2> QED
    BY <2>2, <2>3, <2>4, <2>5, <2>6, <2>8, <2>9, <2>10, NextCases, Zenon
    DEF Quiet, SendRests, QueuesOther, CloseClear, SendTake, SendDone, OpenCheck, OpenInsert,
        OpenSyn, ReadFrame, DropStream
<1> QED
  BY <1>1, <1>2, <1>3, DueSteps, Zenon

(* The data of a stream stay in order, from the agent to its reader.        *)
THEOREM OrderInvHolds == Spec => []OrderInv
<1>1. Init => OrderInv
  BY DEF Init, OrderInv, GapFree, Routable, Increasing, Continues, Complete
<1>2. FrameInv /\ KnownInv /\ LostInv /\ OrderInv /\ [Next]_vars => OrderInv'
  BY QueueStep, IncreasingStep, WaitingStep, Zenon DEF OrderInv
<1> QED
  BY <1>1, <1>2, FrameInvHolds, KnownInvHolds, LostInvHolds, PTL DEF Spec

(* Whatever overflows, closes or is evicted meanwhile, what waits in a      *)
(* stream's queue follows what its reader has read, with no frame missing   *)
(* and none twice.                                                          *)
THEOREM StreamGapFree == Spec => []GapFree
<1>1. OrderInv => GapFree
  BY Zenon DEF OrderInv
<1> QED
  BY <1>1, OrderInvHolds, PTL
=============================================================================
