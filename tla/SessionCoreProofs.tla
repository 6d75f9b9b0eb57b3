-------------------------- MODULE SessionCoreProofs --------------------------
(***************************************************************************)
(* Proofs about SessionCore and OutputFanout, for any number of callers of *)
(* close, waiters and subscribers, any queue depth and any amount of       *)
(* output: who is woken by a close can read its reason, whoever sleeps     *)
(* has a wake-up to come, and no consumer misses a chunk without being     *)
(* told.  And about Wire, in which the chunks travel, for every message.   *)
(***************************************************************************)
EXTENDS MCSessionCore, SequenceTheorems, TLAPS

-----------------------------------------------------------------------------
(* The reason                                                               *)

(* The steps of close after the reason is stored.                           *)
PastReason == {"fanFlag", "fanClear", "wakeClosed", "wakeSendable"}

(* A waiter for the close that has lost its place in the Notify was woken,  *)
(* and that is done only once the reason is stored.                         *)
ReasonInv ==
    /\ closer \in [Closers -> CloserSteps]
    /\ waiter \in [Waiters -> {"call", "check", "await", "returned", "woken"}]
    /\ \A k \in Closers : closer[k] \in PastReason => reason # NoReason
    /\ \A w \in CloseWaiters : waiter[w] \in {"check", "await"} /\ w \notin enqueued => reason # NoReason
    /\ WokenCanReadReason

(* Every step keeps it: a close stores the reason before it wakes anyone.   *)
LEMMA ReasonStep == ReasonInv /\ [Next]_vars => ReasonInv'
<1> SUFFICES ASSUME ReasonInv, [Next]_vars PROVE ReasonInv'
  OBVIOUS
<1> USE SessionCoreAssumption
    DEF ReasonInv, PastReason, CloserSteps, WokenCanReadReason, Waiters, At, coreVars
<1>1. ASSUME NEW k \in Closers, CloserNext(k) PROVE ReasonInv'
  <2>1. CASE CloseSwap(k)
    BY <2>1, Zenon DEF CloseSwap
  <2>2. CASE CloseReason(k)
    BY <2>2, Zenon DEF CloseReason
  <2>3. CASE FanFlag(k)
    BY <2>3, Zenon DEF FanFlag
  <2>4. CASE FanClear(k)
    BY <2>4, Zenon DEF FanClear
  <2>5. CASE WakeClosed(k)
    BY <2>5, Zenon DEF WakeClosed
  <2>6. CASE WakeSendable(k)
    BY <2>6, Zenon DEF WakeSendable
  <2> QED
    BY <1>1, <2>1, <2>2, <2>3, <2>4, <2>5, <2>6, Zenon DEF CloserNext
<1>2. ASSUME NEW b \in BOOLEAN, SetSendable(b) PROVE ReasonInv'
  BY <1>2, Zenon DEF SetSendable
<1>3. CASE NotifySendable
  BY <1>3, Zenon DEF NotifySendable
<1>4. ASSUME NEW w \in Waiters, WaiterNext(w) PROVE ReasonInv'
  <2>1. CASE Enable(w)
    BY <2>1, Zenon DEF Enable
  <2>2. CASE Check(w)
    BY <2>2, Zenon DEF Check
  <2>3. CASE Wake(w)
    BY <2>3, Zenon DEF Wake
  <2> QED
    BY <1>4, <2>1, <2>2, <2>3, Zenon DEF WaiterNext
<1>5. CASE UNCHANGED <<coreVars, closer, waiter>>
  BY <1>5, Zenon
<1>6. CASE Emit \/ \E s \in Subscribers : Subscribe(s) \/ Receive(s) \/ DropStream(s)
  BY <1>5, <1>6, Zenon DEF Emit, Subscribe, Receive, DropStream
<1>7. CASE UNCHANGED vars
  BY <1>5, <1>7, Zenon DEF vars
<1> QED
  BY <1>1, <1>2, <1>3, <1>4, <1>6, <1>7, Zenon DEF Next

(* A call of closed() that slept until the close can read why.              *)
THEOREM ReasonBeforeWake == Spec => []WokenCanReadReason
<1>1. Init => ReasonInv
  BY Zenon DEF Init, ReasonInv, PastReason, CloserSteps, WokenCanReadReason, Waiters
<1>2. ReasonInv => WokenCanReadReason
  BY Zenon DEF ReasonInv
<1> QED
  BY <1>1, <1>2, ReasonStep, PTL DEF Spec

-----------------------------------------------------------------------------
(* The output                                                               *)

(* The fan-out is cleared once, by the call of close that set its flag, and *)
(* takes no subscriber from then on.                                        *)
FanInv ==
    /\ closer \in [Closers -> CloserSteps]
    /\ fanClosed \in BOOLEAN
    /\ cleared # -1 => fanClosed = TRUE
    /\ \A k \in Closers : closer[k] = "fanClear" => fanClosed = TRUE /\ cleared = -1
    /\ \A k, l \in Closers : closer[k] = "fanClear" /\ closer[l] = "fanClear" => k = l

FanType ==
    /\ stream \in [Subscribers -> {"none", "held", "ended", "dropped"}]
    /\ queue \in [Subscribers -> Seq(Nat)]
    /\ lagged \in [Subscribers -> BOOLEAN]
    /\ emitted \in Nat
    /\ joined \in [Subscribers -> Nat] /\ got \in [Subscribers -> Nat]
    /\ \A s \in Subscribers : stream[s] = "none" => queue[s] = <<>> /\ got[s] = 0

(* What GapFree says of one subscriber.                                     *)
NoGap(s) ==
    stream[s] = "held" =>
        /\ \A i \in 1..Len(queue[s]) : queue[s][i] = joined[s] + got[s] + i
        /\ s \in attached => joined[s] + got[s] + Len(queue[s]) = emitted
        /\ s \notin attached /\ lagged[s] = FALSE => joined[s] + got[s] + Len(queue[s]) = cleared

GapInv == FanInv /\ FanType /\ \A s \in Subscribers : NoGap(s)

(* NoGap is GapFree, said with the domain of a queue spelled out.           *)
LEMMA NoGapIsGapFree == GapInv => GapFree
<1> SUFFICES ASSUME GapInv, NEW s \in Subscribers, stream[s] = "held"
             PROVE  LET last == joined[s] + got[s] + Len(queue[s]) IN
                    /\ \A i \in DOMAIN queue[s] : queue[s][i] = joined[s] + got[s] + i
                    /\ s \in attached => last = emitted
                    /\ s \notin attached /\ ~lagged[s] => last = cleared
  BY Zenon DEF GapFree
<1>1. DOMAIN queue[s] = 1..Len(queue[s])
  BY LenProperties, Zenon DEF GapInv, FanType
<1>2. lagged[s] \in BOOLEAN
  BY Zenon DEF GapInv, FanType
<1> QED
  BY <1>1, <1>2, Zenon DEF GapInv, NoGap

(* The steps of close keep it.                                              *)
LEMMA CloseKeepsOutput ==
    ASSUME GapInv, NEW k \in Closers, CloserNext(k)
    PROVE  GapInv'
<1> USE DEF GapInv, FanInv, FanType, NoGap, CloserSteps, At
<1>1. CASE CloseSwap(k) \/ CloseReason(k) \/ WakeClosed(k) \/ WakeSendable(k)
  <2>1. UNCHANGED fanVars
    BY <1>1, Zenon DEF CloseSwap, CloseReason, WakeClosed, WakeSendable
  <2>2. FanInv'
    BY <1>1, <2>1, ZenonT(30) DEF CloseSwap, CloseReason, WakeClosed, WakeSendable, fanVars
  <2> QED
    BY <2>1, <2>2, Zenon DEF fanVars
<1>2. CASE FanFlag(k)
  <2>1. FanInv'
    BY <1>2, Zenon DEF FanFlag
  <2> QED
    BY <1>2, <2>1, Zenon DEF FanFlag
<1>3. CASE FanClear(k)
  <2>1. \A s \in Subscribers : joined[s] + got[s] + Len(queue[s]) # -1
    BY LenProperties
  <2> QED
    BY <1>3, <2>1 DEF FanClear, Left
<1> QED
  BY <1>1, <1>2, <1>3, Zenon DEF CloserNext

(* A chunk is queued for every subscriber that has room, and the others are *)
(* marked and cut off.                                                      *)
LEMMA EmitKeepsOutput ==
    ASSUME GapInv, Emit
    PROVE  GapInv'
<1> USE DEF GapInv, FanInv, FanType
<1>1. FanInv'
  BY Zenon DEF Emit
<1>2. ASSUME NEW s \in Subscribers
      PROVE  /\ queue'[s] \in Seq(Nat) /\ lagged'[s] \in BOOLEAN
             /\ stream'[s] = stream[s] /\ joined'[s] = joined[s] /\ got'[s] = got[s]
             /\ lagged'[s] = FALSE => lagged[s] = FALSE
             /\ \/ /\ s \in attached /\ s \in attached' /\ stream[s] = "held"
                   /\ queue'[s] = Append(queue[s], emitted + 1)
                \/ /\ queue'[s] = queue[s] /\ (stream[s] = "held" => s \notin attached')
                   /\ stream[s] = "held" /\ s \in attached => lagged'[s] = TRUE
  <2> DEFINE takes == s \in attached /\ stream[s] = "held" /\ Room(s)
             misses == s \in attached \ Retained /\ stream[s] = "held"
  <2>1. /\ queue'[s] = IF takes THEN Append(queue[s], emitted + 1) ELSE queue[s]
        /\ s \in attached' <=> takes
        /\ stream'[s] = stream[s] /\ joined'[s] = joined[s] /\ got'[s] = got[s]
    BY Zenon DEF Emit, Retained
  <2>2. lagged'[s] = (lagged[s] \/ misses)
    BY Zenon DEF Emit
  <2>3. misses <=> s \in attached /\ stream[s] = "held" /\ ~takes
    BY Zenon DEF Retained
  <2>4. lagged[s] \in BOOLEAN
    OBVIOUS
  <2>5. /\ lagged'[s] \in BOOLEAN /\ (lagged'[s] = FALSE => lagged[s] = FALSE)
        /\ misses => lagged'[s] = TRUE
    <3> HIDE DEF misses
    <3> QED
      BY <2>2, <2>4, Zenon
  <2>6. queue'[s] \in Seq(Nat)
    <3>1. queue[s] \in Seq(Nat) /\ emitted + 1 \in Nat
      OBVIOUS
    <3> HIDE DEF takes
    <3> QED
      BY <2>1, <3>1, AppendProperties
  <2> HIDE DEF misses
  <2> QED
    BY <2>1, <2>3, <2>5, <2>6, Zenon
<1>3. FanType'
  <2>1. queue' \in [Subscribers -> Seq(Nat)]
    BY DEF Emit
  <2>2. lagged' \in [Subscribers -> BOOLEAN]
    BY Zenon DEF Emit
  <2> QED
    BY <1>2, <2>1, <2>2 DEF Emit
<1>4. ASSUME NEW s \in Subscribers PROVE NoGap(s)'
  <2>1. /\ emitted' = emitted + 1 /\ cleared' = cleared
        /\ Len(queue[s]) \in Nat /\ queue[s] \in Seq(Nat)
    BY LenProperties, Zenon DEF Emit
  <2>2. CASE /\ s \in attached /\ s \in attached' /\ stream[s] = "held"
             /\ queue'[s] = Append(queue[s], emitted + 1)
    <3>1. /\ Len(queue'[s]) = Len(queue[s]) + 1
          /\ \A i \in 1..Len(queue[s]) : queue'[s][i] = queue[s][i]
          /\ queue'[s][Len(queue[s]) + 1] = emitted + 1
      BY <2>1, <2>2, AppendProperties
    <3> QED
      <4>1. joined[s] + got[s] + Len(queue[s]) = emitted /\ joined[s] \in Nat /\ got[s] \in Nat
        BY <2>2, Zenon DEF NoGap
      <4>2. \A i \in 1..Len(queue'[s]) : queue'[s][i] = joined[s] + got[s] + i
        BY <2>1, <2>2, <3>1, <4>1 DEF NoGap
      <4>3. joined[s] + got[s] + Len(queue'[s]) = emitted'
        BY <2>1, <3>1, <4>1
      <4>4. joined'[s] = joined[s] /\ got'[s] = got[s]
        BY <1>2, Zenon
      <4> QED
        BY <2>2, <4>2, <4>3, <4>4, Zenon DEF NoGap
  <2>3. CASE /\ queue'[s] = queue[s] /\ (stream[s] = "held" => s \notin attached')
             /\ stream[s] = "held" /\ s \in attached => lagged'[s] = TRUE
    <3> SUFFICES ASSUME stream'[s] = "held" PROVE NoGap(s)'
      BY Zenon DEF NoGap
    <3>1. stream[s] = "held" /\ s \notin attached' /\ UNCHANGED <<queue[s], joined[s], got[s], cleared>>
      BY <1>2, <2>1, <2>3, Zenon
    <3>2. lagged'[s] = FALSE => s \notin attached /\ lagged[s] = FALSE
      BY <1>2, <2>3, <3>1, Zenon
    <3> QED
      BY <3>1, <3>2, Zenon DEF NoGap
  <2> QED
    BY <1>2, <2>2, <2>3, Zenon
<1> QED
  BY <1>1, <1>3, <1>4, Zenon

(* A consumer that subscribes, reads or leaves keeps it.                    *)
LEMMA ConsumerKeepsOutput ==
    ASSUME GapInv, NEW s \in Subscribers, Subscribe(s) \/ Receive(s) \/ DropStream(s)
    PROVE  GapInv'
<1> USE DEF GapInv, FanInv, FanType, NoGap
<1>1. CASE Subscribe(s)
  BY <1>1, EmptySeq DEF Subscribe, Accepting
<1>2. CASE Receive(s)
  <2>1. /\ Tail(queue[s]) \in Seq(Nat)
        /\ Len(Tail(queue[s])) = Len(queue[s]) - 1
        /\ \A i \in 1..(Len(queue[s]) - 1) : Tail(queue[s])[i] = queue[s][i + 1]
    BY <1>2, HeadTailProperties, LenProperties DEF Receive
  <2>2. Len(queue[s]) \in Nat
    BY LenProperties, Zenon
  <2>3. FanInv' /\ FanType'
    BY <1>2, <2>1 DEF Receive
  <2>4. ASSUME NEW u \in Subscribers PROVE NoGap(u)'
    <3>1. CASE u # s
      BY <1>2, <3>1, Zenon DEF Receive
    <3>2. CASE u = s
      <4>1. queue'[s] = Tail(queue[s]) /\ got'[s] = got[s] + 1 /\ UNCHANGED <<stream, attached, lagged,
                                                              emitted, joined, cleared>>
        BY <1>2, Zenon DEF Receive
      <4> SUFFICES ASSUME stream[s] = "held" PROVE NoGap(s)'
        BY <3>2, <4>1, Zenon
      <4>2. joined'[s] + got'[s] + Len(queue'[s]) = joined[s] + got[s] + Len(queue[s])
        BY <2>1, <2>2, <4>1
      <4>3. \A i \in 1..Len(queue'[s]) : queue'[s][i] = joined'[s] + got'[s] + i
        <5> SUFFICES ASSUME NEW i \in 1..(Len(queue[s]) - 1)
                     PROVE  Tail(queue[s])[i] = joined[s] + (got[s] + 1) + i
          BY <2>1, <4>1, Zenon
        <5>1. i + 1 \in 1..Len(queue[s]) /\ i \in Nat
          BY <2>2
        <5>2. queue[s][i + 1] = joined[s] + got[s] + (i + 1)
          BY <5>1, Zenon
        <5>3. joined[s] \in Nat /\ got[s] \in Nat
          OBVIOUS
        <5>4. joined[s] + got[s] + (i + 1) = joined[s] + (got[s] + 1) + i
          BY <5>1, <5>3
        <5>5. Tail(queue[s])[i] = queue[s][i + 1]
          BY <2>1, Zenon
        <5> QED
          BY <5>2, <5>4, <5>5, Zenon
      <4> QED
        BY <4>1, <4>2, <4>3, Zenon
    <3> QED
      BY <3>1, <3>2, Zenon
  <2> QED
    BY <2>3, <2>4, Zenon
<1>3. CASE DropStream(s)
  BY <1>3, EmptySeq, Zenon DEF DropStream
<1> QED
  BY <1>1, <1>2, <1>3, Zenon

(* The chunks a subscriber has read and has queued are, without a gap, the  *)
(* ones emitted since it subscribed, and who sees the end without lagged    *)
(* has missed nothing: OutputFanout::send evicts a full subscriber.         *)
THEOREM OutputGapFree == Spec => []GapFree
<1>1. Init => GapInv
  <2> SUFFICES ASSUME Init PROVE GapInv
    OBVIOUS
  <2>1. FanInv
    BY Zenon DEF Init, FanInv, CloserSteps
  <2>2. FanType
    BY EmptySeq, Zenon DEF Init, FanType
  <2>3. \A s \in Subscribers : NoGap(s)
    BY Zenon DEF Init, NoGap
  <2> QED
    BY <2>1, <2>2, <2>3, Zenon DEF GapInv
<1>2. GapInv /\ [Next]_vars => GapInv'
  <2> SUFFICES ASSUME GapInv, [Next]_vars PROVE GapInv'
    OBVIOUS
  <2>1. CASE UNCHANGED <<closer, fanVars>>
    BY <2>1, Zenon DEF fanVars, GapInv, FanInv, FanType, NoGap
  <2>2. CASE \/ \E b \in BOOLEAN : SetSendable(b)
             \/ NotifySendable
             \/ \E w \in Waiters : WaiterNext(w)
             \/ UNCHANGED vars
    BY <2>1, <2>2, Zenon DEF SetSendable, NotifySendable, WaiterNext, Enable, Check, Wake, vars
  <2> QED
    BY <2>2, CloseKeepsOutput, EmitKeepsOutput, ConsumerKeepsOutput, Zenon DEF Next
<1> QED
  BY <1>1, <1>2, NoGapIsGapFree, PTL DEF Spec

-----------------------------------------------------------------------------
(* Nobody is forgotten                                                      *)

(* The steps of close that come before the waiters for the close are woken. *)
BeforeWake == {"reason", "fanFlag", "fanClear", "wakeClosed"}

(* Whoever sleeps registered after the close, or after readiness, has the   *)
(* wake-up still to come; the fan-out is flagged and cleared by a call of   *)
(* close that is on its way.                                                *)
WakeToCome ==
    /\ \A w \in Waiters : waiter[w] = "await" /\ w \in enqueued /\ closed =>
         \E k \in Closers : \/ closer[k] \in BeforeWake
                            \/ w \in SendWaiters /\ closer[k] = "wakeSendable"
    /\ \A w \in SendWaiters : waiter[w] = "await" /\ w \in enqueued /\ sendable =>
         notifySendable
    /\ closed /\ ~fanClosed => \E k \in Closers : closer[k] \in {"reason", "fanFlag"}
    /\ fanClosed /\ attached # {} => \E k \in Closers : closer[k] = "fanClear"

WakeInv ==
    /\ closer \in [Closers -> CloserSteps]
    /\ waiter \in [Waiters -> {"call", "check", "await", "returned", "woken"}]
    /\ WakeToCome

(* Each call of close hands over what it still owes to its own next step.   *)
LEMMA WakeCloser ==
    ASSUME WakeInv, NEW k \in Closers, CloserNext(k)
    PROVE  WakeInv'
<1> USE DEF WakeInv
<1>1. closer' \in [Closers -> CloserSteps] /\ waiter' = waiter
      /\ \A j \in Closers \ {k} : closer'[j] = closer[j]
    BY Zenon DEF CloserNext, CloseSwap, CloseReason, FanFlag, FanClear, WakeClosed,
                 WakeSendable, At, CloserSteps
<1>2. CASE CloseSwap(k)
  <2>1. /\ closed' = TRUE /\ UNCHANGED <<sendable, notifySendable, enqueued, fanClosed, attached>>
        /\ closer[k] = "call" /\ closer'[k] = IF closed THEN "done" ELSE "reason"
    BY <1>2, Zenon DEF CloseSwap, At, First, fanVars
  <2> QED
    BY <1>1, <2>1, ZenonT(30) DEF WakeToCome, BeforeWake
<1>3. CASE CloseReason(k)
  <2>1. /\ UNCHANGED <<closed, sendable, notifySendable, enqueued, fanClosed, attached>>
        /\ closer[k] = "reason" /\ closer'[k] = "fanFlag"
    BY <1>3, Zenon DEF CloseReason, At, fanVars
  <2> QED
    BY <1>1, <2>1, ZenonT(30) DEF WakeToCome, BeforeWake
<1>4. CASE FanFlag(k)
  <2>1. /\ UNCHANGED <<closed, sendable, notifySendable, enqueued, attached>> /\ fanClosed' = TRUE
        /\ closer[k] = "fanFlag"
        /\ closer'[k] = IF fanClosed THEN "wakeClosed" ELSE "fanClear"
    BY <1>4, Zenon DEF FanFlag, At, coreVars
  <2> QED
    BY <1>1, <2>1, ZenonT(30) DEF WakeToCome, BeforeWake
<1>5. CASE FanClear(k)
  <2>1. /\ UNCHANGED <<closed, sendable, notifySendable, enqueued, fanClosed>> /\ attached' = {}
        /\ closer[k] = "fanClear" /\ closer'[k] = "wakeClosed"
    BY <1>5, Zenon DEF FanClear, At, coreVars, Left
  <2> QED
    BY <1>1, <2>1, ZenonT(30) DEF WakeToCome, BeforeWake
<1>6. CASE WakeClosed(k)
  <2>1. /\ UNCHANGED <<closed, sendable, notifySendable, fanClosed, attached>>
        /\ enqueued' = enqueued \ CloseWaiters
        /\ closer[k] = "wakeClosed" /\ closer'[k] = "wakeSendable"
    BY <1>6, Zenon DEF WakeClosed, At, fanVars
  <2> QED
    BY <1>1, <2>1, ZenonT(30) DEF WakeToCome, BeforeWake, Waiters
<1>7. CASE WakeSendable(k)
  <2>1. /\ UNCHANGED <<closed, sendable, notifySendable, fanClosed, attached>>
        /\ enqueued' = enqueued \ SendWaiters
        /\ closer[k] = "wakeSendable" /\ closer'[k] = "done"
    BY <1>7, Zenon DEF WakeSendable, At, fanVars, Released
  <2> QED
    BY <1>1, <2>1, ZenonT(30) DEF WakeToCome, BeforeWake, Waiters
<1> QED
    BY <1>2, <1>3, <1>4, <1>5, <1>6, <1>7, Zenon DEF CloserNext

(* A wait is registered before it tests the flags, and sleeps only when     *)
(* neither was set.                                                         *)
LEMMA WakeWaiter ==
    ASSUME WakeInv, NEW w \in Waiters, WaiterNext(w)
    PROVE  WakeInv'
<1> USE DEF WakeInv
<1>1. /\ UNCHANGED <<closed, sendable, notifySendable, closer, fanClosed, attached>>
      /\ waiter' \in [Waiters -> {"call", "check", "await", "returned", "woken"}]
      /\ \A v \in Waiters \ {w} : waiter'[v] = waiter[v] /\ (v \in enqueued' <=> v \in enqueued)
    BY ZenonT(30) DEF WaiterNext, Enable, Check, Wake, coreVars, fanVars
<1>2. waiter'[w] = "await" => ~closed /\ (w \in SendWaiters => ~sendable)
    BY ZenonT(30) DEF WaiterNext, Enable, Check, Wake, Satisfied
<1> QED
    BY <1>1, <1>2, ZenonT(30) DEF WakeToCome, Waiters

(* The reader's two steps of set_sendable, and the consumers.               *)
LEMMA WakeOthers ==
    ASSUME WakeInv,
           \/ \E b \in BOOLEAN : SetSendable(b)
           \/ NotifySendable
           \/ Emit
           \/ \E s \in Subscribers : Subscribe(s) \/ Receive(s) \/ DropStream(s)
           \/ UNCHANGED vars
    PROVE  WakeInv'
<1> USE DEF WakeInv
<1>1. ASSUME NEW b \in BOOLEAN, SetSendable(b) PROVE WakeInv'
  <2>1. /\ UNCHANGED <<closed, enqueued, closer, waiter, fanClosed, attached>>
        /\ ~notifySendable
        /\ sendable' => notifySendable' \/ sendable
    BY <1>1, Zenon DEF SetSendable, fanVars
  <2> QED
    BY <2>1, ZenonT(30) DEF WakeToCome
<1>2. CASE NotifySendable
  <2>1. /\ UNCHANGED <<closed, sendable, closer, waiter, fanClosed, attached>>
        /\ enqueued' = enqueued \ SendWaiters
    BY <1>2, Zenon DEF NotifySendable, fanVars
  <2> QED
    BY <2>1, ZenonT(30) DEF WakeToCome
<1>3. CASE UNCHANGED <<closed, sendable, notifySendable, enqueued, closer, waiter, fanClosed>>
           /\ (fanClosed => attached' \subseteq attached)
    BY <1>3, ZenonT(30) DEF WakeToCome
<1>4. ASSUME NEW s \in Subscribers, Subscribe(s) \/ Receive(s) \/ DropStream(s)
      PROVE  WakeInv'
    BY <1>3, <1>4, ZenonT(30) DEF Subscribe, Receive, DropStream, Accepting, coreVars
<1>5. CASE Emit
    BY <1>3, <1>5, ZenonT(30) DEF Emit, Retained, coreVars
<1>6. CASE UNCHANGED vars
    BY <1>3, <1>6, ZenonT(30) DEF vars, coreVars, fanVars
<1> QED
    BY <1>1, <1>2, <1>4, <1>5, <1>6, Zenon

(* The safety half of WaitersReturn and StreamsEnd, for any number of calls *)
(* of close, waits and subscribers: nobody sleeps on a Notify past its last *)
(* notification, and no subscriber outlives the clear.                      *)
THEOREM NobodyForgotten == Spec => []WakeToCome
<1>1. Init => WakeInv
    BY Zenon DEF Init, WakeInv, WakeToCome, CloserSteps, Waiters
<1>2. WakeInv /\ [Next]_vars => WakeInv'
    BY WakeCloser, WakeWaiter, WakeOthers, Zenon DEF Next
<1>3. WakeInv => WakeToCome
    BY Zenon DEF WakeInv
<1> QED
    BY <1>1, <1>2, <1>3, PTL DEF Spec

-----------------------------------------------------------------------------
(* The wire format: numbers, fields, names and messages, for every message  *)
(* and every limit a 32-bit length can declare.                             *)

(* What two pieces put one behind the other hold.                           *)
LEMMA Joined ==
    ASSUME NEW a \in Seq(Byte), NEW b \in Seq(Byte)
    PROVE  /\ a \o b \in Seq(Byte) /\ Len(a \o b) = Len(a) + Len(b)
           /\ Len(a) \in Nat /\ Len(b) \in Nat
           /\ \A i \in 1..Len(a) : (a \o b)[i] = a[i]
           /\ \A i \in 1..Len(b) : (a \o b)[Len(a) + i] = b[i]
<1>1. Len(a) \in Nat /\ Len(b) \in Nat
    BY LenProperties, Zenon
<1>2. /\ a \o b \in Seq(Byte) /\ Len(a \o b) = Len(a) + Len(b)
      /\ \A i \in 1..(Len(a) + Len(b)) :
            (a \o b)[i] = IF i <= Len(a) THEN a[i] ELSE b[i - Len(a)]
    BY ConcatProperties, Zenon
<1>3. ASSUME NEW i \in 1..Len(a) PROVE (a \o b)[i] = a[i]
    BY <1>1, <1>2
<1>4. ASSUME NEW i \in 1..Len(b) PROVE (a \o b)[Len(a) + i] = b[i]
    BY <1>1, <1>2
<1> QED
    BY <1>1, <1>2, <1>3, <1>4, Zenon

(* The part of a sequence that Field cuts out.                              *)
LEMMA FieldProperties ==
    ASSUME NEW d \in Seq(Byte), NEW o \in Nat, NEW w \in Nat, o + w <= Len(d)
    PROVE  /\ Field(d, o, w) \in Seq(Byte) /\ Len(Field(d, o, w)) = w
           /\ \A i \in 1..w : Field(d, o, w)[i] = d[o + i]
<1>1. Len(d) \in Nat /\ \A j \in 1..Len(d) : d[j] \in Byte
    BY LenProperties
<1>2. \A j \in (o + 1)..(o + w) : d[j] \in Byte
    BY <1>1
<1>3. /\ Field(d, o, w) \in Seq(Byte)
      /\ Len(Field(d, o, w)) = IF o + 1 <= o + w THEN (o + w) - (o + 1) + 1 ELSE 0
      /\ \A i \in 1..((o + w) - (o + 1) + 1) : Field(d, o, w)[i] = d[(o + 1) + i - 1]
    BY <1>1, <1>2, SubSeqProperties DEF Field
<1> QED
    BY <1>1, <1>3

(* A field is what stands at its place.                                     *)
LEMMA FieldIs ==
    ASSUME NEW d \in Seq(Byte), NEW o \in Nat, NEW p \in Seq(Byte), o + Len(p) <= Len(d),
           \A i \in 1..Len(p) : d[o + i] = p[i]
    PROVE  Field(d, o, Len(p)) = p
<1>1. Len(p) \in Nat
    BY LenProperties, Zenon
<1>2. /\ Field(d, o, Len(p)) \in Seq(Byte) /\ Len(Field(d, o, Len(p))) = Len(p)
      /\ \A i \in 1..Len(p) : Field(d, o, Len(p))[i] = d[o + i]
    BY <1>1, FieldProperties, Zenon
<1>3. \A i \in 1..Len(p) : Field(d, o, Len(p))[i] = p[i]
    BY <1>2, Zenon
<1> QED
    BY <1>2, <1>3, SeqEqual, Zenon

(* A number is what is left without its last byte, and that byte.           *)
LEMMA RestAndLast ==
    ASSUME NEW n \in Int
    PROVE  Rest(n) \in Int /\ Last8(n) \in Byte /\ Last8(n) \in Int /\ Join(Rest(n), Last8(n)) = n
    BY DEF Rest, Last8, Byte, Join

(* A number of one byte is its last byte.                                   *)
LEMMA OneByte ==
    ASSUME NEW n \in Int, Rest(n) = 0
    PROVE  Last8(n) = n
    BY DEF Rest, Last8

(* put_u32 writes four bytes.                                               *)
LEMMA PutU32Bytes ==
    ASSUME NEW n \in Int
    PROVE  /\ PutU32(n) \in Seq(Byte) /\ Len(PutU32(n)) = 4
           /\ PutU32(n)[1] = Last8(Rest(Rest(Rest(n)))) /\ PutU32(n)[2] = Last8(Rest(Rest(n)))
           /\ PutU32(n)[3] = Last8(Rest(n)) /\ PutU32(n)[4] = Last8(n)
<1>1. Rest(n) \in Int /\ Rest(Rest(n)) \in Int /\ Rest(Rest(Rest(n))) \in Int
    BY RestAndLast, Zenon
<1>2. Last8(n) \in Byte /\ Last8(Rest(n)) \in Byte /\ Last8(Rest(Rest(n))) \in Byte
      /\ Last8(Rest(Rest(Rest(n)))) \in Byte
    BY <1>1, RestAndLast, Zenon
<1> QED
    BY <1>2 DEF PutU32

(* get_u32 reads back what put_u32 wrote.                                   *)
LEMMA GetPutU32 ==
    ASSUME NEW n, IsU32(n)
    PROVE  GetU32(PutU32(n)) = n
<1> DEFINE a == Rest(n)
           b == Rest(a)
           c == Rest(b)
<1>0. n \in Int
    BY DEF IsU32
<1>1. a \in Int /\ b \in Int /\ c \in Int /\ Rest(c) = 0
    BY <1>0, RestAndLast, Zenon DEF IsU32, Upper
<1>2. Join(a, Last8(n)) = n /\ Join(b, Last8(a)) = a /\ Join(c, Last8(b)) = b /\ Last8(c) = c
    BY <1>0, <1>1, RestAndLast, OneByte, Zenon
<1>3. GetU32(PutU32(n)) = Join(Join(Join(Last8(c), Last8(b)), Last8(a)), Last8(n))
    BY <1>0, PutU32Bytes, Zenon DEF GetU32
<1> QED
    BY <1>2, <1>3, Zenon

(* put_u64 and put_i64 write eight bytes.                                   *)
LEMMA PutU64Bytes ==
    ASSUME NEW n \in Int
    PROVE  /\ PutU64(n) \in Seq(Byte) /\ Len(PutU64(n)) = 8
           /\ \A i \in 1..4 : PutU64(n)[i] = PutU32(Upper(n))[i]
           /\ \A i \in 1..4 : PutU64(n)[i + 4] = PutU32(n)[i]
<1>1. Upper(n) \in Int
    BY RestAndLast, Zenon DEF Upper
<1>2. PutU32(n) \in Seq(Byte) /\ Len(PutU32(n)) = 4
      /\ PutU32(Upper(n)) \in Seq(Byte) /\ Len(PutU32(Upper(n))) = 4
    BY <1>1, PutU32Bytes, Zenon
<1> DEFINE h == PutU32(Upper(n))
           l == PutU32(n)
<1>3. PutU64(n) = h \o l
    BY Zenon DEF PutU64
<1> HIDE DEF h, l
<1>4. h \in Seq(Byte) /\ l \in Seq(Byte)
    BY <1>2, Zenon DEF h, l
<1>7. Len(h) = 4 /\ Len(l) = 4
    BY <1>2, Zenon DEF h, l
<1>5. /\ h \o l \in Seq(Byte) /\ Len(h \o l) = Len(h) + Len(l)
      /\ \A i \in 1..Len(h) : (h \o l)[i] = h[i]
      /\ \A i \in 1..Len(l) : (h \o l)[Len(h) + i] = l[i]
    BY <1>4, Joined
<1>6. /\ Len(h \o l) = 8
      /\ \A i \in 1..4 : (h \o l)[i] = h[i]
      /\ \A i \in 1..4 : (h \o l)[i + 4] = l[i]
    BY <1>5, <1>7
<1> QED
    BY <1>3, <1>5, <1>6, Zenon DEF h, l

(* What the bytes of put_u64 add up to.                                     *)
LEMMA GetPutLong ==
    ASSUME NEW n \in Int
    PROVE  LET top == Rest(Rest(Rest(Upper(n)))) IN
           /\ top \in Int /\ PutU64(n)[1] = Last8(top)
           /\ Last8(top) = top => GetU64(PutU64(n)) = n
<1> DEFINE u == Upper(n)
           top == Rest(Rest(Rest(u)))
           b == PutU64(n)
<1>1. /\ Rest(n) \in Int /\ Rest(Rest(n)) \in Int /\ Rest(Rest(Rest(n))) \in Int /\ u \in Int
      /\ Rest(u) \in Int /\ Rest(Rest(u)) \in Int /\ top \in Int
    BY RestAndLast, Zenon DEF Upper
<1>2. /\ b[1] = Last8(top) /\ b[2] = Last8(Rest(Rest(u))) /\ b[3] = Last8(Rest(u))
      /\ b[4] = Last8(u)
    <2>1. b[1] = PutU32(u)[1] /\ b[2] = PutU32(u)[2] /\ b[3] = PutU32(u)[3] /\ b[4] = PutU32(u)[4]
        <3>1. 1 \in 1..4 /\ 2 \in 1..4 /\ 3 \in 1..4 /\ 4 \in 1..4
            OBVIOUS
        <3> QED
            BY <3>1, PutU64Bytes, Zenon
    <2> QED
        BY <1>1, <2>1, PutU32Bytes, Zenon
<1>3. /\ b[5] = Last8(Rest(Rest(Rest(n)))) /\ b[6] = Last8(Rest(Rest(n)))
      /\ b[7] = Last8(Rest(n)) /\ b[8] = Last8(n)
    <2>1. b[5] = PutU32(n)[1] /\ b[6] = PutU32(n)[2] /\ b[7] = PutU32(n)[3] /\ b[8] = PutU32(n)[4]
        BY PutU64Bytes
    <2> QED
        BY <2>1, PutU32Bytes, Zenon
<1>4. ASSUME Last8(top) = top PROVE GetU32(b) = u
    <2>1. GetU32(b) = Join(Join(Join(top, Last8(Rest(Rest(u)))), Last8(Rest(u))), Last8(u))
        BY <1>2, <1>4, Zenon DEF GetU32
    <2> QED
        BY <1>1, <2>1, RestAndLast, Zenon
<1>5. ASSUME GetU32(b) = u PROVE GetU64(b) = n
    <2>1. GetU64(b) = Join(Join(Join(Join(u, Last8(Rest(Rest(Rest(n))))), Last8(Rest(Rest(n)))),
                                Last8(Rest(n))), Last8(n))
        BY <1>3, <1>5, Zenon DEF GetU64
    <2>2. Join(u, Last8(Rest(Rest(Rest(n))))) = Rest(Rest(Rest(n)))
        BY <1>1, RestAndLast, Zenon DEF Upper
    <2> QED
        BY <1>1, <2>1, <2>2, RestAndLast, Zenon
<1> QED
    BY <1>1, <1>2, <1>4, <1>5, Zenon

(* get_u64 reads back what put_u64 wrote.                                   *)
LEMMA GetPutU64 ==
    ASSUME NEW n, IsU64(n)
    PROVE  GetU64(PutU64(n)) = n
<1>1. n \in Int
    BY DEF IsU64
<1>2. Upper(n) \in Int /\ Rest(Rest(Rest(Upper(n)))) \in Int
    BY <1>1, RestAndLast, Zenon DEF Upper
<1>3. Rest(Rest(Rest(Rest(Upper(n))))) = 0
    BY Zenon DEF IsU64, Upper
<1> QED
    BY <1>1, <1>2, <1>3, OneByte, GetPutLong, Zenon

(* The complement of a number, and of a byte.                               *)
Flip(n) == -1 - n
Flip8(b) == 255 - b

(* Byte by byte, the complement of a number is the complement of its bytes. *)
LEMMA Complement ==
    ASSUME NEW n \in Int
    PROVE  Flip(n) \in Int /\ Rest(Flip(n)) = Flip(Rest(n)) /\ Last8(Flip(n)) = Flip8(Last8(n))
    BY DEF Rest, Last8, Flip, Flip8

(* The same for what put_u32 writes.                                        *)
LEMMA ComplementU32 ==
    ASSUME NEW n \in Int
    PROVE  /\ Upper(Flip(n)) = Flip(Upper(n))
           /\ \A i \in 1..4 : PutU32(Flip(n))[i] = Flip8(PutU32(n)[i])
<1>1. Rest(n) \in Int /\ Rest(Rest(n)) \in Int /\ Rest(Rest(Rest(n))) \in Int
    BY RestAndLast, Zenon
<1>2. /\ Rest(Flip(n)) = Flip(Rest(n)) /\ Rest(Rest(Flip(n))) = Flip(Rest(Rest(n)))
      /\ Rest(Rest(Rest(Flip(n)))) = Flip(Rest(Rest(Rest(n))))
      /\ Upper(Flip(n)) = Flip(Upper(n))
    <2>1. Rest(Flip(n)) = Flip(Rest(n)) /\ Rest(Flip(Rest(n))) = Flip(Rest(Rest(n)))
        BY <1>1, Complement, Zenon
    <2>2. /\ Rest(Flip(Rest(Rest(n)))) = Flip(Rest(Rest(Rest(n))))
          /\ Rest(Flip(Rest(Rest(Rest(n))))) = Flip(Rest(Rest(Rest(Rest(n)))))
        BY <1>1, Complement, Zenon
    <2> QED
        BY <2>1, <2>2, Zenon DEF Upper
<1>3. Flip(n) \in Int
    BY Complement, Zenon
<1>4. /\ PutU32(Flip(n))[1] = Flip8(PutU32(n)[1]) /\ PutU32(Flip(n))[2] = Flip8(PutU32(n)[2])
      /\ PutU32(Flip(n))[3] = Flip8(PutU32(n)[3]) /\ PutU32(Flip(n))[4] = Flip8(PutU32(n)[4])
    <2>1. /\ Last8(Flip(n)) = Flip8(Last8(n)) /\ Last8(Flip(Rest(n))) = Flip8(Last8(Rest(n)))
          /\ Last8(Flip(Rest(Rest(n)))) = Flip8(Last8(Rest(Rest(n))))
          /\ Last8(Flip(Rest(Rest(Rest(n))))) = Flip8(Last8(Rest(Rest(Rest(n)))))
        BY <1>1, Complement, Zenon
    <2>2. /\ PutU32(Flip(n))[1] = Last8(Rest(Rest(Rest(Flip(n)))))
          /\ PutU32(Flip(n))[2] = Last8(Rest(Rest(Flip(n))))
          /\ PutU32(Flip(n))[3] = Last8(Rest(Flip(n))) /\ PutU32(Flip(n))[4] = Last8(Flip(n))
        BY <1>3, PutU32Bytes, Zenon
    <2>3. /\ PutU32(n)[1] = Last8(Rest(Rest(Rest(n)))) /\ PutU32(n)[2] = Last8(Rest(Rest(n)))
          /\ PutU32(n)[3] = Last8(Rest(n)) /\ PutU32(n)[4] = Last8(n)
        BY PutU32Bytes, Zenon
    <2> QED
        BY <1>2, <2>1, <2>2, <2>3, Zenon
<1>5. \A i \in 1..4 : i = 1 \/ i = 2 \/ i = 3 \/ i = 4
    OBVIOUS
<1> QED
    BY <1>2, <1>4, <1>5, Zenon

(* The same for what put_i64 writes.                                        *)
LEMMA ComplementI64 ==
    ASSUME NEW n \in Int
    PROVE  \A i \in 1..8 : PutU64(Flip(n))[i] = Flip8(PutU64(n)[i])
<1>1. Flip(n) \in Int /\ Upper(n) \in Int /\ Upper(Flip(n)) = Flip(Upper(n))
    BY Complement, ComplementU32, RestAndLast, Zenon DEF Upper
<1>2. ASSUME NEW i \in 1..4 PROVE PutU64(Flip(n))[i] = Flip8(PutU64(n)[i])
    <2>1. PutU64(Flip(n))[i] = PutU32(Upper(Flip(n)))[i] /\ PutU64(n)[i] = PutU32(Upper(n))[i]
        BY <1>1, PutU64Bytes, Zenon
    <2> QED
        BY <1>1, <2>1, ComplementU32, Zenon
<1>3. ASSUME NEW i \in 1..4 PROVE PutU64(Flip(n))[i + 4] = Flip8(PutU64(n)[i + 4])
    <2>1. PutU64(Flip(n))[i + 4] = PutU32(Flip(n))[i] /\ PutU64(n)[i + 4] = PutU32(n)[i]
        BY <1>1, PutU64Bytes, Zenon
    <2> QED
        BY <2>1, ComplementU32, Zenon
<1>4. \A i \in 1..8 : i \in 1..4 \/ \E j \in 1..4 : i = j + 4
    <2>1. ASSUME NEW i \in 1..8, i \notin 1..4 PROVE i - 4 \in 1..4 /\ i = (i - 4) + 4
        BY <2>1
    <2> QED
        BY <2>1, Zenon
<1> QED
    BY <1>2, <1>3, <1>4, Zenon

(* get_i64 reads back what put_i64 wrote.                                   *)
LEMMA GetPutI64 ==
    ASSUME NEW n, IsI64(n)
    PROVE  GetI64(PutU64(n)) = n
<1> DEFINE top == Rest(Rest(Rest(Upper(n))))
           c == [i \in 1..8 |-> Flip8(PutU64(n)[i])]
<1>1. n \in Int /\ top \in -128..127
    BY Zenon DEF IsI64
<1>2. PutU64(n)[1] = Last8(top) /\ (Last8(top) = top => GetU64(PutU64(n)) = n)
    BY <1>1, GetPutLong, Zenon
<1>3. CASE top >= 0
    <2>1. Last8(top) = top /\ Last8(top) < 128
        BY <1>1, <1>3 DEF Last8
    <2> QED
        BY <1>2, <2>1, Zenon DEF GetI64
<1>4. CASE top < 0
    <2> DEFINE k == Flip(n)
    <2>1. k \in Int /\ Flip(k) = n
        BY <1>1 DEF Flip
    <2>2. Upper(n) \in Int /\ Rest(Upper(n)) \in Int /\ Rest(Rest(Upper(n))) \in Int
        BY <1>1, RestAndLast, Zenon DEF Upper
    <2>3. Upper(k) = Flip(Upper(n))
        BY <1>1, ComplementU32, Zenon
    <2>4. Rest(Rest(Rest(Upper(k)))) = Flip(top)
        BY <2>2, <2>3, Complement, Zenon
    <2>5. Last8(Flip(top)) = Flip(top)
        BY <1>1, <1>4 DEF Last8, Flip
    <2>6. GetU64(PutU64(k)) = k
        BY <2>1, <2>4, <2>5, GetPutLong, Zenon
    <2>7. \A i \in 1..8 : c[i] = PutU64(k)[i]
        BY <1>1, ComplementI64, Zenon
    <2>8. GetU64(c) = GetU64(PutU64(k))
        <3>1. /\ 1 \in 1..8 /\ 2 \in 1..8 /\ 3 \in 1..8 /\ 4 \in 1..8
              /\ 5 \in 1..8 /\ 6 \in 1..8 /\ 7 \in 1..8 /\ 8 \in 1..8
            OBVIOUS
        <3> HIDE DEF c, k
        <3>2. /\ c[1] = PutU64(k)[1] /\ c[2] = PutU64(k)[2] /\ c[3] = PutU64(k)[3]
              /\ c[4] = PutU64(k)[4] /\ c[5] = PutU64(k)[5] /\ c[6] = PutU64(k)[6]
              /\ c[7] = PutU64(k)[7] /\ c[8] = PutU64(k)[8]
            BY <2>7, <3>1, Zenon
        <3> QED
            BY <3>2, Zenon DEF GetU64, GetU32
    <2>9. ~(PutU64(n)[1] < 128)
        <3>1. ~(Last8(top) < 128)
            BY <1>1, <1>4 DEF Last8
        <3> QED
            BY <1>2, <3>1, Zenon
    <2>10. GetI64(PutU64(n)) = Flip(GetU64(c))
        BY <2>9, Zenon DEF GetI64, Flip, Flip8
    <2> QED
        BY <2>1, <2>6, <2>8, <2>10, Zenon
<1>5. top >= 0 \/ top < 0
    BY <1>1
<1> QED
    BY <1>3, <1>4, <1>5, Zenon

-----------------------------------------------------------------------------
(* The type field                                                           *)

Bytes(w) == {b \in Seq(Byte) : Len(b) = w}

(* What padded_message_type and the digest have in common.                  *)
LEMMA FunctionIsBytes ==
    ASSUME NEW w \in Nat, NEW f \in [1..w -> Byte]
    PROVE  f \in Bytes(w)
    BY DEF Bytes

(* A name is one or two letters, none of which is trimmed; no two types     *)
(* have one name.                                                           *)
LEMMA Names ==
    /\ \A t \in MessageTypes :
         /\ Name[t] \in Seq(Byte) /\ Len(Name[t]) \in 1..2
         /\ \A i \in 1..Len(Name[t]) : Name[t][i] \in Byte \ Trimmed
    /\ \A t, u \in MessageTypes : Name[t] = Name[u] => t = u
<1>1. MessageTypes = {"input_stream_data", "output_stream_data", "acknowledge",
                      "channel_closed", "start_publication", "pause_publication"}
    BY DEF MessageTypes, Name
<1>2. /\ Name["input_stream_data"] = <<105>> /\ Name["output_stream_data"] = <<111>>
      /\ Name["acknowledge"] = <<97>> /\ Name["channel_closed"] = <<99>>
      /\ Name["start_publication"] = <<115>> /\ Name["pause_publication"] = <<112, 97>>
    BY DEF Name
<1>3. \A b \in {105, 111, 97, 99, 115, 112} : b \in Byte \ Trimmed
    BY DEF Byte, Trimmed, WhiteSpace
<1>4. ASSUME NEW b \in Byte \ Trimmed
      PROVE  /\ <<b>> \in Seq(Byte) /\ Len(<<b>>) \in 1..2
             /\ \A i \in 1..Len(<<b>>) : <<b>>[i] \in Byte \ Trimmed
    OBVIOUS
<1>5. /\ <<112, 97>> \in Seq(Byte) /\ Len(<<112, 97>>) \in 1..2
      /\ \A i \in 1..Len(<<112, 97>>) : <<112, 97>>[i] \in Byte \ Trimmed
    BY <1>3
<1>6. ASSUME NEW t \in MessageTypes
      PROVE  /\ Name[t] \in Seq(Byte) /\ Len(Name[t]) \in 1..2
             /\ \A i \in 1..Len(Name[t]) : Name[t][i] \in Byte \ Trimmed
    <2>1. Name[t] = <<112, 97>> \/ \E b \in {105, 111, 97, 99, 115, 112} : Name[t] = <<b>>
        BY <1>1, <1>2
    <2>2. Name[t] = <<112, 97>> \/ \E b \in Byte \ Trimmed : Name[t] = <<b>>
        BY <1>3, <2>1
    <2>3. CASE Name[t] = <<112, 97>>
        BY <1>5, <2>3
    <2>4. CASE \E b \in Byte \ Trimmed : Name[t] = <<b>>
        BY <1>4, <2>4, Zenon
    <2> QED
        BY <2>2, <2>3, <2>4
<1>7. \A t, u \in MessageTypes : Name[t][1] = Name[u][1] => t = u
    BY <1>1, <1>2
<1> QED
    BY <1>6, <1>7, Zenon

(* trim_matches takes any padding off a name.                               *)
LEMMA TrimPadded ==
    ASSUME NEW b \in Bytes(32), NEW k \in 1..2, NEW name \in Seq(Byte), Len(name) = k,
           \A i \in 1..k : b[i] = name[i] /\ name[i] \notin Trimmed,
           \A i \in (k + 1)..32 : b[i] \in Trimmed
    PROVE  Trim(b) = name
<1> DEFINE kept == {i \in DOMAIN b : b[i] \notin Trimmed}
<1>1. b \in Seq(Byte) /\ Len(b) = 32 /\ DOMAIN b = 1..32
    BY LenProperties DEF Bytes
<1>2. kept = 1..k
    <2>1. \A i \in 1..32 : i \in 1..k \/ i \in (k + 1)..32
        OBVIOUS
    <2>2. \A i \in 1..k : i \in 1..32
        OBVIOUS
    <2> QED
        BY <1>1, <2>1, <2>2, ZenonT(60)
<1>3. Min(1..k) = 1 /\ Max(1..k) = k
    <2>1. \A x \in 1..k : (\A y \in 1..k : x <= y) => x = 1
        OBVIOUS
    <2>2. \A x \in 1..k : (\A y \in 1..k : x >= y) => x = k
        OBVIOUS
    <2>3. 1 \in 1..k /\ k \in 1..k /\ (\A y \in 1..k : 1 <= y) /\ (\A y \in 1..k : k >= y)
        OBVIOUS
    <2>4. Min(1..k) = 1
        BY <2>1, <2>3, Zenon DEF Min
    <2>5. Max(1..k) = k
        BY <2>2, <2>3, Zenon DEF Max
    <2> QED
        BY <2>4, <2>5, Zenon
<1>4. 1 \in 1..k
    OBVIOUS
<1>5. Trim(b) = SubSeq(b, 1, k)
    BY <1>2, <1>3, <1>4, Zenon DEF Trim
<1>6. SubSeq(b, 1, k) = Field(b, 0, Len(name))
    BY DEF Field
<1>7. 0 + Len(name) <= Len(b) /\ \A i \in 1..Len(name) : b[0 + i] = name[i]
    BY <1>1
<1> QED
    BY <1>1, <1>5, <1>6, <1>7, FieldIs

(* parse_message_type finds the type behind its name and any such padding.  *)
LEMMA TypeField ==
    ASSUME NEW t \in MessageTypes, NEW b \in Bytes(32),
           \A i \in 1..Len(Name[t]) : b[i] = Name[t][i],
           \A i \in (Len(Name[t]) + 1)..32 : b[i] \in Trimmed
    PROVE  Named(b) = {t}
<1>1. /\ Name[t] \in Seq(Byte) /\ Len(Name[t]) \in 1..2
      /\ \A i \in 1..Len(Name[t]) : Name[t][i] \notin Trimmed
    BY Names, Zenon
<1>2. Trim(b) = Name[t]
    BY <1>1, TrimPadded, Zenon
<1> QED
    BY <1>2, Names, Zenon DEF Named

-----------------------------------------------------------------------------
(* The header                                                               *)

(* ClientMessage, with its numbers in the widths of their fields.           *)
U32 == {n \in Nat : IsU32(n)}
U64 == {n \in Nat : IsU64(n)}
I64 == {n \in Int : IsI64(n)}
Payloads == {p \in Seq(Byte) : IsU32(Len(p))}
ClientMessage ==
    [type : MessageTypes, schema : U32, created : U64, seq : I64, flags : U64,
     id : Bytes(16), digest : Bytes(32), ptype : PayloadTypes, payload : Payloads]

(* d begins with c.                                                         *)
Extends(d, c) == Len(c) <= Len(d) /\ \A i \in 1..Len(c) : d[i] = c[i]

(* What begins with two pieces begins with the first, and has the second as *)
(* the field behind it.                                                     *)
LEMMA Piece ==
    ASSUME NEW d \in Seq(Byte), NEW c \in Seq(Byte), NEW p \in Seq(Byte), Extends(d, c \o p)
    PROVE  Extends(d, c) /\ Field(d, Len(c), Len(p)) = p /\ Len(c \o p) = Len(c) + Len(p)
<1>1. /\ c \o p \in Seq(Byte) /\ Len(c \o p) = Len(c) + Len(p)
      /\ Len(c) \in Nat /\ Len(p) \in Nat /\ Len(d) \in Nat
      /\ \A i \in 1..Len(c) : (c \o p)[i] = c[i]
      /\ \A i \in 1..Len(p) : (c \o p)[Len(c) + i] = p[i]
    BY Joined, LenProperties
<1>2. Len(c \o p) <= Len(d) /\ \A i \in 1..Len(c \o p) : d[i] = (c \o p)[i]
    BY Zenon DEF Extends
<1>3. Extends(d, c)
    BY <1>1, <1>2 DEF Extends
<1>4. Len(c) + Len(p) <= Len(d) /\ \A i \in 1..Len(p) : d[Len(c) + i] = p[i]
    BY <1>1, <1>2
<1> QED
    BY <1>1, <1>3, <1>4, FieldIs

(* The halves of an identifier, swapped and swapped back.                   *)
LEMMA SwappedTwice ==
    ASSUME NEW id \in Bytes(16)
    PROVE  /\ Swapped(id) \in Bytes(16)
           /\ Field(Swapped(id), 8, 8) \o Field(Swapped(id), 0, 8) = id
<1> DEFINE lo == Field(id, 8, 8)
           hi == Field(id, 0, 8)
           s == lo \o hi
<1>1. id \in Seq(Byte) /\ Len(id) = 16
    BY Zenon DEF Bytes
<1>0. ASSUME NEW o \in Nat, NEW w \in Nat, o + w <= 16
      PROVE  /\ Field(id, o, w) \in Seq(Byte) /\ Len(Field(id, o, w)) = w
             /\ \A i \in 1..w : Field(id, o, w)[i] = id[o + i]
    <2>1. id \in Seq(Byte) /\ o + w <= Len(id)
        BY <1>0, <1>1, Zenon
    <2> QED
        BY <2>1, FieldProperties, Zenon
<1>halves. 8 \in Nat /\ 0 \in Nat /\ 8 + 8 <= 16 /\ 0 + 8 <= 16
    OBVIOUS
<1>2. lo \in Seq(Byte) /\ Len(lo) = 8 /\ \A i \in 1..8 : lo[i] = id[8 + i]
    BY <1>0, <1>halves, Zenon
<1>3. hi \in Seq(Byte) /\ Len(hi) = 8 /\ \A i \in 1..8 : hi[i] = id[0 + i]
    BY <1>0, <1>halves, Zenon
<1>4. Swapped(id) = s
    BY DEF Swapped, Field
<1> HIDE DEF lo, hi
<1>5. /\ s \in Seq(Byte) /\ Len(s) = Len(lo) + Len(hi)
      /\ \A i \in 1..Len(lo) : s[i] = lo[i]
      /\ \A i \in 1..Len(hi) : s[Len(lo) + i] = hi[i]
    <2>1. lo \in Seq(Byte) /\ hi \in Seq(Byte)
        BY <1>2, <1>3, Zenon
    <2> QED
        BY <2>1, Joined
<1> HIDE DEF s
<1>6. Len(s) = 16 /\ (\A i \in 1..8 : s[0 + i] = lo[i]) /\ (\A i \in 1..8 : s[8 + i] = hi[i])
    BY <1>2, <1>3, <1>5
<1>7. Field(s, 0, 8) = lo
    <2>1. 0 + Len(lo) <= Len(s) /\ \A i \in 1..Len(lo) : s[0 + i] = lo[i]
        BY <1>2, <1>6
    <2> QED
        BY <1>2, <1>5, <2>1, FieldIs, Zenon
<1>8. Field(s, 8, 8) = hi
    <2>1. 8 + Len(hi) <= Len(s) /\ \A i \in 1..Len(hi) : s[8 + i] = hi[i]
        BY <1>3, <1>6
    <2>2. Field(s, 8, Len(hi)) = hi
        BY <1>3, <1>5, <2>1, FieldIs, Zenon
    <2> QED
        BY <1>3, <2>2, Zenon
<1>9. hi \o lo = id
    <2>1. /\ hi \o lo \in Seq(Byte) /\ Len(hi \o lo) = Len(hi) + Len(lo)
          /\ \A i \in 1..Len(hi) : (hi \o lo)[i] = hi[i]
          /\ \A i \in 1..Len(lo) : (hi \o lo)[Len(hi) + i] = lo[i]
        <3>1. lo \in Seq(Byte) /\ hi \in Seq(Byte)
            BY <1>2, <1>3, Zenon
        <3> QED
            BY <3>1, Joined
    <2>2. Len(hi \o lo) = 16
        BY <1>2, <1>3, <2>1
    <2>3. (\A i \in 1..8 : (hi \o lo)[i] = id[i]) /\ (\A i \in 1..8 : (hi \o lo)[8 + i] = id[8 + i])
        BY <1>2, <1>3, <2>1
    <2>4. ASSUME NEW i \in 1..16 PROVE (hi \o lo)[i] = id[i]
        <3>1. i \in 1..8 \/ \E j \in 1..8 : i = 8 + j
            <4>1. i \in 1..8 \/ (i - 8 \in 1..8 /\ i = 8 + (i - 8))
                OBVIOUS
            <4> QED
                BY <4>1, Zenon
        <3> QED
            BY <2>3, <3>1, Zenon
    <2>5. Len(hi \o lo) = Len(id) /\ \A i \in 1..Len(hi \o lo) : (hi \o lo)[i] = id[i]
        BY <1>1, <2>2, <2>4, Zenon
    <2> QED
        BY <1>1, <2>1, <2>5, SeqEqual, Zenon
<1>10. s \in Bytes(16)
    BY <1>5, <1>6, Zenon DEF Bytes
<1> QED
    BY <1>4, <1>7, <1>8, <1>9, <1>10, Zenon

(* padded_message_type fills its 32 bytes.                                  *)
LEMMA PaddedBytes ==
    ASSUME NEW t \in MessageTypes
    PROVE  /\ Padded(t) \in Bytes(32)
           /\ \A i \in 1..Len(Name[t]) : Padded(t)[i] = Name[t][i]
           /\ \A i \in (Len(Name[t]) + 1)..32 : Padded(t)[i] = 32
<1> DEFINE name == Name[t]
<1>1. name \in Seq(Byte) /\ Len(name) \in 1..2 /\ \A i \in 1..Len(name) : name[i] \in Byte
    BY Names, Zenon
<1>2. Padded(t) = [i \in 1..32 |-> IF i <= Len(name) THEN name[i] ELSE 32]
    BY Zenon DEF Padded
<1> HIDE DEF name
<1>3. PICK k \in 1..2 : k = Len(name)
    BY <1>1, Zenon
<1>4. ASSUME NEW i \in 1..32 PROVE (IF i <= k THEN name[i] ELSE 32) \in Byte
    <2>1. \A j \in 1..k : name[j] \in Byte
        BY <1>1, <1>3, Zenon
    <2>2. i <= k => i \in 1..k
        OBVIOUS
    <2>3. 32 \in Byte
        BY DEF Byte
    <2> QED
        BY <2>1, <2>2, <2>3, Zenon
<1>5. Padded(t) = [i \in 1..32 |-> IF i <= k THEN name[i] ELSE 32]
    BY <1>2, <1>3, Zenon
<1>6. Padded(t) \in [1..32 -> Byte]
    BY <1>4, <1>5
<1>7. \A i \in 1..k : Padded(t)[i] = name[i]
    BY <1>5
<1>8. \A i \in (k + 1)..32 : Padded(t)[i] = 32
    BY <1>5
<1>9. Padded(t) \in Bytes(32)
    BY <1>6, FunctionIsBytes, Zenon
<1> QED
    BY <1>3, <1>7, <1>8, <1>9, Zenon DEF name

(* The pieces serialize writes.                                             *)
LEMMA Pieces ==
    ASSUME NEW m \in ClientMessage
    PROVE  /\ PutU32(HeaderLength) \in Bytes(4) /\ Padded(m.type) \in Bytes(32)
           /\ PutU32(m.schema) \in Bytes(4) /\ PutU64(m.created) \in Bytes(8)
           /\ PutU64(m.seq) \in Bytes(8) /\ PutU64(m.flags) \in Bytes(8)
           /\ Swapped(m.id) \in Bytes(16) /\ m.digest \in Bytes(32)
           /\ PutU32(m.ptype) \in Bytes(4) /\ PutU32(Len(m.payload)) \in Bytes(4)
<1>1. /\ m.type \in MessageTypes /\ m.schema \in Int /\ m.created \in Int /\ m.seq \in Int
      /\ m.flags \in Int /\ m.id \in Bytes(16) /\ m.digest \in Bytes(32) /\ m.ptype \in Int
      /\ m.payload \in Seq(Byte) /\ Len(m.payload) \in Int /\ HeaderLength \in Int
    BY LenProperties DEF ClientMessage, U32, U64, I64, Payloads, PayloadTypes, HeaderLength
<1>2. \A n \in Int : PutU32(n) \in Bytes(4) /\ PutU64(n) \in Bytes(8)
    BY PutU32Bytes, PutU64Bytes, Zenon DEF Bytes
<1>3. Padded(m.type) \in Bytes(32)
    BY <1>1, PaddedBytes, Zenon
<1>4. Swapped(m.id) \in Bytes(16)
    BY <1>1, SwappedTwice, Zenon
<1> QED
    BY <1>1, <1>2, <1>3, <1>4, Zenon

(* The pieces are the fields of the header, each at its offset.             *)
LEMMA HeaderFields ==
    ASSUME NEW m \in ClientMessage
    PROVE  LET h == Header(m) IN
           /\ h \in Bytes(HeaderSize)
           /\ Field(h, 0, 4) = PutU32(HeaderLength) /\ Field(h, 4, 32) = Padded(m.type)
           /\ Field(h, 36, 4) = PutU32(m.schema) /\ Field(h, 40, 8) = PutU64(m.created)
           /\ Field(h, 48, 8) = PutU64(m.seq) /\ Field(h, 56, 8) = PutU64(m.flags)
           /\ Field(h, 64, 16) = Swapped(m.id) /\ Field(h, 80, 32) = m.digest
           /\ Field(h, 112, 4) = PutU32(m.ptype)
           /\ Field(h, 116, 4) = PutU32(Len(m.payload))
<1> DEFINE h == Header(m)
           p1 == PutU32(HeaderLength)
           p2 == Padded(m.type)
           p3 == PutU32(m.schema)
           p4 == PutU64(m.created)
           p5 == PutU64(m.seq)
           p6 == PutU64(m.flags)
           p7 == Swapped(m.id)
           p8 == m.digest
           p9 == PutU32(m.ptype)
           p10 == PutU32(Len(m.payload))
           c2 == p1 \o p2
           c3 == c2 \o p3
           c4 == c3 \o p4
           c5 == c4 \o p5
           c6 == c5 \o p6
           c7 == c6 \o p7
           c8 == c7 \o p8
           c9 == c8 \o p9
           c10 == c9 \o p10
<1>1. /\ p1 \in Bytes(4) /\ p2 \in Bytes(32) /\ p3 \in Bytes(4) /\ p4 \in Bytes(8)
      /\ p5 \in Bytes(8) /\ p6 \in Bytes(8) /\ p7 \in Bytes(16) /\ p8 \in Bytes(32)
      /\ p9 \in Bytes(4) /\ p10 \in Bytes(4)
    BY Pieces, Zenon
<1>2. h = c10
    BY Zenon DEF Header
<1> HIDE DEF h, p1, p2, p3, p4, p5, p6, p7, p8, p9, p10
<1>3. ASSUME NEW v \in Nat, NEW w \in Nat, NEW c \in Bytes(v), NEW p \in Bytes(w)
      PROVE  c \o p \in Bytes(v + w)
    BY <1>3, Joined, ZenonT(30) DEF Bytes
<1>4. /\ c2 \in Bytes(36) /\ c3 \in Bytes(40) /\ c4 \in Bytes(48) /\ c5 \in Bytes(56)
      /\ c6 \in Bytes(64) /\ c7 \in Bytes(80) /\ c8 \in Bytes(112) /\ c9 \in Bytes(116)
      /\ c10 \in Bytes(120)
    <2> HIDE DEF c2, c3, c4, c5, c6, c7, c8, c9, c10
    <2>1. c2 \in Bytes(4 + 32)
        BY <1>1, <1>3 DEF c2
    <2>2. c3 \in Bytes(36 + 4)
        BY <1>1, <1>3, <2>1 DEF c3
    <2>3. c4 \in Bytes(40 + 8)
        BY <1>1, <1>3, <2>2 DEF c4
    <2>4. c5 \in Bytes(48 + 8)
        BY <1>1, <1>3, <2>3 DEF c5
    <2>5. c6 \in Bytes(56 + 8)
        BY <1>1, <1>3, <2>4 DEF c6
    <2>6. c7 \in Bytes(64 + 16)
        BY <1>1, <1>3, <2>5 DEF c7
    <2>7. c8 \in Bytes(80 + 32)
        BY <1>1, <1>3, <2>6 DEF c8
    <2>8. c9 \in Bytes(112 + 4)
        BY <1>1, <1>3, <2>7 DEF c9
    <2>9. c10 \in Bytes(116 + 4)
        BY <1>1, <1>3, <2>8 DEF c10
    <2> QED
        BY <2>1, <2>2, <2>3, <2>4, <2>5, <2>6, <2>7, <2>8, <2>9
<1>5. h \in Seq(Byte) /\ Extends(h, c10)
    BY <1>2, <1>4, LenProperties DEF Extends, Bytes
<1>6. ASSUME NEW v \in Nat, NEW w \in Nat, NEW c \in Bytes(v), NEW p \in Bytes(w),
             Extends(h, c \o p)
      PROVE  Extends(h, c) /\ Field(h, v, w) = p
    <2>1. c \in Seq(Byte) /\ Len(c) = v /\ p \in Seq(Byte) /\ Len(p) = w
        BY Zenon DEF Bytes
    <2>2. Extends(h, c) /\ Field(h, Len(c), Len(p)) = p
        BY <1>5, <1>6, <2>1, Piece, Zenon
    <2> QED
        BY <2>1, <2>2, Zenon
<1> HIDE DEF c2, c3, c4, c5, c6, c7, c8, c9, c10
<1>7. Extends(h, c9) /\ Field(h, 116, 4) = p10
    BY <1>1, <1>4, <1>5, <1>6 DEF c10
<1>8. Extends(h, c8) /\ Field(h, 112, 4) = p9
    BY <1>1, <1>4, <1>6, <1>7 DEF c9
<1>9. Extends(h, c7) /\ Field(h, 80, 32) = p8
    BY <1>1, <1>4, <1>6, <1>8 DEF c8
<1>10. Extends(h, c6) /\ Field(h, 64, 16) = p7
    BY <1>1, <1>4, <1>6, <1>9 DEF c7
<1>11. Extends(h, c5) /\ Field(h, 56, 8) = p6
    BY <1>1, <1>4, <1>6, <1>10 DEF c6
<1>12. Extends(h, c4) /\ Field(h, 48, 8) = p5
    BY <1>1, <1>4, <1>6, <1>11 DEF c5
<1>13. Extends(h, c3) /\ Field(h, 40, 8) = p4
    BY <1>1, <1>4, <1>6, <1>12 DEF c4
<1>14. Extends(h, c2) /\ Field(h, 36, 4) = p3
    BY <1>1, <1>4, <1>6, <1>13 DEF c3
<1>15. Extends(h, p1) /\ Field(h, 4, 32) = p2
    BY <1>1, <1>4, <1>6, <1>14 DEF c2
<1>16. Field(h, 0, 4) = p1
    <2>1. p1 \in Seq(Byte) /\ Len(p1) = 4 /\ 0 + Len(p1) <= Len(h)
          /\ \A i \in 1..Len(p1) : h[0 + i] = p1[i]
        BY <1>1, <1>5, <1>15, LenProperties DEF Bytes, Extends
    <2> QED
        BY <1>5, <2>1, FieldIs, Zenon
<1>17. h \in Bytes(HeaderSize)
    BY <1>2, <1>4 DEF HeaderSize
<1> QED
    BY <1>7, <1>8, <1>9, <1>10, <1>11, <1>12, <1>13, <1>14, <1>15, <1>16, <1>17, Zenon
    DEF h, p1, p2, p3, p4, p5, p6, p7, p8, p9, p10

(* Two byte strings that agree on a field have the same field.              *)
LEMMA SameField ==
    ASSUME NEW d \in Seq(Byte), NEW h \in Seq(Byte), NEW o \in Nat, NEW w \in Nat,
           o + w <= Len(d), o + w <= Len(h), \A i \in (o + 1)..(o + w) : d[i] = h[i]
    PROVE  Field(d, o, w) = Field(h, o, w)
<1>1. /\ Field(d, o, w) \in Seq(Byte) /\ Len(Field(d, o, w)) = w
      /\ \A i \in 1..w : Field(d, o, w)[i] = d[o + i]
    BY FieldProperties, Zenon
<1>2. /\ Field(h, o, w) \in Seq(Byte) /\ Len(Field(h, o, w)) = w
      /\ \A i \in 1..w : Field(h, o, w)[i] = h[o + i]
    BY FieldProperties, Zenon
<1>3. \A i \in 1..w : d[o + i] = h[o + i]
    OBVIOUS
<1>4. \A i \in 1..w : Field(d, o, w)[i] = Field(h, o, w)[i]
    BY <1>1, <1>2, <1>3, Zenon
<1> QED
    BY <1>1, <1>2, <1>4, SeqEqual, Zenon

(* d carries the header of m, with either padding of the type.              *)
Carries(d, m) ==
    /\ Len(d) >= HeaderSize
    /\ \A i \in (1..4) \cup (37..HeaderSize) : d[i] = Header(m)[i]
    /\ Named(Field(d, 4, 32)) = {m.type}

(* Every field of a message but its payload is read as it was written.      *)
LEMMA FieldsRead ==
    ASSUME NEW m \in ClientMessage, NEW d \in Seq(Byte), Carries(d, m)
    PROVE  /\ GetU32(Field(d, 0, 4)) = HeaderLength
           /\ GetU32(Field(d, 36, 4)) = m.schema /\ GetU64(Field(d, 40, 8)) = m.created
           /\ GetI64(Field(d, 48, 8)) = m.seq /\ GetU64(Field(d, 56, 8)) = m.flags
           /\ Field(Field(d, 64, 16), 8, 8) \o Field(Field(d, 64, 16), 0, 8) = m.id
           /\ Field(d, 80, 32) = m.digest /\ GetU32(Field(d, 112, 4)) = m.ptype
           /\ GetU32(Field(d, 116, 4)) = Len(m.payload)
<1> DEFINE h == Header(m)
<1>1. h \in Seq(Byte) /\ Len(h) = HeaderSize
    BY HeaderFields, Zenon DEF Bytes
<1>2. /\ Field(h, 0, 4) = PutU32(HeaderLength)
      /\ Field(h, 36, 4) = PutU32(m.schema) /\ Field(h, 40, 8) = PutU64(m.created)
      /\ Field(h, 48, 8) = PutU64(m.seq) /\ Field(h, 56, 8) = PutU64(m.flags)
      /\ Field(h, 64, 16) = Swapped(m.id) /\ Field(h, 80, 32) = m.digest
      /\ Field(h, 112, 4) = PutU32(m.ptype)
      /\ Field(h, 116, 4) = PutU32(Len(m.payload))
    BY HeaderFields, Zenon
<1>3. Len(d) >= HeaderSize /\ \A i \in (1..4) \cup (37..HeaderSize) : d[i] = h[i]
    BY Zenon DEF Carries
<1> HIDE DEF h
<1>4. ASSUME NEW o \in Nat, NEW w \in Nat, o + w <= 120, o + w <= 4 \/ 36 <= o
      PROVE  Field(d, o, w) = Field(h, o, w)
    <2>1. Len(d) \in Nat /\ o + w <= Len(d) /\ o + w <= Len(h)
        BY <1>1, <1>3, <1>4, LenProperties DEF HeaderSize
    <2>2. \A i \in (o + 1)..(o + w) : i \in (1..4) \cup (37..HeaderSize)
        BY <1>4 DEF HeaderSize
    <2>3. \A i \in (o + 1)..(o + w) : d[i] = h[i]
        BY <1>3, <2>2, Zenon
    <2> QED
        BY <1>1, <2>1, <2>3, SameField, Zenon
<1>5. /\ Field(d, 0, 4) = Field(h, 0, 4) /\ Field(d, 36, 4) = Field(h, 36, 4)
      /\ Field(d, 40, 8) = Field(h, 40, 8) /\ Field(d, 48, 8) = Field(h, 48, 8)
      /\ Field(d, 56, 8) = Field(h, 56, 8) /\ Field(d, 64, 16) = Field(h, 64, 16)
      /\ Field(d, 80, 32) = Field(h, 80, 32) /\ Field(d, 112, 4) = Field(h, 112, 4)
      /\ Field(d, 116, 4) = Field(h, 116, 4)
    BY <1>4
<1>6. /\ IsU32(HeaderLength) /\ IsU32(m.schema) /\ IsU64(m.created) /\ IsI64(m.seq)
      /\ IsU64(m.flags) /\ m.id \in Bytes(16) /\ IsU32(m.ptype) /\ IsU32(Len(m.payload))
    <2>1. IsU32(HeaderLength) /\ \A n \in PayloadTypes : IsU32(n)
        BY DEF IsU32, HeaderLength, PayloadTypes, Upper, Rest
    <2> QED
        BY <2>1, Zenon DEF ClientMessage, U32, U64, I64, Payloads
<1>7. /\ Field(d, 0, 4) = PutU32(HeaderLength)
      /\ Field(d, 36, 4) = PutU32(m.schema) /\ Field(d, 40, 8) = PutU64(m.created)
      /\ Field(d, 48, 8) = PutU64(m.seq) /\ Field(d, 56, 8) = PutU64(m.flags)
      /\ Field(d, 64, 16) = Swapped(m.id) /\ Field(d, 80, 32) = m.digest
      /\ Field(d, 112, 4) = PutU32(m.ptype)
      /\ Field(d, 116, 4) = PutU32(Len(m.payload))
    BY <1>2, <1>5
<1>8. /\ GetU32(PutU32(HeaderLength)) = HeaderLength /\ GetU32(PutU32(m.schema)) = m.schema
      /\ GetU32(PutU32(m.ptype)) = m.ptype
      /\ GetU32(PutU32(Len(m.payload))) = Len(m.payload)
      /\ GetU64(PutU64(m.created)) = m.created /\ GetU64(PutU64(m.flags)) = m.flags
      /\ GetI64(PutU64(m.seq)) = m.seq
    BY <1>6, GetPutU32, GetPutU64, GetPutI64, Zenon
<1>9. Field(Swapped(m.id), 8, 8) \o Field(Swapped(m.id), 0, 8) = m.id
    BY <1>6, SwappedTwice, Zenon
<1> QED
    BY <1>7, <1>8, <1>9, Zenon

(* The message d holds behind the header of m: that of m, with the bytes    *)
(* its header declares.                                                     *)
Arrived(d, m) == [m EXCEPT !.payload = Field(d, HeaderSize, Len(m.payload))]

(* deserialize accepts what carries the header of a message exactly when    *)
(* the declared payload is there, within the limit and valid, and yields    *)
(* that message.                                                            *)
LEMMA DeserializeReads ==
    ASSUME NEW m \in ClientMessage, NEW d \in Seq(Byte), Carries(d, m)
    PROVE  Deserialize(d) =
             IF /\ Len(m.payload) <= MaxPayload /\ Len(m.payload) <= Len(d) - HeaderSize
                /\ Valid(Arrived(d, m))
             THEN <<Arrived(d, m)>> ELSE <<>>
<1>1. Decoded(d) = Arrived(d, m)
    <2>1. Named(Field(d, 4, 32)) = {m.type} /\ m.type \in MessageTypes
        BY Zenon DEF Carries, ClientMessage
    <2>2. (CHOOSE t \in MessageTypes : t \in Named(Field(d, 4, 32))) = m.type
        BY <2>1
    <2>3. Decoded(d) =
            [type |-> m.type, schema |-> m.schema, created |-> m.created, seq |-> m.seq,
             flags |-> m.flags, id |-> m.id, digest |-> m.digest, ptype |-> m.ptype,
             payload |-> Field(d, HeaderSize, Len(m.payload))]
        BY <2>2, FieldsRead, ZenonT(60) DEF Decoded
    <2>4. ASSUME NEW p
          PROVE  [m EXCEPT !.payload = p] =
                   [type |-> m.type, schema |-> m.schema, created |-> m.created, seq |-> m.seq,
                    flags |-> m.flags, id |-> m.id, digest |-> m.digest, ptype |-> m.ptype,
                    payload |-> p]
        BY DEF ClientMessage
    <2> QED
        BY <2>3, <2>4, Zenon DEF Arrived
<1>2. /\ GetU32(Field(d, 0, 4)) = HeaderLength /\ Named(Field(d, 4, 32)) # {}
      /\ GetU32(Field(d, 112, 4)) \in PayloadTypes /\ Len(d) >= HeaderSize
    BY FieldsRead, Zenon DEF Carries, ClientMessage
<1>3. Fits(d) <=> Len(m.payload) <= MaxPayload /\ Len(m.payload) <= Len(d) - HeaderSize
    BY FieldsRead, Zenon DEF Fits
<1> QED
    BY <1>1, <1>2, <1>3, Zenon DEF Deserialize

(* What begins with the header of a message carries it.                     *)
LEMMA HeaderCarried ==
    ASSUME NEW m \in ClientMessage, NEW d \in Seq(Byte), Extends(d, Header(m))
    PROVE  Carries(d, m)
<1> DEFINE h == Header(m)
<1>1. h \in Seq(Byte) /\ Len(h) = HeaderSize /\ Field(h, 4, 32) = Padded(m.type)
    BY HeaderFields, Zenon DEF Bytes
<1>2. Len(h) <= Len(d) /\ \A i \in 1..Len(h) : d[i] = h[i]
    BY Zenon DEF Extends
<1> HIDE DEF h
<1>3. /\ Len(d) \in Nat /\ Len(d) >= HeaderSize /\ 4 + 32 <= Len(d) /\ 4 + 32 <= Len(h)
      /\ \A i \in (1..4) \cup (37..HeaderSize) : d[i] = h[i]
      /\ \A i \in (4 + 1)..(4 + 32) : d[i] = h[i]
      /\ 4 \in Nat /\ 32 \in Nat
    BY <1>1, <1>2, LenProperties DEF HeaderSize
<1>4. Field(d, 4, 32) = Padded(m.type)
    BY <1>1, <1>3, SameField, ZenonT(60)
<1>5. Named(Padded(m.type)) = {m.type}
    <2>1. m.type \in MessageTypes
        BY Zenon DEF ClientMessage
    <2>2. 32 \in Trimmed
        BY DEF Trimmed, WhiteSpace
    <2> QED
        BY <2>1, <2>2, PaddedBytes, TypeField, ZenonT(60)
<1> QED
    BY <1>3, <1>4, <1>5, Zenon DEF Carries, h

(* A serialized message is its header and its payload, and putting the      *)
(* payload back leaves it as it was.                                        *)
LEMMA Serialized ==
    ASSUME NEW m \in ClientMessage
    PROVE  /\ Header(m) \in Seq(Byte) /\ Len(Header(m)) = HeaderSize
           /\ m.payload \in Seq(Byte) /\ Len(m.payload) \in Nat
           /\ Serialize(m) \in Seq(Byte) /\ Len(Serialize(m)) = HeaderSize + Len(m.payload)
           /\ [m EXCEPT !.payload = m.payload] = m
<1>1. Header(m) \in Seq(Byte) /\ Len(Header(m)) = HeaderSize
    BY HeaderFields, Zenon DEF Bytes
<1>2. m.payload \in Seq(Byte) /\ Len(m.payload) \in Nat
    BY LenProperties, Zenon DEF ClientMessage, Payloads
<1>3. Serialize(m) \in Seq(Byte) /\ Len(Serialize(m)) = HeaderSize + Len(m.payload)
    BY <1>1, <1>2, Joined, Zenon DEF Serialize
<1>4. [m EXCEPT !.payload = m.payload] = m
    BY DEF ClientMessage
<1> QED
    BY <1>1, <1>2, <1>3, <1>4, Zenon

(* For every message: what begins with its serialized form is read as that  *)
(* message, every field of it, when its payload is within MAX_PAYLOAD_SIZE  *)
(* and validate accepts it, and is refused otherwise.  deserialize never    *)
(* looks at what follows.                                                   *)
THEOREM RoundTrip ==
    ASSUME NEW m \in ClientMessage, NEW d \in Seq(Byte), Extends(d, Serialize(m))
    PROVE  Deserialize(d) = IF Len(m.payload) <= MaxPayload /\ Valid(m) THEN <<m>> ELSE <<>>
<1>1. /\ Header(m) \in Seq(Byte) /\ Len(Header(m)) = HeaderSize
      /\ m.payload \in Seq(Byte) /\ Len(m.payload) \in Nat
      /\ Len(Serialize(m)) = HeaderSize + Len(m.payload)
      /\ [m EXCEPT !.payload = m.payload] = m
    BY Serialized, Zenon
<1>2. Extends(d, Header(m)) /\ Field(d, Len(Header(m)), Len(m.payload)) = m.payload
    BY <1>1, Piece, Zenon DEF Serialize
<1>3. Arrived(d, m) = m
    BY <1>1, <1>2, Zenon DEF Arrived
<1>4. Len(m.payload) <= Len(d) - HeaderSize
    BY <1>1, LenProperties DEF Extends, HeaderSize
<1> QED
    BY <1>2, <1>3, <1>4, HeaderCarried, DeserializeReads, Zenon

(* For every message: however few of its last bytes are missing,            *)
(* deserialize refuses what is left, a message of a type validate does not  *)
(* look at included.                                                        *)
THEOREM CutShort ==
    ASSUME NEW m \in ClientMessage, NEW n \in 0..(Len(Serialize(m)) - 1)
    PROVE  Deserialize(SubSeq(Serialize(m), 1, n)) = <<>>
<1> DEFINE s == Serialize(m)
           c == SubSeq(s, 1, n)
           h == Header(m)
<1>1. /\ h \in Seq(Byte) /\ Len(h) = HeaderSize /\ m.payload \in Seq(Byte)
      /\ Len(m.payload) \in Nat /\ s \in Seq(Byte) /\ Len(s) = HeaderSize + Len(m.payload)
      /\ s = h \o m.payload
    BY Serialized, Zenon DEF Serialize
<1> HIDE DEF s, h
<1>2. n \in Nat /\ 0 \in Nat /\ n < HeaderSize + Len(m.payload) /\ 0 + n <= Len(s)
    BY <1>1 DEF HeaderSize, s
<1>3. c \in Seq(Byte) /\ Len(c) = n /\ \A i \in 1..n : c[i] = s[i]
    <2>1. c = Field(s, 0, n)
        BY <1>2 DEF Field
    <2>2. /\ Field(s, 0, n) \in Seq(Byte) /\ Len(Field(s, 0, n)) = n
          /\ \A i \in 1..n : Field(s, 0, n)[i] = s[0 + i]
        BY <1>1, <1>2, FieldProperties, Zenon
    <2>3. \A i \in 1..n : s[0 + i] = s[i]
        BY <1>2
    <2> QED
        BY <2>1, <2>2, <2>3, Zenon
<1> HIDE DEF c
<1>4. CASE n < HeaderSize
    <2>1. ~(Len(c) >= HeaderSize)
        BY <1>2, <1>3, <1>4 DEF HeaderSize
    <2> QED
        BY <2>1, Zenon DEF Deserialize, c, s
<1>5. CASE n >= HeaderSize
    <2>1. \A i \in 1..Len(h) : s[i] = h[i]
        BY <1>1, Joined, ZenonT(60)
    <2>2. Len(h) <= Len(c) /\ \A i \in 1..Len(h) : c[i] = h[i]
        <3>1. Len(h) <= Len(c) /\ \A i \in 1..Len(h) : i \in 1..n
            BY <1>1, <1>2, <1>3, <1>5 DEF HeaderSize
        <3> QED
            BY <1>3, <2>1, <3>1, Zenon
    <2>3. Carries(c, m)
        BY <1>3, <2>2, HeaderCarried, Zenon DEF Extends, h
    <2>4. ~(Len(m.payload) <= Len(c) - HeaderSize)
        BY <1>1, <1>2, <1>3 DEF HeaderSize
    <2> QED
        BY <1>3, <2>3, <2>4, DeserializeReads, Zenon DEF c, s
<1> QED
    BY <1>2, <1>4, <1>5 DEF HeaderSize

(* For every message that is not a publication: bytes that carry its header *)
(* and another payload are refused, unless the payload is empty or has the  *)
(* digest of the header.                                                    *)
THEOREM Altered ==
    ASSUME NEW m \in ClientMessage, m.type \notin Publications, NEW d \in Seq(Byte),
           Extends(d, Header(m)), m.payload # <<>>, Len(d) >= Len(Serialize(m)),
           Sha256(Field(d, HeaderSize, Len(m.payload))) # m.digest
    PROVE  Deserialize(d) = <<>>
<1> DEFINE p == Field(d, HeaderSize, Len(m.payload))
<1>1. /\ m.payload \in Seq(Byte) /\ Len(m.payload) \in Nat
      /\ Len(Serialize(m)) = HeaderSize + Len(m.payload)
    BY Serialized, Zenon
<1>2. p # <<>>
    <2>1. Len(m.payload) # 0
        BY <1>1, EmptySeq, Zenon
    <2>2. HeaderSize \in Nat /\ HeaderSize + Len(m.payload) <= Len(d)
        BY <1>1, LenProperties DEF HeaderSize
    <2>3. Len(p) = Len(m.payload)
        BY <1>1, <2>2, FieldProperties, Zenon
    <2>4. Len(<<>>) = 0
        BY EmptySeq, Zenon
    <2> QED
        BY <2>1, <2>3, <2>4, Zenon
<1> HIDE DEF p
<1>3. [m EXCEPT !.payload = p].type = m.type /\ [m EXCEPT !.payload = p].payload = p
      /\ [m EXCEPT !.payload = p].digest = m.digest
    BY DEF ClientMessage
<1>4. ~Valid([m EXCEPT !.payload = p])
    BY <1>2, <1>3, Zenon DEF Valid, p
<1> QED
    BY <1>4, HeaderCarried, DeserializeReads, Zenon DEF Arrived, p

(* For every message: one whose type field is padded with NUL is read as    *)
(* the one padded with spaces.                                              *)
THEOREM EitherPadding ==
    ASSUME NEW m \in ClientMessage
    PROVE  Deserialize(NulPadded(Serialize(m))) = Deserialize(Serialize(m))
<1> DEFINE s == Serialize(m)
           d == NulPadded(s)
           h == Header(m)
           n == Len(m.payload)
           name == Name[m.type]
<1>1. /\ h \in Seq(Byte) /\ Len(h) = HeaderSize /\ m.payload \in Seq(Byte)
      /\ n \in Nat /\ s \in Seq(Byte) /\ Len(s) = HeaderSize + n
      /\ s = h \o m.payload /\ [m EXCEPT !.payload = m.payload] = m
    BY Serialized, Zenon DEF Serialize
<1>2. /\ m.type \in MessageTypes /\ name \in Seq(Byte) /\ Len(name) \in 1..2
      /\ \A i \in 1..Len(name) : name[i] \in Byte \ Trimmed
    BY Names, Zenon DEF ClientMessage
<1>3. Padded(m.type) \in Bytes(32) /\ (\A i \in 1..Len(name) : Padded(m.type)[i] = name[i])
      /\ (\A i \in (Len(name) + 1)..32 : Padded(m.type)[i] = 32)
    BY <1>2, PaddedBytes, Zenon
<1>4. Field(h, 4, 32) = Padded(m.type)
    BY HeaderFields, Zenon
<1>5. (\A i \in 1..Len(h) : s[i] = h[i]) /\ \A i \in 1..n : s[Len(h) + i] = m.payload[i]
    BY <1>1, Joined
<1> HIDE DEF s, h, n, name
<1>lens. n \in Nat /\ Len(h) = HeaderSize /\ Len(s) = HeaderSize + n /\ HeaderSize = 120
    BY <1>1, Zenon DEF HeaderSize
<1>6. d \in Seq(Byte) /\ Len(d) = Len(s)
      /\ \A i \in 1..Len(s) : d[i] = IF i \in 5..36 /\ s[i] = 32 THEN 0 ELSE s[i]
    <2>1. Len(s) \in Nat /\ DOMAIN s = 1..Len(s) /\ \A i \in 1..Len(s) : s[i] \in Byte
        BY <1>1, LenProperties
    <2>2. 0 \in Byte
        BY DEF Byte
    <2>3. d = [i \in 1..Len(s) |-> IF i \in 5..36 /\ s[i] = 32 THEN 0 ELSE s[i]]
        BY <2>1, Zenon DEF NulPadded
    <2>4. d \in [1..Len(s) -> Byte]
        BY <2>1, <2>2, <2>3
    <2>5. d \in Bytes(Len(s))
        BY <2>1, <2>4, FunctionIsBytes, Zenon
    <2>6. \A i \in 1..Len(s) : d[i] = IF i \in 5..36 /\ s[i] = 32 THEN 0 ELSE s[i]
        BY <2>3
    <2> QED
        BY <2>5, <2>6, Zenon DEF Bytes
<1> HIDE DEF d
<1>7. /\ Len(d) \in Nat /\ Len(d) >= HeaderSize /\ 4 + 32 <= Len(d) /\ 4 + 32 <= Len(h)
      /\ 4 \in Nat /\ 32 \in Nat
      /\ n <= Len(d) - HeaderSize
    BY <1>1, <1>6 DEF HeaderSize
<1>8. \A i \in (1..4) \cup (37..HeaderSize) : d[i] = h[i]
    <2>1. \A i \in (1..4) \cup (37..HeaderSize) :
            i \in 1..Len(s) /\ i \in 1..Len(h) /\ i \notin 5..36
        BY <1>lens
    <2> QED
        BY <1>5, <1>6, <2>1, Zenon
<1>9. Named(Field(d, 4, 32)) = {m.type}
    <2>1. /\ Field(d, 4, 32) \in Seq(Byte) /\ Len(Field(d, 4, 32)) = 32
          /\ \A i \in 1..32 : Field(d, 4, 32)[i] = d[4 + i]
        BY <1>6, <1>7, FieldProperties, Zenon
    <2>2. \A i \in 1..32 : Padded(m.type)[i] = h[4 + i]
        <3>1. \A i \in 1..32 : Field(h, 4, 32)[i] = h[4 + i]
            <4>1. h \in Seq(Byte) /\ 4 \in Nat /\ 32 \in Nat /\ 4 + 32 <= Len(h)
                BY <1>1, <1>7, Zenon
            <4> QED
                BY <4>1, FieldProperties, Zenon
        <3> QED
            BY <1>4, <3>1, Zenon
    <2>3. \A i \in 1..32 : d[4 + i] = IF h[4 + i] = 32 THEN 0 ELSE h[4 + i]
        <3>1. \A i \in 1..32 : 4 + i \in 1..Len(s) /\ 4 + i \in 1..Len(h) /\ 4 + i \in 5..36
            BY <1>lens
        <3> QED
            BY <1>5, <1>6, <3>1, Zenon
    <2>4. \A i \in 1..32 : Field(d, 4, 32)[i] =
                             IF Padded(m.type)[i] = 32 THEN 0 ELSE Padded(m.type)[i]
        <3> TAKE i \in 1..32
        <3>1. /\ Field(d, 4, 32)[i] = d[4 + i] /\ Padded(m.type)[i] = h[4 + i]
              /\ d[4 + i] = IF h[4 + i] = 32 THEN 0 ELSE h[4 + i]
            BY <2>1, <2>2, <2>3, Zenon
        <3> QED
            BY <3>1, Zenon
    <2>5. PICK k \in 1..2 : k = Len(name)
        BY <1>2, Zenon
    <2>6. 0 \in Trimmed /\ 32 \in Trimmed
        BY DEF Trimmed, WhiteSpace
    <2>7. (\A i \in 1..k : i \in 1..32) /\ \A i \in (k + 1)..32 : i \in 1..32
        OBVIOUS
    <2>8. \A i \in 1..Len(name) : Field(d, 4, 32)[i] = name[i]
        BY <1>2, <1>3, <2>4, <2>5, <2>6, <2>7, Zenon
    <2>9. \A i \in (Len(name) + 1)..32 : Field(d, 4, 32)[i] \in Trimmed
        BY <1>3, <2>4, <2>5, <2>6, <2>7, Zenon
    <2>10. Field(d, 4, 32) \in Bytes(32)
        BY <2>1, Zenon DEF Bytes
    <2> QED
        BY <1>2, <2>8, <2>9, <2>10, TypeField, Zenon DEF name
<1>10. Carries(d, m)
    BY <1>7, <1>8, <1>9, Zenon DEF Carries, h
<1>11. Field(d, HeaderSize, n) = m.payload
    <2>1. HeaderSize \in Nat /\ HeaderSize + n <= Len(d)
        BY <1>1, <1>6 DEF HeaderSize
    <2>2. \A i \in 1..n : d[HeaderSize + i] = m.payload[i]
        <3>1. \A i \in 1..n : HeaderSize + i \in 1..Len(s) /\ HeaderSize + i \notin 5..36
            BY <1>lens
        <3> QED
            BY <1>1, <1>5, <1>6, <3>1, Zenon
    <2> QED
        BY <1>1, <1>6, <2>1, <2>2, FieldIs, Zenon DEF n
<1>12. Arrived(d, m) = m
    BY <1>1, <1>11, Zenon DEF Arrived, n
<1>13. Deserialize(d) = IF n <= MaxPayload /\ Valid(m) THEN <<m>> ELSE <<>>
    BY <1>6, <1>7, <1>10, <1>12, DeserializeReads, Zenon DEF n
<1>14. Extends(s, s)
    <2>1. Len(s) \in Nat
        BY <1>1, LenProperties, Zenon
    <2> QED
        BY <2>1 DEF Extends
<1>15. Deserialize(s) = IF n <= MaxPayload /\ Valid(m) THEN <<m>> ELSE <<>>
    BY <1>1, <1>14, RoundTrip, Zenon DEF s, n
<1>16. Deserialize(d) = Deserialize(s)
    BY <1>13, <1>15
<1> QED
    BY <1>16, Zenon DEF d, s

(* What is at most a 32-bit number is one.                                  *)
LEMMA SmallU32 ==
    ASSUME NEW k \in Nat, IsU32(k), NEW n \in 0..k
    PROVE  IsU32(n)
<1>1. ASSUME NEW a \in Nat, NEW b \in 0..a PROVE Rest(a) \in Nat /\ Rest(b) \in 0..Rest(a)
    BY DEF Rest
<1>2. Upper(n) \in 0..Upper(k)
    BY <1>1, Zenon DEF Upper
<1> QED
    BY <1>2 DEF IsU32

(* The sampled numbers are those of the fields they are tried in.           *)
LEMMA SampleNumbers ==
    /\ \A n \in WireSamples : n \in U64 /\ n \in I64
    /\ -1 \in I64 /\ 0 \in U64 /\ 1 \in U32
<1>1. ASSUME NEW n \in WireSamples PROVE n \in U64 /\ n \in I64
    <2> DEFINE top == Rest(Rest(Rest(Upper(n))))
    <2>1. n \in Nat /\ top \in -128..127 /\ IsI64(n)
        BY WireAssumption, Zenon DEF IsI64
    <2>2. ASSUME NEW a \in Nat PROVE Rest(a) \in Nat
        BY DEF Rest
    <2>3. top \in Nat
        BY <2>1, <2>2, Zenon DEF Upper
    <2>4. Rest(top) = 0
        BY <2>1, <2>3 DEF Rest
    <2>5. Upper(Upper(n)) = Rest(top)
        BY Zenon DEF Upper
    <2> QED
        BY <2>1, <2>4, <2>5 DEF U64, I64, IsU64
<1>2. Rest(-1) = -1 /\ Rest(0) = 0 /\ Rest(1) = 0
    <2>1. ASSUME NEW n \in Int
          PROVE  Rest(n) \in Int /\ Last8(n) \in 0..255 /\ Rest(n) * 256 + Last8(n) = n
        BY RestAndLast DEF Byte, Join
    <2>2. Rest(0) = 0 /\ Rest(1) = 0
        BY DEF Rest
    <2>3. -1 \in Int
        OBVIOUS
    <2>4. Rest(-1) \in Int /\ Last8(-1) \in 0..255 /\ Rest(-1) * 256 + Last8(-1) = -1
        BY <2>1, <2>3
    <2>5. Rest(-1) = -1
        BY <2>4
    <2> QED
        BY <2>2, <2>5, Zenon
<1>3. Rest(Rest(Rest(Upper(-1)))) = -1
    BY <1>2, Zenon DEF Upper
<1>4. -1 \in I64
    BY <1>3 DEF I64, IsI64
<1>5. Upper(Upper(0)) = 0 /\ Upper(1) = 0
    BY <1>2, Zenon DEF Upper
<1>6. 0 \in U64 /\ 1 \in U32
    BY <1>5 DEF U64, U32, IsU64, IsU32
<1> QED
    BY <1>1, <1>4, <1>6, Zenon

(* A digest is 32 bytes.                                                    *)
LEMMA DigestBytes ==
    ASSUME NEW p \in Seq(Byte)
    PROVE  Sha256(p) \in Bytes(32)
<1>1. Len(p) \in Nat /\ \A j \in 1..Len(p) : p[j] \in Byte
    BY LenProperties
<1>2. ASSUME NEW i \in 1..32
      PROVE  (IF i = 1 THEN Last8(Len(p)) ELSE IF i <= Len(p) + 1 THEN p[i - 1] ELSE 0) \in Byte
    <2>1. Last8(Len(p)) \in Byte /\ 0 \in Byte
        <3>1. Len(p) \in Int /\ 0 \in Byte
            BY <1>1 DEF Byte
        <3> QED
            BY <3>1, RestAndLast, Zenon
    <2>2. i # 1 /\ i <= Len(p) + 1 => i - 1 \in 1..Len(p)
        BY <1>1
    <2> QED
        BY <1>1, <2>1, <2>2, Zenon
<1>3. Sha256(p) \in [1..32 -> Byte]
    BY <1>2, Zenon DEF Sha256
<1> QED
    BY <1>3, FunctionIsBytes, Zenon

(* ClientMessage::new makes a message of its arguments.                     *)
LEMMA NewMessageTyped ==
    ASSUME NEW t \in MessageTypes, NEW n \in U64, NEW k \in I64, NEW id \in Bytes(16),
           NEW y \in PayloadTypes, NEW p \in Payloads
    PROVE  /\ NewMessage(t, n, k, id, y, p) \in ClientMessage
           /\ NewMessage(t, n, k, id, y, p).payload = p
           /\ NewMessage(t, n, k, id, y, p).digest = Sha256(p)
<1>1. 1 \in U32 /\ 0 \in U64 /\ Sha256(p) \in Bytes(32)
    BY SampleNumbers, DigestBytes, Zenon DEF Payloads
<1> QED
    BY <1>1 DEF NewMessage, ClientMessage

(* The sampled messages are messages, with a payload the limit admits and   *)
(* the digest of it.                                                        *)
LEMMA SamplesTyped ==
    ASSUME NEW m \in SampleMessages
    PROVE  /\ m \in ClientMessage /\ Len(m.payload) <= MaxPayload
           /\ m.digest = Sha256(m.payload)
<1>1. MaxPayload \in Nat /\ 1 <= MaxPayload /\ IsU32(MaxPayload)
    <2>1. MaxPayload \in Nat \ {0} /\ IsU32(MaxPayload + 1)
        BY WireAssumption, Zenon
    <2>2. MaxPayload + 1 \in Nat /\ MaxPayload \in 0..(MaxPayload + 1)
        BY <2>1
    <2>3. IsU32(MaxPayload)
        BY <2>1, <2>2, SmallU32, Zenon
    <2> QED
        BY <2>1, <2>3
<1>2. ASSUME NEW p \in SamplePayloads
      PROVE  p \in Payloads /\ Len(p) <= MaxPayload
    <2>1. p \in Seq(Byte) /\ Len(p) \in {0, 1, MaxPayload}
        <3>1. CASE p = <<>>
            BY <3>1
        <3>2. ASSUME NEW b \in Byte, p = <<b>> PROVE p \in Seq(Byte) /\ Len(p) = 1
            BY <3>2
        <3>3. ASSUME NEW b \in Byte, p = [i \in 1..MaxPayload |-> b]
              PROVE  p \in Seq(Byte) /\ Len(p) = MaxPayload
            <4>1. p \in [1..MaxPayload -> Byte]
                BY <3>3, Zenon
            <4> QED
                BY <1>1, <4>1, FunctionIsBytes, Zenon DEF Bytes
        <3> QED
            BY <3>1, <3>2, <3>3, Zenon DEF SamplePayloads
    <2>2. Len(p) \in 0..MaxPayload
        BY <1>1, <2>1
    <2>3. IsU32(Len(p)) /\ Len(p) <= MaxPayload
        BY <1>1, <2>2, SmallU32
    <2> QED
        BY <2>1, <2>3, Zenon DEF Payloads
<1>3. SampleIds \subseteq Bytes(16)
    <2>1. \A f \in SampleIds : f \in [1..16 -> Byte]
        BY DEF SampleIds, Byte
    <2> QED
        BY <2>1, FunctionIsBytes, Zenon
<1>4. PICK t \in MessageTypes, n \in WireSamples, k \in WireSamples \cup {-1},
           id \in SampleIds, y \in {0, 12}, p \in SamplePayloads :
             m = NewMessage(t, n, k, id, y, p)
    BY DEF SampleMessages
<1>5. n \in U64 /\ k \in I64 /\ id \in Bytes(16) /\ y \in PayloadTypes /\ p \in Payloads
    BY <1>2, <1>3, SampleNumbers DEF PayloadTypes
<1>6. m \in ClientMessage /\ m.payload = p /\ m.digest = Sha256(p)
    BY <1>4, <1>5, NewMessageTyped, ZenonT(60)
<1> QED
    BY <1>2, <1>6, Zenon

(* Every string of bytes begins with itself, and with what it was appended  *)
(* to.                                                                      *)
LEMMA BeginsWithItself ==
    ASSUME NEW d \in Seq(Byte)
    PROVE  /\ Extends(d, d)
           /\ Append(d, 1) \in Seq(Byte) /\ Extends(Append(d, 1), d)
<1>1. Len(d) \in Nat /\ 1 \in Byte
    BY LenProperties DEF Byte
<1>2. Extends(d, d)
    BY <1>1 DEF Extends
<1>3. /\ Append(d, 1) \in Seq(Byte) /\ Len(Append(d, 1)) = Len(d) + 1
      /\ \A i \in 1..Len(d) : Append(d, 1)[i] = d[i]
    BY <1>1, AppendProperties
<1>4. Len(d) <= Len(Append(d, 1))
    BY <1>1, <1>3
<1> QED
    BY <1>2, <1>3, <1>4, Zenon DEF Extends

(* A message with one byte of its payload altered.                          *)
LEMMA AlteredByte ==
    ASSUME NEW m \in ClientMessage, NEW i \in (HeaderSize + 1)..Len(Serialize(m)),
           NEW b \in Byte
    PROVE  LET d == [Serialize(m) EXCEPT ![i] = b] IN
           /\ d \in Seq(Byte) /\ Len(d) >= Len(Serialize(m)) /\ Extends(d, Header(m))
           /\ m.payload # <<>>
<1> DEFINE s == Serialize(m)
           h == Header(m)
           d == [s EXCEPT ![i] = b]
<1>1. /\ h \in Seq(Byte) /\ Len(h) = HeaderSize /\ m.payload \in Seq(Byte)
      /\ Len(m.payload) \in Nat /\ s \in Seq(Byte) /\ Len(s) = HeaderSize + Len(m.payload)
      /\ s = h \o m.payload
    BY Serialized, Zenon DEF Serialize
<1>2. \A j \in 1..Len(h) : s[j] = h[j]
    BY <1>1, Joined
<1> HIDE DEF s, h
<1>3. i \in 121..Len(s) /\ Len(s) \in Nat
    BY <1>1, LenProperties DEF HeaderSize, s
<1>4. s \in [1..Len(s) -> Byte]
    BY <1>1, LenProperties, Zenon
<1>5. d \in [1..Len(s) -> Byte] /\ \A j \in 1..Len(s) : j # i => d[j] = s[j]
    BY <1>3, <1>4
<1>6. d \in Seq(Byte) /\ Len(d) = Len(s)
    BY <1>3, <1>5, FunctionIsBytes, Zenon DEF Bytes
<1> HIDE DEF d
<1>7. Len(h) = 120 /\ Len(h) <= Len(s) /\ Len(d) >= Len(s) /\ Len(m.payload) # 0
    BY <1>1, <1>3, <1>6 DEF HeaderSize
<1>8. \A j \in 1..Len(h) : j \in 1..Len(s) /\ j # i
    BY <1>3, <1>7
<1>9. Extends(d, h)
    <2>1. \A j \in 1..Len(h) : d[j] = h[j]
        BY <1>2, <1>5, <1>8, Zenon
    <2>2. Len(h) <= Len(d)
        BY <1>6, <1>7, Zenon
    <2> QED
        BY <2>1, <2>2, Zenon DEF Extends
<1>10. m.payload # <<>>
    BY <1>7, EmptySeq, Zenon
<1> QED
    BY <1>6, <1>7, <1>9, <1>10, Zenon DEF d, s, h

(* A message with the payload and the digest of a longer one.               *)
LEMMA Oversized ==
    ASSUME NEW m \in ClientMessage
    PROVE  LET big == [m EXCEPT !.payload = [i \in 1..(MaxPayload + 1) |-> 0]]
           IN  Deserialize(Serialize([big EXCEPT !.digest = Sha256(big.payload)])) = <<>>
<1> DEFINE zeros == [i \in 1..(MaxPayload + 1) |-> 0]
           big == [m EXCEPT !.payload = zeros]
           r == [big EXCEPT !.digest = Sha256(big.payload)]
<1>1. MaxPayload \in Nat /\ MaxPayload + 1 \in Nat /\ IsU32(MaxPayload + 1) /\ 0 \in Byte
    BY WireAssumption DEF Byte
<1>2. zeros \in Bytes(MaxPayload + 1)
    <2>1. zeros \in [1..(MaxPayload + 1) -> Byte]
        BY <1>1
    <2> QED
        BY <1>1, <2>1, FunctionIsBytes, Zenon
<1>3. zeros \in Payloads /\ Len(zeros) = MaxPayload + 1 /\ zeros \in Seq(Byte)
    BY <1>1, <1>2, Zenon DEF Payloads, Bytes
<1> HIDE DEF zeros
<1>4. big \in ClientMessage /\ big.payload = zeros
    BY <1>3 DEF ClientMessage
<1>5. Sha256(zeros) \in Bytes(32)
    BY <1>3, DigestBytes, Zenon
<1> HIDE DEF big
<1>6. r \in ClientMessage /\ r.payload = zeros
    BY <1>4, <1>5 DEF ClientMessage
<1> HIDE DEF r
<1>7. ~(Len(r.payload) <= MaxPayload)
    BY <1>1, <1>3, <1>6
<1>8. Serialize(r) \in Seq(Byte) /\ Extends(Serialize(r), Serialize(r))
    BY <1>6, Serialized, BeginsWithItself, Zenon
<1>9. Deserialize(Serialize(r)) = <<>>
    BY <1>6, <1>7, <1>8, RoundTrip, Zenon
<1> QED
    BY <1>9, Zenon DEF r, big, zeros

(* Both ends read what the other wrote: ReadsBack, for every set of samples *)
(* and every limit a 32-bit length can declare.                             *)
LEMMA SamplesReadBack == ReadsBack
<1> SUFFICES ASSUME NEW m \in SampleMessages
             PROVE  LET d == Serialize(m)
                        big == [m EXCEPT !.payload = [i \in 1..(MaxPayload + 1) |-> 0]]
                    IN  /\ m.seq >= 0 \/ m.type \in Publications =>
                             \A received \in {d, NulPadded(d), Append(d, 1)} :
                                Deserialize(received) = <<m>>
                        /\ \A n \in {0, HeaderLength, HeaderSize - 1, Len(d) - 1} :
                             Deserialize(SubSeq(d, 1, n)) = <<>>
                        /\ Deserialize(Serialize([big EXCEPT !.digest = Sha256(big.payload)])) = <<>>
                        /\ m.type \notin Publications =>
                             /\ m.seq < 0 => Deserialize(d) = <<>>
                             /\ \A i \in (HeaderSize + 1)..Len(d) :
                                  LET altered == [d EXCEPT ![i] = (@ + 1) % 256]
                                  IN  Sha256(Field(altered, HeaderSize, Len(m.payload))) # m.digest =>
                                        Deserialize(altered) = <<>>
    BY Zenon DEF ReadsBack
<1> DEFINE d == Serialize(m)
<1>1. m \in ClientMessage /\ Len(m.payload) <= MaxPayload /\ m.digest = Sha256(m.payload)
    BY SamplesTyped, Zenon
<1>2. d \in Seq(Byte) /\ Len(d) = HeaderSize + Len(m.payload) /\ Len(m.payload) \in Nat
    BY <1>1, Serialized, Zenon
<1>3. /\ Extends(d, d) /\ Append(d, 1) \in Seq(Byte) /\ Extends(Append(d, 1), d)
    BY <1>2, BeginsWithItself, Zenon
<1>4. ASSUME m.seq >= 0 \/ m.type \in Publications,
             NEW received \in {d, NulPadded(d), Append(d, 1)}
      PROVE  Deserialize(received) = <<m>>
    <2>1. Valid(m)
        BY <1>1, <1>4, Zenon DEF Valid
    <2>2. Deserialize(d) = <<m>> /\ Deserialize(Append(d, 1)) = <<m>>
        BY <1>1, <1>2, <1>3, <2>1, RoundTrip, Zenon
    <2>3. Deserialize(NulPadded(d)) = <<m>>
        BY <1>1, <2>2, EitherPadding, Zenon
    <2> QED
        BY <1>4, <2>2, <2>3, Zenon
<1>5. ASSUME NEW n \in {0, HeaderLength, HeaderSize - 1, Len(d) - 1}
      PROVE  Deserialize(SubSeq(d, 1, n)) = <<>>
    <2>1. n \in 0..(Len(d) - 1)
        <3> HIDE DEF d
        <3> QED
            BY <1>2, <1>5 DEF HeaderLength, HeaderSize
    <2> QED
        BY <1>1, <2>1, CutShort, Zenon
<1>6. ASSUME m.type \notin Publications, m.seq < 0
      PROVE  Deserialize(d) = <<>>
    <2>1. ~(m.seq >= 0)
        BY <1>1, <1>6 DEF ClientMessage, I64
    <2>2. ~Valid(m)
        BY <1>6, <2>1, Zenon DEF Valid
    <2> QED
        BY <1>1, <1>2, <1>3, <2>2, RoundTrip, Zenon
<1>7. ASSUME m.type \notin Publications, NEW i \in (HeaderSize + 1)..Len(d),
             NEW altered, altered = [d EXCEPT ![i] = (@ + 1) % 256],
             Sha256(Field(altered, HeaderSize, Len(m.payload))) # m.digest
      PROVE  Deserialize(altered) = <<>>
    <2>1. altered = [d EXCEPT ![i] = Last8(d[i] + 1)]
        BY <1>7 DEF Last8
    <2>2. Last8(d[i] + 1) \in Byte
        <3>1. i \in 1..Len(d)
            BY <1>2 DEF HeaderSize
        <3>2. d[i] \in Byte
            BY <1>2, <3>1, LenProperties
        <3>3. d[i] + 1 \in Int
            <4>1. \A b \in Byte : b + 1 \in Int
                BY DEF Byte
            <4> QED
                BY <3>2, <4>1, Zenon
        <3> QED
            BY <3>3, RestAndLast, Zenon
    <2>3. /\ altered \in Seq(Byte) /\ Len(altered) >= Len(d) /\ Extends(altered, Header(m))
          /\ m.payload # <<>>
        BY <1>1, <2>1, <2>2, AlteredByte, Zenon
    <2> QED
        BY <1>1, <1>7, <2>3, Altered, Zenon
<1>8. LET big == [m EXCEPT !.payload = [i \in 1..(MaxPayload + 1) |-> 0]]
      IN  Deserialize(Serialize([big EXCEPT !.digest = Sha256(big.payload)])) = <<>>
    BY <1>1, Oversized, Zenon
<1> QED
    BY <1>4, <1>5, <1>6, <1>7, <1>8, ZenonT(60)

(* ClientMessage: the reader gets every message as the agent wrote it,      *)
(* and what was cut short, altered or is too large is refused, for every    *)
(* set of samples and every MAX_PAYLOAD_SIZE.                               *)
THEOREM WireFaithful == Spec => []WireRoundTrip
<1>1. WireRoundTrip
    BY SamplesReadBack, Zenon DEF WireRoundTrip
<1> QED
    BY <1>1, PTL
=============================================================================
