----------------------------- MODULE SessionCore -----------------------------
(***************************************************************************)
(* The state shared by a Session handle and the tasks of its channel: the  *)
(* close protocol, the two flags that callers wait on (closed, sendable),  *)
(* and the output fan-out.  SessionCore::close runs as six steps that      *)
(* interleave with everything else; what happens under the fan-out's lock  *)
(* is one step.                                                            *)
(*                                                                         *)
(* A wait registers (enable) first, tests the flag, and only then sleeps.  *)
(* Notify (external) wakes exactly the registered waiters.  The third      *)
(* notification of close, for acknowledgements, is in Outbound.            *)
(***************************************************************************)
EXTENDS Integers, Sequences, FiniteSets

CONSTANTS
    Closers,         \* calls of close; each has its own reason
    CloseWaiters,    \* calls of closed()
    SendWaiters,     \* calls of wait_sendable()
    Subscribers,     \* calls of subscribe()
    QueueDepth,      \* subscriber_capacity
    MaxOutput,       \* bound: chunks the reader emits
    NoReason         \* close_reason is still None

ASSUME SessionCoreAssumption ==
    /\ QueueDepth \in Nat \ {0}
    /\ MaxOutput \in Nat
    /\ NoReason \notin Closers
    /\ CloseWaiters \cap SendWaiters = {}

Waiters == CloseWaiters \cup SendWaiters

VARIABLES
    closed, reason, sendable,
    notifySendable,  \* set_sendable has swapped the flag and not yet notified
    enqueued,        \* the waiters registered with their Notify
    closer,          \* where each call of close is
    waiter,          \* where each wait is
    fanClosed,       \* OutputFanout.closed
    attached,        \* OutputFanout.subscribers
    stream,          \* the consumer's half: "none", "held", "ended" or "dropped"
    queue, lagged,
    \* history
    emitted,         \* chunks emitted so far; a chunk is its number
    joined,          \* emitted when the subscriber was added
    got,             \* chunks the subscriber has read
    cleared          \* emitted when the fan-out was cleared, or -1

coreVars == <<closed, reason, sendable, notifySendable, enqueued>>
fanVars == <<fanClosed, attached, stream, queue, lagged, emitted, joined, got, cleared>>
vars == <<coreVars, closer, waiter, fanVars>>

CloserSteps == {"call", "reason", "fanFlag", "fanClear", "wakeClosed", "wakeSendable", "done"}

TypeOK ==
    /\ closed \in BOOLEAN /\ sendable \in BOOLEAN /\ notifySendable \in BOOLEAN
    /\ reason \in Closers \cup {NoReason}
    /\ enqueued \in SUBSET Waiters
    /\ closer \in [Closers -> CloserSteps]
    /\ waiter \in [Waiters -> {"call", "check", "await", "returned", "woken"}]
    /\ fanClosed \in BOOLEAN
    /\ attached \in SUBSET Subscribers
    /\ stream \in [Subscribers -> {"none", "held", "ended", "dropped"}]
    /\ queue \in [Subscribers -> Seq(1..MaxOutput)]
    /\ \A s \in Subscribers : Len(queue[s]) <= QueueDepth
    /\ lagged \in [Subscribers -> BOOLEAN]
    /\ emitted \in 0..MaxOutput
    /\ joined \in [Subscribers -> 0..MaxOutput]
    /\ got \in [Subscribers -> 0..MaxOutput]
    /\ cleared \in -1..MaxOutput

Init ==
    /\ closed = FALSE /\ sendable = FALSE /\ notifySendable = FALSE
    /\ reason = NoReason
    /\ enqueued = {}
    /\ closer = [k \in Closers |-> "call"]
    /\ waiter = [w \in Waiters |-> "call"]
    /\ fanClosed = FALSE
    /\ attached = {}
    /\ stream = [s \in Subscribers |-> "none"]
    /\ queue = [s \in Subscribers |-> <<>>]
    /\ lagged = [s \in Subscribers |-> FALSE]
    /\ emitted = 0
    /\ joined = [s \in Subscribers |-> 0]
    /\ got = [s \in Subscribers |-> 0]
    /\ cleared = -1

-----------------------------------------------------------------------------
(* SessionCore::close                                                       *)

At(k, here, next) == closer[k] = here /\ closer' = [closer EXCEPT ![k] = next]

(* Whether a call of close goes on past the swap.                           *)
First == ~closed

(* swap(true): only the first caller goes on.  Mutant: the waiters are      *)
(* woken at once.                                                           *)
CloseSwapWakes(k) ==
    /\ At(k, "call", IF First THEN "reason" ELSE "done")
    /\ closed' = TRUE
    /\ enqueued' = enqueued \ CloseWaiters
    /\ UNCHANGED <<reason, sendable, notifySendable, waiter, fanVars>>
CloseSwap(k) ==
    /\ At(k, "call", IF First THEN "reason" ELSE "done")
    /\ closed' = TRUE
    /\ UNCHANGED <<reason, sendable, notifySendable, enqueued, waiter, fanVars>>

CloseReason(k) ==
    /\ At(k, "reason", "fanFlag")
    /\ reason' = k
    /\ UNCHANGED <<closed, sendable, notifySendable, enqueued, waiter, fanVars>>

(* OutputFanout::close sets its flag, then takes the lock and clears.       *)
FanFlag(k) ==
    /\ At(k, "fanFlag", IF fanClosed THEN "wakeClosed" ELSE "fanClear")
    /\ fanClosed' = TRUE
    /\ UNCHANGED <<coreVars, waiter, attached, stream, queue, lagged, emitted,
                   joined, got, cleared>>

(* Who is still attached after the clear.  Mutant: the flag alone is set.   *)
LeftAttached == attached
Left == {}

FanClear(k) ==
    /\ At(k, "fanClear", "wakeClosed")
    /\ attached' = Left
    /\ cleared' = emitted
    /\ UNCHANGED <<coreVars, waiter, fanClosed, stream, queue, lagged, emitted,
                   joined, got>>

WakeClosed(k) ==
    /\ At(k, "wakeClosed", "wakeSendable")
    /\ enqueued' = enqueued \ CloseWaiters
    /\ UNCHANGED <<closed, reason, sendable, notifySendable, waiter, fanVars>>

(* The waiters for readiness are released by close too.  Mutant: only those *)
(* for the close are.                                                       *)
ReleasedNone == {}
Released == SendWaiters

WakeSendable(k) ==
    /\ At(k, "wakeSendable", "done")
    /\ enqueued' = enqueued \ Released
    /\ UNCHANGED <<closed, reason, sendable, notifySendable, waiter, fanVars>>

-----------------------------------------------------------------------------
(* set_sendable, by the reader                                              *)

SetSendable(b) ==
    /\ ~notifySendable
    /\ sendable' = b
    /\ notifySendable' = (b /\ ~sendable)
    /\ UNCHANGED <<closed, reason, enqueued, closer, waiter, fanVars>>

NotifySendable ==
    /\ notifySendable
    /\ notifySendable' = FALSE
    /\ enqueued' = enqueued \ SendWaiters
    /\ UNCHANGED <<closed, reason, sendable, closer, waiter, fanVars>>

-----------------------------------------------------------------------------
(* closed() and wait_sendable()                                             *)

(* The wait is registered before the flag is tested.                        *)
Enable(w) ==
    /\ waiter[w] = "call"
    /\ waiter' = [waiter EXCEPT ![w] = "check"]
    /\ enqueued' = enqueued \cup {w}
    /\ UNCHANGED <<closed, reason, sendable, notifySendable, closer, fanVars>>

Satisfied(w) == closed \/ (w \in SendWaiters /\ sendable)

(* The test of the flag: return, or sleep until the notification.           *)
Check(w) ==
    /\ waiter[w] = "check"
    /\ \/ /\ Satisfied(w)
          /\ waiter' = [waiter EXCEPT ![w] = "returned"]
          /\ enqueued' = enqueued \ {w}
       \/ /\ ~Satisfied(w)
          /\ waiter' = [waiter EXCEPT ![w] = "await"]
          /\ UNCHANGED enqueued
    /\ UNCHANGED <<closed, reason, sendable, notifySendable, closer, fanVars>>

(* The notification arrives: closed() returns, wait_sendable() goes round.  *)
Wake(w) ==
    /\ waiter[w] = "await"
    /\ w \notin enqueued
    /\ waiter' = [waiter EXCEPT ![w] = IF w \in CloseWaiters THEN "woken" ELSE "call"]
    /\ UNCHANGED <<coreVars, closer, fanVars>>

-----------------------------------------------------------------------------
(* OutputFanout and OutputStream                                            *)

(* The flag test under the lock.                                            *)
Accepting == ~fanClosed

(* subscribe: a closed fan-out gives a stream that has ended.               *)
Subscribe(s) ==
    /\ stream[s] = "none"
    /\ stream' = [stream EXCEPT ![s] = IF Accepting THEN "held" ELSE "ended"]
    /\ attached' = IF Accepting THEN attached \cup {s} ELSE attached
    /\ joined' = [joined EXCEPT ![s] = emitted]
    /\ UNCHANGED <<coreVars, closer, waiter, fanClosed, queue, lagged, emitted, got, cleared>>

(* try_send finds room.                                                     *)
Room(s) == Len(queue[s]) < QueueDepth

(* The subscribers that retain keeps.  Mutant: a full one is kept, and      *)
(* misses the chunk.                                                        *)
KeepsFull == {s \in attached : stream[s] = "held"}
Retained == {s \in attached : stream[s] = "held" /\ Room(s)}

(* send: try_send to each; a full subscriber is marked and evicted, one     *)
(* whose stream is gone is removed.                                         *)
Emit ==
    /\ emitted < MaxOutput
    /\ emitted' = emitted + 1
    /\ queue' = [s \in Subscribers |->
            IF s \in attached /\ stream[s] = "held" /\ Room(s)
              THEN Append(queue[s], emitted + 1) ELSE queue[s]]
    /\ attached' = Retained
    /\ lagged' = [s \in Subscribers |->
            lagged[s] \/ (s \in attached \ Retained /\ stream[s] = "held")]
    /\ UNCHANGED <<coreVars, closer, waiter, fanClosed, stream, joined, got, cleared>>

Receive(s) ==
    /\ stream[s] = "held"
    /\ queue[s] # <<>>
    /\ queue' = [queue EXCEPT ![s] = Tail(@)]
    /\ got' = [got EXCEPT ![s] = @ + 1]
    /\ UNCHANGED <<coreVars, closer, waiter, fanClosed, attached, stream, lagged,
                   emitted, joined, cleared>>

DropStream(s) ==
    /\ stream[s] = "held"
    /\ stream' = [stream EXCEPT ![s] = "dropped"]
    /\ queue' = [queue EXCEPT ![s] = <<>>]
    /\ UNCHANGED <<coreVars, closer, waiter, fanClosed, attached, lagged, emitted,
                   joined, got, cleared>>

-----------------------------------------------------------------------------
CloserNext(k) ==
    CloseSwap(k) \/ CloseReason(k) \/ FanFlag(k) \/ FanClear(k) \/ WakeClosed(k) \/ WakeSendable(k)
WaiterNext(w) == Enable(w) \/ Check(w) \/ Wake(w)

Next ==
    \/ \E k \in Closers : CloserNext(k)
    \/ \E b \in BOOLEAN : SetSendable(b)
    \/ NotifySendable
    \/ \E w \in Waiters : WaiterNext(w)
    \/ Emit
    \/ \E s \in Subscribers : Subscribe(s) \/ Receive(s) \/ DropStream(s)

Spec == Init /\ [][Next]_vars

(* A call of close that has begun is finished; every wait is polled and     *)
(* every consumer reads.  Nobody has to call close.                         *)
Fairness ==
    /\ \A k \in Closers : WF_vars(closer[k] # "call" /\ CloserNext(k))
    /\ \A w \in Waiters : WF_vars(WaiterNext(w))
    /\ WF_vars(NotifySendable)
    /\ \A s \in Subscribers : WF_vars(Receive(s))

FairSpec == Spec /\ Fairness

-----------------------------------------------------------------------------
(* Properties                                                               *)

(* The chunks a subscriber has read and has queued are, without a gap, the  *)
(* ones emitted since it subscribed: all of them while it is attached, all  *)
(* up to the close if the stream ended without lagged.  A consumer that     *)
(* sees the end without lagged has missed nothing.                          *)
GapFree ==
    \A s \in Subscribers : stream[s] = "held" =>
        LET last == joined[s] + got[s] + Len(queue[s]) IN
        /\ \A i \in DOMAIN queue[s] : queue[s][i] = joined[s] + got[s] + i
        /\ s \in attached => last = emitted
        /\ s \notin attached /\ ~lagged[s] => last = cleared

(* A call of closed() that slept until the close can read why: the reason   *)
(* is published before anyone is woken.                                     *)
WokenCanReadReason ==
    \A w \in CloseWaiters : waiter[w] = "woken" => reason # NoReason

(* Nobody waits for a signal that will never come: after a close every call *)
(* of closed() and wait_sendable() returns, whatever it was doing.          *)
WaitersReturn ==
    \A w \in Waiters : closed ~> waiter[w] \in {"returned", "woken"}

(* After a close every output stream comes to its end.                      *)
StreamsEnd ==
    \A s \in Subscribers : closed ~> s \notin attached /\ queue[s] = <<>>
=============================================================================
