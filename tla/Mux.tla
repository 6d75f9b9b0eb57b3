-------------------------------- MODULE Mux --------------------------------
(***************************************************************************)
(* The smux multiplexer: the stream table, the shared frame queue, the     *)
(* receive, send and keep-alive tasks, the streams' read and write halves, *)
(* and Inner::close, which any of the tasks or the owner may call.         *)
(*                                                                         *)
(* A chunk of the session's output holds whole frames; how frames are cut  *)
(* into chunks is left open, so the receive task may take the next frame   *)
(* with or without going back to its select.  Data are numbered per        *)
(* stream.  "die" is a Notify: a future created after notify_waiters is    *)
(* not woken by it.                                                        *)
(***************************************************************************)
EXTENDS Integers, Sequences, FiniteSets

CONSTANTS
    Streams,      \* the streams that are ever opened
    Keepalive,    \* SmuxConfig::keepalive
    FrameDepth,   \* FRAME_QUEUE_DEPTH
    StreamDepth,  \* STREAM_QUEUE_DEPTH
    OutputDepth,  \* the session's output_buffer
    MaxPush,      \* bound: data frames the agent sends on a stream
    MaxFaults     \* bound: outside causes for the multiplexer to close

ASSUME MuxAssumption ==
    /\ IsFiniteSet(Streams) /\ Keepalive \in BOOLEAN
    /\ FrameDepth \in Nat \ {0}
    /\ StreamDepth \in Nat \ {0}
    /\ OutputDepth \in Nat \ {0}
    /\ MaxPush \in Nat /\ MaxFaults \in Nat

Tasks == {"recv", "send", "keepalive"}
Callers == {"recv", "send", "owner"}
CloseReasons == {"Clean", "SlowConsumer", "Desynchronised"}
None == [cmd |-> "none"]
Fin(id) == [cmd |-> "FIN", id |-> id]
Push(id, n) == [cmd |-> "PSH", id |-> id, n |-> n]
Corrupt == [cmd |-> "corrupt"]

(* A frame for the agent.  What it does on a PSH, FIN or NOP is left open,  *)
(* so these are not told apart.                                             *)
Outgoing(cmd, id) == IF cmd = "SYN" THEN [cmd |-> cmd, id |-> id] ELSE [cmd |-> "other"]

VARIABLES
    \* Inner
    closed,
    waiting,    \* the tasks enqueued on die
    table,      \* the streams with an entry
    tag,        \* a stream's close_reason; "Open" is REASON_OPEN
    frames,     \* the frame queue
    \* the tasks, and the calls of Inner::close
    recv,
    routing,    \* the frame recv_task has a sender for
    send,
    sending,    \* the frame send_task has taken
    keepalive,
    closing,    \* where the call of close that won the swap is
    caller,     \* who makes it
    why,        \* its argument
    owned,      \* the SmuxSession has not been dropped
    \* the streams
    stream,
    queue,      \* data_rx
    rd,         \* where poll_read is
    shut,       \* the streams that are write_closed
    \* the session and the agent
    up,         \* the session is not closed
    feed,       \* the session's output: "open", "ended" or "lagged"
    output,     \* what recv_task has yet to take from it
    known,      \* the streams the agent has a SYN for
    pushed,     \* data frames sent by the agent
    finished,   \* the streams it has closed
    faults,     \* outside causes to close so far
    \* history
    read,       \* the last number read from a stream
    lost        \* the streams that have lost data to a full queue

innerVars == <<closed, waiting, table, tag, frames>>
closeVars == <<closing, caller, why, owned>>
taskVars == <<recv, routing, send, sending, keepalive, closeVars>>
streamVars == <<stream, queue, rd, shut>>
agentVars == <<up, feed, output, known, pushed, finished, faults>>
vars == <<innerVars, taskVars, streamVars, agentVars, read, lost>>

TypeOK ==
    /\ closed \in BOOLEAN
    /\ waiting \in SUBSET Tasks
    /\ table \in SUBSET Streams
    /\ tag \in [Streams -> CloseReasons \cup {"Open"}]
    /\ Len(frames) <= FrameDepth
    /\ recv \in {"loop", "select", "push", "full", "evict", "stopped"}
    /\ send \in {"loop", "check", "select", "taken", "send", "stopped"}
    /\ keepalive \in {"loop", "select", "stopped"}
    /\ closing \in {"no", "notify", "clear", "done"} /\ closed = (closing # "no")
    /\ caller \in Callers /\ why \in CloseReasons /\ owned \in BOOLEAN
    /\ stream \in [Streams -> {"none", "insert", "syn", "open", "failed", "dropped"}]
    /\ \A id \in Streams : Len(queue[id]) <= StreamDepth
    /\ rd \in [Streams -> {"poll", "empty", "parked", "eof"}]
    /\ shut \in SUBSET Streams
    /\ up \in BOOLEAN
    /\ feed \in {"open", "ended", "lagged"}
    /\ Len(output) <= OutputDepth
    /\ known \in SUBSET Streams /\ finished \in SUBSET Streams
    /\ pushed \in [Streams -> 0..MaxPush]
    /\ read \in [Streams -> 0..MaxPush]
    /\ lost \in SUBSET Streams
    /\ faults \in 0..MaxFaults

(* SmuxSession::new                                                         *)
Init ==
    /\ closed = FALSE /\ waiting = {} /\ table = {} /\ frames = <<>>
    /\ tag = [id \in Streams |-> "Open"]
    /\ recv = "loop" /\ routing = None /\ send = "loop" /\ sending = None
    /\ keepalive = IF Keepalive THEN "loop" ELSE "stopped"
    /\ closing = "no" /\ caller = "owner" /\ why = "Clean" /\ owned = TRUE
    /\ stream = [id \in Streams |-> "none"]
    /\ queue = [id \in Streams |-> <<>>]
    /\ rd = [id \in Streams |-> "poll"]
    /\ shut = {}
    /\ up = TRUE /\ feed = "open" /\ output = <<>>
    /\ known = {} /\ finished = {}
    /\ pushed = [id \in Streams |-> 0]
    /\ read = [id \in Streams |-> 0]
    /\ lost = {} /\ faults = 0

(* The receiver of the frame queue goes with send_task, after its close.    *)
FramesOpen == send # "stopped" \/ (caller = "send" /\ closing \in {"notify", "clear"})
FrameRoom == FramesOpen /\ Len(frames) < FrameDepth

(* try_send on the frame queue, the error ignored.                          *)
TrySend(f) == frames' = IF FrameRoom THEN Append(frames, f) ELSE frames

(* An outside cause for the multiplexer to close.                           *)
Fault == faults < MaxFaults /\ faults' = faults + 1

-----------------------------------------------------------------------------
(* Inner::close                                                             *)

(* The call, up to its swap: only the first caller goes on.  A task makes   *)
(* it as its last act, and nothing it does between leaving its loop and the *)
(* swap touches what others see.                                            *)
Close(k, r) ==
    /\ closed' = TRUE
    /\ IF closed
         THEN UNCHANGED <<closing, caller, why>>
         ELSE closing' = "notify" /\ caller' = k /\ why' = r

CloseNotify ==
    /\ closing = "notify"
    /\ closing' = "clear"
    /\ waiting' = {}
    /\ UNCHANGED <<closed, table, tag, frames, recv, routing, send, sending, keepalive,
                   caller, why, owned, streamVars, agentVars, read, lost>>

(* The tag a stream gets when it ends for reason r: the first one is kept.  *)
(* Mutant: the last one.                                                    *)
LastTag(id, r) == r
FirstTag(id, r) == IF tag[id] = "Open" THEN r ELSE tag[id]

(* Under the lock: every stream of the table gets a reason, and its sender  *)
(* is dropped.                                                              *)
CloseClear ==
    /\ closing = "clear"
    /\ closing' = "done" /\ caller' = "owner" /\ why' = "Clean"
    /\ tag' = [id \in Streams |-> IF id \in table THEN FirstTag(id, why) ELSE tag[id]]
    /\ table' = {}
    /\ UNCHANGED <<closed, waiting, frames, recv, routing, send, sending, keepalive,
                   owned, streamVars, agentVars, read, lost>>

(* SmuxSession::drop.  open_stream borrows the SmuxSession, so none is      *)
(* under way.                                                               *)
OwnerDrops ==
    /\ owned /\ Fault
    /\ \A id \in Streams : stream[id] \notin {"insert", "syn"}
    /\ owned' = FALSE
    /\ Close("owner", "Clean")
    /\ UNCHANGED <<waiting, table, tag, frames, recv, routing, send, sending, keepalive,
                   streamVars, up, feed, output, known, pushed, finished, read, lost>>

-----------------------------------------------------------------------------
(* recv_task                                                                *)

(* Entering the select creates a new future for die; nothing looks at       *)
(* closed.                                                                  *)
RecvSelect ==
    /\ recv = "loop"
    /\ recv' = "select"
    /\ waiting' = waiting \cup {"recv"}
    /\ UNCHANGED <<closed, table, tag, frames, routing, send, sending, keepalive,
                   closeVars, streamVars, agentVars, read, lost>>

RecvDie ==
    /\ recv = "select" /\ "recv" \notin waiting
    /\ recv' = "stopped"
    /\ output' = <<>>
    /\ Close("recv", "Clean")
    /\ UNCHANGED <<waiting, table, tag, frames, routing, send, sending, keepalive, owned,
                   streamVars, up, feed, known, pushed, finished, faults, read, lost>>

(* The session's output has ended, or this subscriber was evicted from it.  *)
RecvEnd ==
    /\ recv = "select" /\ "recv" \in waiting
    /\ output = <<>> /\ feed # "open"
    /\ recv' = "stopped"
    /\ waiting' = waiting \ {"recv"}
    /\ Close("recv", IF feed = "lagged" THEN "Desynchronised" ELSE "Clean")
    /\ UNCHANGED <<table, tag, frames, routing, send, sending, keepalive, owned,
                   streamVars, agentVars, read, lost>>

(* The next frame: from the select, or the next one of the same chunk.      *)
Takes(f) ==
    /\ \/ recv = "select" /\ "recv" \in waiting
       \/ recv = "loop"
    /\ output # <<>>
    /\ f = Head(output)
    /\ output' = Tail(output)
    /\ waiting' = waiting \ {"recv"}

(* decode_frame: the bytes are not smux.                                    *)
DecodeCorrupt(f) ==
    /\ Takes(f)
    /\ f.cmd = "corrupt"
    /\ recv' = "stopped"
    /\ Close("recv", "Desynchronised")
    /\ UNCHANGED <<table, tag, frames, routing, send, sending, keepalive, owned,
                   streamVars, up, feed, known, pushed, finished, faults, read, lost>>

(* route_fin: the tag is set before the sender is dropped.                  *)
RouteFin(f) ==
    /\ Takes(f)
    /\ f.cmd = "FIN"
    /\ recv' = "loop"
    /\ table' = table \ {f.id}
    /\ tag' = IF f.id \in table THEN [tag EXCEPT ![f.id] = FirstTag(f.id, "Clean")] ELSE tag
    /\ UNCHANGED <<closed, frames, routing, send, sending, keepalive, closeVars,
                   streamVars, up, feed, known, pushed, finished, faults, read, lost>>

(* route_push: data for a stream without an entry is answered with a FIN.   *)
RouteUnknown(f) ==
    /\ Takes(f)
    /\ f.cmd = "PSH" /\ f.id \notin table
    /\ recv' = "loop"
    /\ TrySend(Outgoing("FIN", f.id))
    /\ UNCHANGED <<closed, table, tag, routing, send, sending, keepalive, closeVars,
                   streamVars, up, feed, known, pushed, finished, faults, read, lost>>

(* route_push: the sender is cloned and the lock released.                  *)
RouteLookup(f) ==
    /\ Takes(f)
    /\ f.cmd = "PSH" /\ f.id \in table
    /\ recv' = "push"
    /\ routing' = f
    /\ UNCHANGED <<closed, table, tag, frames, send, sending, keepalive, closeVars,
                   streamVars, up, feed, known, pushed, finished, faults, read, lost>>

ReceiverAlive(id) == stream[id] \in {"insert", "syn", "open"}

StreamRoom(id) == Len(queue[id]) < StreamDepth

Routed(f) == recv = "push" /\ f = routing /\ recv' = "loop" /\ routing' = None

RoutePush(f) ==
    /\ Routed(f)
    /\ ReceiverAlive(f.id) /\ StreamRoom(f.id)
    /\ queue' = [queue EXCEPT ![f.id] = Append(@, f.n)]
    /\ UNCHANGED <<innerVars, send, sending, keepalive, closeVars, stream, rd, shut,
                   agentVars, read, lost>>

(* The reader is gone: forget the entry.                                    *)
RouteGone(f) ==
    /\ Routed(f)
    /\ ~ReceiverAlive(f.id)
    /\ table' = table \ {f.id}
    /\ UNCHANGED <<closed, waiting, tag, frames, send, sending, keepalive, closeVars,
                   streamVars, agentVars, read, lost>>

(* Mutant of RouteFull: the oldest frame makes room.                        *)
DropOldest(f) ==
    /\ Routed(f)
    /\ ReceiverAlive(f.id) /\ ~StreamRoom(f.id)
    /\ queue' = [queue EXCEPT ![f.id] = Append(Tail(@), f.n)]
    /\ UNCHANGED <<innerVars, send, sending, keepalive, closeVars, stream, rd, shut,
                   agentVars, read, lost>>

(* try_send fails because the queue is full, and the frame is gone.         *)
RouteFull(f) ==
    /\ recv = "push" /\ f = routing
    /\ ReceiverAlive(f.id) /\ ~StreamRoom(f.id)
    /\ recv' = "full"
    /\ lost' = lost \cup {f.id}
    /\ UNCHANGED <<innerVars, routing, send, sending, keepalive, closeVars, streamVars,
                   agentVars, read>>

(* The reason is stored before the entry is removed.                        *)
RouteTag(f) ==
    /\ recv = "full" /\ f = routing
    /\ recv' = "evict"
    /\ tag' = [tag EXCEPT ![f.id] = "SlowConsumer"]
    /\ UNCHANGED <<closed, waiting, table, frames, routing, send, sending, keepalive,
                   closeVars, streamVars, agentVars, read, lost>>

Evict ==
    /\ recv = "evict"
    /\ recv' = "loop"
    /\ routing' = None
    /\ table' = table \ {routing.id}
    /\ TrySend(Outgoing("FIN", routing.id))
    /\ UNCHANGED <<closed, waiting, tag, send, sending, keepalive, closeVars, streamVars,
                   agentVars, read, lost>>

-----------------------------------------------------------------------------
(* send_task                                                                *)

SendStop ==
    /\ send' = "stopped"
    /\ sending' = None
    /\ waiting' = waiting \ {"send"}
    /\ Close("send", "Clean")

(* The future is enqueued, then the latch is checked.                       *)
SendEnable ==
    /\ send = "loop"
    /\ send' = "check"
    /\ waiting' = waiting \cup {"send"}
    /\ UNCHANGED <<closed, table, tag, frames, recv, routing, sending, keepalive,
                   closeVars, streamVars, agentVars, read, lost>>

(* The latch.  Mutant: not looked at.                                       *)
NoLatch == FALSE
Latched == closed

SendCheck ==
    /\ send = "check"
    /\ \/ Latched /\ SendStop
       \/ ~Latched /\ send' = "select" /\ UNCHANGED <<closed, waiting, sending, closing, caller, why>>
    /\ UNCHANGED <<table, tag, frames, recv, routing, keepalive, owned, streamVars,
                   agentVars, read, lost>>

(* The first two arms of the select, or die while session.send waits, or    *)
(* session.send failing on a closed session.                                *)
SendEnd ==
    /\ send \in {"select", "send"}
    /\ "send" \notin waiting \/ ~up
    /\ SendStop
    /\ UNCHANGED <<table, tag, frames, recv, routing, keepalive, owned, streamVars,
                   agentVars, read, lost>>

(* A frame is taken from the queue; a close before the second future is     *)
(* created does not wake it.                                                *)
SendTake ==
    /\ send = "select" /\ "send" \in waiting /\ up
    /\ frames # <<>>
    /\ send' = "taken"
    /\ sending' = Head(frames)
    /\ frames' = Tail(frames)
    /\ waiting' = waiting \ {"send"}
    /\ UNCHANGED <<closed, table, tag, recv, routing, keepalive, closeVars, streamVars,
                   agentVars, read, lost>>

SendAgain ==
    /\ send = "taken"
    /\ send' = "send"
    /\ waiting' = waiting \cup {"send"}
    /\ UNCHANGED <<closed, table, tag, frames, recv, routing, sending, keepalive,
                   closeVars, streamVars, agentVars, read, lost>>

(* session.send takes the frame; the session brings it to the agent, which  *)
(* learns of a stream from its SYN.                                         *)
SendDone ==
    /\ send = "send" /\ "send" \in waiting /\ up
    /\ send' = "loop"
    /\ sending' = None
    /\ waiting' = waiting \ {"send"}
    /\ known' = IF sending.cmd = "SYN" THEN known \cup {sending.id} ELSE known
    /\ UNCHANGED <<closed, table, tag, frames, recv, routing, keepalive, closeVars,
                   streamVars, up, feed, output, pushed, finished, faults, read, lost>>

-----------------------------------------------------------------------------
(* keepalive_task                                                           *)

KeepaliveSelect ==
    /\ keepalive = "loop"
    /\ keepalive' = "select"
    /\ waiting' = waiting \cup {"keepalive"}
    /\ UNCHANGED <<closed, table, tag, frames, recv, routing, send, sending, closeVars,
                   streamVars, agentVars, read, lost>>

KeepaliveDie ==
    /\ keepalive = "select" /\ "keepalive" \notin waiting
    /\ keepalive' = "stopped"
    /\ UNCHANGED <<innerVars, recv, routing, send, sending, closeVars, streamVars,
                   agentVars, read, lost>>

KeepaliveTick ==
    /\ keepalive = "select" /\ "keepalive" \in waiting
    /\ keepalive' = IF ~FrameRoom /\ closed THEN "stopped" ELSE "loop"
    /\ waiting' = waiting \ {"keepalive"}
    /\ TrySend(Outgoing("NOP", 0))
    /\ UNCHANGED <<closed, table, tag, recv, routing, send, sending, closeVars,
                   streamVars, agentVars, read, lost>>

-----------------------------------------------------------------------------
(* SmuxSession::open_stream                                                 *)

OpenCheck(id) ==
    /\ stream[id] = "none"
    /\ owned
    /\ stream' = [stream EXCEPT ![id] = IF closed THEN "failed" ELSE "insert"]
    /\ UNCHANGED <<innerVars, taskVars, queue, rd, shut, agentVars, read, lost>>

OpenInsert(id) ==
    /\ stream[id] = "insert"
    /\ table' = table \cup {id}
    /\ stream' = [stream EXCEPT ![id] = "syn"]
    /\ UNCHANGED <<closed, waiting, tag, frames, taskVars, queue, rd, shut, agentVars,
                   read, lost>>

OpenSyn(id) ==
    /\ stream[id] = "syn"
    /\ TrySend(Outgoing("SYN", id))
    /\ \/ FrameRoom /\ stream' = [stream EXCEPT ![id] = "open"] /\ UNCHANGED table
       \/ ~FrameRoom /\ stream' = [stream EXCEPT ![id] = "failed"] /\ table' = table \ {id}
    /\ UNCHANGED <<closed, waiting, tag, taskVars, queue, rd, shut, agentVars, read,
                   lost>>

-----------------------------------------------------------------------------
(* SmuxStream: poll_read                                                    *)

(* A sender is in the table or in the hands of recv_task.                   *)
HasSender(id) == id \in table \/ (recv \in {"push", "full", "evict"} /\ routing.id = id)

Reading(id, here, next) ==
    /\ stream[id] = "open"
    /\ rd[id] = here
    /\ rd' = [rd EXCEPT ![id] = next]

ReadFrame(id) ==
    /\ Reading(id, "poll", "poll")
    /\ queue[id] # <<>>
    /\ read' = [read EXCEPT ![id] = Head(queue[id])]
    /\ queue' = [queue EXCEPT ![id] = Tail(@)]
    /\ UNCHANGED <<innerVars, taskVars, stream, shut, agentVars, lost>>

(* poll_recv finds nothing: the end if there is no sender.                  *)
ReadEmpty(id) ==
    /\ Reading(id, "poll", IF HasSender(id) THEN "empty" ELSE "eof")
    /\ queue[id] = <<>>
    /\ UNCHANGED <<innerVars, taskVars, stream, queue, shut, agentVars, read, lost>>

(* What follows a pending poll_recv.  Mutant: the close flag is not looked  *)
(* at.                                                                      *)
AlwaysParks == "parked"
IfClosed == IF closed THEN "eof" ELSE "parked"

ReadPending(id) ==
    /\ Reading(id, "empty", IfClosed)
    /\ UNCHANGED <<innerVars, taskVars, stream, queue, shut, agentVars, read, lost>>

ReadWoken(id) ==
    /\ Reading(id, "parked", "poll")
    /\ queue[id] # <<>> \/ ~HasSender(id)
    /\ UNCHANGED <<innerVars, taskVars, stream, queue, shut, agentVars, read, lost>>

-----------------------------------------------------------------------------
(* SmuxStream: poll_write, poll_shutdown, drop                              *)

(* A poll that finds no room leaves nothing behind but its waker, and one   *)
(* that fails leaves nothing at all.                                        *)
Write(id) ==
    /\ stream[id] = "open" /\ id \notin shut
    /\ ~closed /\ FrameRoom
    /\ TrySend(Outgoing("PSH", id))
    /\ UNCHANGED <<closed, waiting, table, tag, taskVars, streamVars, agentVars, read,
                   lost>>

(* FIN is queued, or the queue is gone.                                     *)
Shutdown(id) ==
    /\ stream[id] = "open" /\ id \notin shut
    /\ FrameRoom \/ ~FramesOpen
    /\ TrySend(Outgoing("FIN", id))
    /\ shut' = shut \cup {id}
    /\ UNCHANGED <<closed, waiting, table, tag, taskVars, stream, queue, rd, agentVars,
                   read, lost>>

DropStream(id) ==
    /\ stream[id] = "open"
    /\ stream' = [stream EXCEPT ![id] = "dropped"]
    /\ IF id \in shut THEN UNCHANGED frames ELSE TrySend(Outgoing("FIN", id))
    /\ table' = table \ {id}
    /\ queue' = [queue EXCEPT ![id] = <<>>]
    /\ rd' = [rd EXCEPT ![id] = "poll"]
    /\ shut' = shut \ {id}
    /\ UNCHANGED <<closed, waiting, tag, taskVars, agentVars, read, lost>>

-----------------------------------------------------------------------------
(* The session: its closed flag, and then the end of its output.            *)

SessionCloses ==
    /\ up /\ Fault
    /\ up' = FALSE
    /\ UNCHANGED <<innerVars, taskVars, streamVars, feed, output, known, pushed, finished,
                   read, lost>>

OutputEnds ==
    /\ ~up /\ feed = "open"
    /\ feed' = "ended"
    /\ UNCHANGED <<innerVars, taskVars, streamVars, up, output, known, pushed, finished,
                   faults, read, lost>>

(* The fan-out gives recv_task a chunk, or evicts it when its queue is full.*)
Emit(f) ==
    /\ feed = "open" /\ recv # "stopped"
    /\ IF Len(output) < OutputDepth
         THEN output' = Append(output, f) /\ UNCHANGED <<feed, faults>>
         ELSE Fault /\ feed' = "lagged" /\ UNCHANGED output

(* The agent (external).                                                    *)
AgentPushes(id) ==
    /\ id \in known \ finished
    /\ pushed[id] < MaxPush
    /\ Emit(Push(id, pushed[id] + 1))
    /\ pushed' = [pushed EXCEPT ![id] = @ + 1]
    /\ UNCHANGED <<innerVars, taskVars, streamVars, up, known, finished, read, lost>>

AgentFinishes(id) ==
    /\ id \in known \ finished
    /\ Emit(Fin(id))
    /\ finished' = finished \cup {id}
    /\ UNCHANGED <<innerVars, taskVars, streamVars, up, known, pushed, read, lost>>

Garbled ==
    /\ feed = "open" /\ recv # "stopped" /\ Len(output) < OutputDepth
    /\ Fault
    /\ output' = Append(output, Corrupt)
    /\ UNCHANGED <<innerVars, taskVars, streamVars, up, feed, known, pushed, finished,
                   read, lost>>

-----------------------------------------------------------------------------
CloseNext == CloseNotify \/ CloseClear
RecvFrame(f) == DecodeCorrupt(f) \/ RouteFin(f) \/ RouteUnknown(f) \/ RouteLookup(f)
RecvNext ==
    \/ RecvSelect \/ RecvDie \/ RecvEnd \/ Evict
    \/ output # <<>> /\ RecvFrame(Head(output))
    \/ RoutePush(routing) \/ RouteGone(routing) \/ RouteFull(routing)
    \/ RouteTag(routing)
SendNext == SendEnable \/ SendCheck \/ SendEnd \/ SendTake \/ SendAgain \/ SendDone
KeepaliveNext == KeepaliveSelect \/ KeepaliveDie \/ KeepaliveTick
ReadNext(id) == ReadFrame(id) \/ ReadEmpty(id) \/ ReadPending(id) \/ ReadWoken(id)

Next ==
    \/ CloseNext \/ OwnerDrops
    \/ RecvNext \/ SendNext \/ KeepaliveNext
    \/ \E id \in Streams :
        \/ OpenCheck(id) \/ OpenInsert(id) \/ OpenSyn(id)
        \/ ReadNext(id) \/ Write(id) \/ Shutdown(id) \/ DropStream(id)
        \/ AgentPushes(id) \/ AgentFinishes(id)
    \/ SessionCloses \/ OutputEnds \/ Garbled

Spec == Init /\ [][Next]_vars

(* The tasks are polled, the ticker ticks, and a send on a live session     *)
(* returns.  Readers keep reading.  Nobody has to open, write or drop.      *)
Fairness ==
    /\ WF_vars(CloseNext) /\ WF_vars(RecvNext) /\ WF_vars(SendNext) /\ WF_vars(KeepaliveNext)
    /\ WF_vars(OutputEnds)
    /\ \A id \in Streams : WF_vars(ReadNext(id))

FairSpec == Spec /\ Fairness

-----------------------------------------------------------------------------
(* Properties                                                               *)

(* What a stream has queued continues what was read from it, without a gap: *)
(* a stream whose queue overflowed gets nothing more (route_push evicts).   *)
GapFree ==
    \A id \in Streams : \A i \in DOMAIN queue[id] : queue[id][i] = read[id] + i

(* A reader that reached the end of a stream that lost data to a full queue *)
(* is told so by close_reason, whoever closes the multiplexer meanwhile,    *)
(* once recv_task is past storing the reason.                               *)
EvictionIsTold ==
    \A id \in lost : rd[id] = "eof" /\ recv # "full" => tag[id] = "SlowConsumer"

(* Once the multiplexer is closed every reader gets to an end of file, also *)
(* that of a stream whose open_stream crossed with the close.               *)
ReadsEnd ==
    \A id \in Streams :
        (closed /\ stream[id] = "open") ~> (rd[id] = "eof" \/ stream[id] = "dropped")

(* The end of the session, like any close, is the end of the multiplexer:   *)
(* it becomes closed, and the send and keep-alive tasks stop wherever the   *)
(* notification finds them.                                                 *)
TasksStop == (closed \/ ~up) ~> (closed /\ send = "stopped" /\ keepalive = "stopped")

=============================================================================
