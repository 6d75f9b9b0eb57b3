------------------------------- MODULE Shell -------------------------------
(***************************************************************************)
(* InteractiveShell over one session: drive and its pump, the raw mode     *)
(* guard, the stdin thread and the resize watcher of TerminalReader.       *)
(*                                                                         *)
(* The session is what module SessionCore shows of it: output goes to the  *)
(* subscribers of the moment, a subscriber whose queue is full is evicted, *)
(* and close sets the flag before it ends the streams.  A piece of output  *)
(* is counted; a terminal size is a number.                                *)
(***************************************************************************)
EXTENDS Integers, Sequences

CONSTANTS
    send_initial_size, \* InteractiveConfig::send_initial_size
    OutputDepth,       \* the session's output_buffer
    EventDepth,        \* the queue of TerminalReader
    MaxOutput,         \* bound: pieces of output
    MaxKeys,           \* bound: reads of stdin that return bytes
    MaxSize            \* bound: the terminal takes the sizes 0..MaxSize in turn

ASSUME ShellAssumption ==
    /\ send_initial_size \in BOOLEAN
    /\ OutputDepth \in Nat \ {0} /\ EventDepth \in Nat \ {0}
    /\ MaxOutput \in Nat /\ MaxKeys \in Nat /\ MaxSize \in Nat

VARIABLES
    \* the session
    closed,    \* SessionCore::closed
    sendable,  \* SessionCore::sendable
    stream,    \* this subscriber: "none", "open", "lagged" or "ended"
    pending,   \* pieces in its queue
    emitted,   \* pieces of output so far
    remote,    \* the size the remote pty has been told, -1 before that
    \* the terminal
    raw,       \* it is in raw mode
    found,     \* it was when the shell was started
    size,
    keys,      \* reads of stdin so far
    winch,     \* a SIGWINCH is pending for the watcher
    \* drive and pump
    shell,
    was_raw,   \* of the guard
    event,     \* the event or size being sent
    typed,     \* history: reads of stdin the session has been sent
    cause,     \* why pump returned
    result,
    \* TerminalReader
    running,
    events,
    stdin,     \* the stdin thread
    input,     \* what it has read
    watcher,   \* the resize watcher
    last

sessionVars == <<closed, sendable, stream, pending, emitted, remote>>
terminalVars == <<raw, found, size, keys, winch>>
driveVars == <<shell, was_raw, event, typed, cause, result>>
threadVars == <<running, stdin, input, watcher, last>>
shellVars == <<sessionVars, terminalVars, driveVars, threadVars, events>>

Input(k) == [kind |-> "Input", key |-> k]
Eof == [kind |-> "Eof"]
Resize(n) == [kind |-> "Resize", size |-> n]
None == [kind |-> "None"]
Inputs == {Input(k) : k \in 1..MaxKeys}
Events == Inputs \cup {Eof} \cup {Resize(n) : n \in 0..MaxSize}
Watching == {"check", "waiting", "send"}
Polling == {"pump", "poll_input", "poll_closed"}

ShellTypeOK ==
    /\ {closed, sendable, raw, found, was_raw, running, winch} \subseteq BOOLEAN
    /\ stream \in {"none", "open", "lagged", "ended"}
    /\ pending \in 0..OutputDepth
    /\ emitted \in 0..MaxOutput /\ typed \in 0..MaxKeys
    /\ remote \in -1..MaxSize /\ {size, last} \subseteq 0..MaxSize /\ keys \in 0..MaxKeys
    /\ shell \in {"start", "waiting", "enter", "size", "sizing", "reader",
                  "sending", "restore", "terminate", "returned"} \cup Polling
    /\ event \in Events \cup {None} /\ input \in Inputs \cup {Eof, None}
    /\ cause \in {"none", "output", "closed", "eof", "error"}
    /\ result \in {"none", "ok", "error"}
    /\ Len(events) <= EventDepth
    /\ stdin \in {"none", "check", "reading", "send", "stopped"}
    /\ watcher \in {"none", "spawned", "listening", "stopped"} \cup Watching

ShellInit ==
    /\ closed = FALSE /\ sendable = FALSE /\ stream = "none" /\ pending = 0
    /\ emitted = 0 /\ remote = -1
    /\ found \in BOOLEAN /\ raw = found /\ size = 0 /\ keys = 0 /\ winch = FALSE
    /\ shell = "start" /\ was_raw = FALSE /\ event = None /\ typed = 0
    /\ cause = "none" /\ result = "none"
    /\ running = FALSE /\ events = <<>> /\ stdin = "none" /\ input = None
    /\ watcher = "none" /\ last = 0

-----------------------------------------------------------------------------
(* drive                                                                    *)

Returns(r) == shell' = "returned" /\ result' = r

(* require_terminal                                                         *)
Start ==
    /\ shell = "start"
    /\ \/ shell' = "waiting" /\ UNCHANGED result
       \/ Returns("error")
    /\ UNCHANGED <<sessionVars, terminalVars, was_raw, event, typed, cause, threadVars, events>>

WaitReady ==
    /\ shell = "waiting" /\ sendable
    /\ shell' = "enter"
    /\ UNCHANGED <<sessionVars, terminalVars, was_raw, event, typed, cause, result, threadVars, events>>

(* The session has closed, or takes too long to become ready.               *)
WaitFails ==
    /\ shell = "waiting" /\ ~sendable
    /\ Returns("error")
    /\ UNCHANGED <<sessionVars, terminalVars, was_raw, event, typed, cause, threadVars, events>>

(* RawModeGuard::enter.                                                     *)
EnterRaw ==
    /\ shell = "enter"
    /\ was_raw' = raw
    /\ raw' = TRUE
    /\ shell' = IF send_initial_size THEN "size" ELSE "reader"
    /\ UNCHANGED <<sessionVars, found, size, keys, winch, event, typed, cause, result, threadVars, events>>

(* The terminal cannot be put in raw mode: it is left as it is.             *)
EnterFails ==
    /\ shell = "enter"
    /\ Returns("error")
    /\ UNCHANGED <<sessionVars, terminalVars, was_raw, event, typed, cause, threadVars, events>>

(* RawModeGuard::drop                                                       *)
Restored == IF was_raw THEN raw ELSE FALSE

(* TerminalSize::current, before the send.                                  *)
ReadSize ==
    /\ shell = "size"
    /\ shell' = "sizing" /\ event' = Resize(size)
    /\ UNCHANGED <<sessionVars, terminalVars, was_raw, typed, cause, result, threadVars, events>>

SendSize ==
    /\ shell = "sizing" /\ ~closed
    /\ shell' = "reader" /\ event' = None
    /\ remote' = event.size
    /\ UNCHANGED <<closed, sendable, stream, pending, emitted, terminalVars, was_raw,
                   typed, cause, result, threadVars, events>>

(* An early return: the guard is dropped, the session is not terminated.    *)
SendSizeFails ==
    /\ shell = "sizing" /\ closed
    /\ Returns("error")
    /\ raw' = Restored /\ event' = None
    /\ UNCHANGED <<sessionVars, found, size, keys, winch, was_raw, typed, cause, threadVars, events>>

(* TerminalReader::start, and the subscription.                             *)
StartReader ==
    /\ shell = "reader"
    /\ shell' = "pump"
    /\ running' = TRUE /\ stdin' = "check" /\ watcher' = "spawned"
    /\ stream' = IF stream = "ended" THEN "ended" ELSE "open"
    /\ UNCHANGED <<closed, sendable, pending, emitted, remote, terminalVars, was_raw,
                   event, typed, cause, result, input, last, events>>

-----------------------------------------------------------------------------
(* pump: a biased select, which polls the output, the terminal and the      *)
(* close one after the other.  What comes in behind it waits for the next   *)
(* round, unless the close is found: a piece of output that comes between   *)
(* the first poll and the close is not shown.                               *)

(* pump returns, and TerminalReader is dropped with its queue.              *)
LeavePump(c) ==
    /\ shell' = "restore" /\ cause' = c /\ event' = None
    /\ running' = FALSE /\ events' = <<>>

ShowOutput ==
    /\ shell = "pump" /\ pending > 0
    /\ pending' = pending - 1
    /\ UNCHANGED <<closed, sendable, stream, emitted, remote, terminalVars, shell,
                   was_raw, event, typed, cause, result, threadVars, events>>

ShowFails ==
    /\ shell = "pump" /\ pending > 0
    /\ pending' = pending - 1
    /\ LeavePump("error")
    /\ UNCHANGED <<closed, sendable, stream, emitted, remote, terminalVars, was_raw,
                   typed, result, stdin, input, watcher, last>>

OutputEnded ==
    /\ shell = "pump" /\ pending = 0 /\ stream \in {"lagged", "ended"}
    /\ LeavePump("output")
    /\ UNCHANGED <<sessionVars, terminalVars, was_raw, typed, result, stdin, input, watcher, last>>

OutputIdle ==
    /\ shell = "pump" /\ pending = 0 /\ stream = "open"
    /\ shell' = "poll_input"
    /\ UNCHANGED <<sessionVars, terminalVars, was_raw, event, typed, cause, result, threadVars,
                   events>>

TakeEvent ==
    /\ shell = "poll_input" /\ events # <<>>
    /\ Head(events) # Eof
    /\ shell' = "sending" /\ event' = Head(events)
    /\ events' = Tail(events)
    /\ UNCHANGED <<sessionVars, terminalVars, was_raw, typed, cause, result, threadVars>>

TakeEof ==
    /\ shell = "poll_input" /\ events # <<>>
    /\ Head(events) = Eof
    /\ LeavePump("eof")
    /\ UNCHANGED <<sessionVars, terminalVars, was_raw, typed, result, stdin, input, watcher,
                   last>>

InputIdle ==
    /\ shell = "poll_input" /\ events = <<>>
    /\ shell' = "poll_closed"
    /\ UNCHANGED <<sessionVars, terminalVars, was_raw, event, typed, cause, result, threadVars,
                   events>>

SeeClosed ==
    /\ shell = "poll_closed" /\ closed
    /\ LeavePump("closed")
    /\ UNCHANGED <<sessionVars, terminalVars, was_raw, typed, result, stdin, input, watcher,
                   last>>

(* Nothing yet: the task sleeps until one of them wakes it.                 *)
SleepInPump ==
    /\ shell = "poll_closed" /\ ~closed
    /\ shell' = "pump"
    /\ UNCHANGED <<sessionVars, terminalVars, was_raw, event, typed, cause, result, threadVars,
                   events>>

(* session.send or send_terminal_size                                       *)
SendDone ==
    /\ shell = "sending" /\ ~closed
    /\ shell' = "pump" /\ event' = None
    /\ remote' = IF event.kind = "Resize" THEN event.size ELSE remote
    /\ typed' = IF event.kind = "Input" THEN event.key ELSE typed
    /\ UNCHANGED <<closed, sendable, stream, pending, emitted, terminalVars, was_raw, cause,
                   result, threadVars, events>>

SendFails ==
    /\ shell = "sending" /\ closed
    /\ LeavePump("error")
    /\ UNCHANGED <<sessionVars, terminalVars, was_raw, typed, result, stdin, input, watcher, last>>

RestoreTerminal ==
    /\ shell = "restore"
    /\ shell' = "terminate"
    /\ raw' = Restored
    /\ UNCHANGED <<sessionVars, found, size, keys, winch, was_raw, event, typed, cause, result,
                   threadVars, events>>

(* session.terminate                                                        *)
TerminateSession ==
    /\ shell = "terminate"
    /\ Returns(IF cause = "error" THEN "error" ELSE "ok")
    /\ closed' = TRUE /\ stream' = "ended" /\ pending' = 0
    /\ UNCHANGED <<sendable, emitted, remote, terminalVars, was_raw, event, typed,
                   cause, threadVars, events>>

-----------------------------------------------------------------------------
(* The stdin thread                                                         *)

StdinCheck ==
    /\ stdin = "check"
    /\ stdin' = IF running THEN "reading" ELSE "stopped"
    /\ UNCHANGED <<sessionVars, terminalVars, driveVars, running, input, watcher, last, events>>

StdinRead ==
    /\ stdin = "reading" /\ keys < MaxKeys
    /\ keys' = keys + 1
    /\ stdin' = "send" /\ input' = Input(keys')
    /\ UNCHANGED <<sessionVars, raw, found, size, winch, driveVars, running, watcher, last, events>>

(* End of file, or a read error.  Mutant: the consumer is not told; the     *)
(* watcher keeps the queue open.                                            *)
StopsQuietly == stdin' = "stopped" /\ input' = Eof
TellsEof == stdin' = "send" /\ input' = Eof

StdinEof ==
    /\ stdin = "reading"
    /\ TellsEof
    /\ UNCHANGED <<sessionVars, terminalVars, driveVars, running, watcher, last, events>>

(* A read cut short by a signal.                                            *)
StdinInterrupted ==
    /\ stdin = "reading"
    /\ stdin' = "check"
    /\ UNCHANGED <<sessionVars, terminalVars, driveVars, running, input, watcher, last, events>>

(* blocking_send and send: the receiver lives as long as pump runs.         *)
(* Mutant: what a full queue has no room for is dropped.                    *)
Receiving == shell \in Polling \cup {"sending"}
QueuesOrDrops(e) ==
    Receiving /\ events' = IF Len(events) < EventDepth THEN Append(events, e) ELSE events
Queues(e) == Receiving /\ Len(events) < EventDepth /\ events' = Append(events, e)

StdinSend ==
    /\ stdin = "send"
    /\ \/ Queues(input) /\ stdin' = IF input = Eof THEN "stopped" ELSE "check"
       \/ ~Receiving /\ stdin' = "stopped" /\ UNCHANGED events
    /\ input' = None
    /\ UNCHANGED <<sessionVars, terminalVars, driveVars, running, watcher, last>>

-----------------------------------------------------------------------------
(* The resize watcher                                                       *)

(* It listens for SIGWINCH from its first poll on, or not at all.           *)
WatcherStarts ==
    /\ watcher = "spawned"
    /\ watcher' \in {"listening", "stopped"}
    /\ UNCHANGED <<sessionVars, terminalVars, driveVars, running, stdin, input, last, events>>

(* The size that later ones are compared with.                              *)
WatcherReadsSize ==
    /\ watcher = "listening"
    /\ watcher' = "check" /\ last' = size
    /\ UNCHANGED <<sessionVars, terminalVars, driveVars, running, stdin, input, events>>

WatcherCheck ==
    /\ watcher = "check"
    /\ watcher' = IF running THEN "waiting" ELSE "stopped"
    /\ UNCHANGED <<sessionVars, terminalVars, driveVars, running, stdin, input, last, events>>

(* Mutant: the size is compared, and not kept.                              *)
KeptSize == last
SeenSize == size

WatcherWakes ==
    /\ watcher = "waiting" /\ winch
    /\ winch' = FALSE
    /\ watcher' = IF size # last THEN "send" ELSE "check"
    /\ last' = SeenSize
    /\ UNCHANGED <<sessionVars, raw, found, size, keys, driveVars, running, stdin, input, events>>

WatcherSend ==
    /\ watcher = "send"
    /\ \/ Queues(Resize(last)) /\ watcher' = "check"
       \/ ~Receiving /\ watcher' = "stopped" /\ UNCHANGED events
    /\ UNCHANGED <<sessionVars, terminalVars, driveVars, running, stdin, input, last>>

-----------------------------------------------------------------------------
(* The user and the session                                                 *)

(* A signal that is not listened for is lost.                               *)
UserResizes ==
    /\ size < MaxSize
    /\ size' = size + 1
    /\ winch' = (watcher \in Watching \cup {"listening"})
    /\ UNCHANGED <<sessionVars, raw, found, keys, driveVars, threadVars, events>>

HandshakeCompletes ==
    /\ ~closed /\ ~sendable
    /\ sendable' = TRUE
    /\ UNCHANGED <<closed, stream, pending, emitted, remote, terminalVars, driveVars, threadVars, events>>

(* deliver: output makes a session without a handshake ready.  The fan-out  *)
(* gives it to who has subscribed, as long as it is not closed.             *)
AgentOutputs ==
    /\ emitted < MaxOutput /\ stream # "ended"
    /\ emitted' = emitted + 1
    /\ sendable' = TRUE
    /\ LET room == pending < OutputDepth
       IN  /\ pending' = IF stream = "open" /\ room THEN pending + 1 ELSE pending
           /\ stream' = IF stream = "open" /\ ~room THEN "lagged" ELSE stream
    /\ UNCHANGED <<closed, remote, terminalVars, driveVars, threadVars, events>>

SessionCloses ==
    /\ ~closed
    /\ closed' = TRUE
    /\ UNCHANGED <<sendable, stream, pending, emitted, remote, terminalVars, driveVars, threadVars, events>>

StreamsEnd ==
    /\ closed /\ stream # "ended"
    /\ stream' = "ended"
    /\ UNCHANGED <<closed, sendable, pending, emitted, remote, terminalVars, driveVars, threadVars, events>>

Drive ==
    \/ Start \/ WaitReady \/ WaitFails \/ EnterRaw \/ EnterFails \/ ReadSize \/ SendSize
    \/ SendSizeFails \/ StartReader
    \/ ShowOutput \/ ShowFails \/ OutputEnded \/ OutputIdle \/ TakeEvent \/ TakeEof
    \/ InputIdle \/ SeeClosed \/ SleepInPump
    \/ SendDone \/ SendFails \/ RestoreTerminal \/ TerminateSession
Watcher ==
    WatcherStarts \/ WatcherReadsSize \/ WatcherCheck \/ WatcherWakes \/ WatcherSend
Threads == StdinCheck \/ StdinSend \/ Watcher

ShellNext ==
    \/ Drive \/ Threads \/ StdinRead \/ StdinEof \/ StdinInterrupted
    \/ UserResizes \/ HandshakeCompletes \/ AgentOutputs \/ SessionCloses \/ StreamsEnd

ShellSpec == ShellInit /\ [][ShellNext]_shellVars

(* The shell's task and the watcher's are scheduled and so is the stdin     *)
(* thread; close runs to its end.  Nobody has to type, resize or output.    *)
ShellFairness ==
    /\ WF_shellVars(Drive) /\ WF_shellVars(StreamsEnd)
    /\ WF_shellVars(StdinCheck \/ StdinSend)
    /\ WF_shellVars(Watcher)

ShellFairSpec == ShellSpec /\ ShellFairness

-----------------------------------------------------------------------------

(* What is typed reaches the session in order and nothing of it is skipped, *)
(* however slowly the shell sends and however full the queue of             *)
(* TerminalReader is, and a shell that ends because stdin did has sent all  *)
(* of it before.                                                            *)
TypedIsSent ==
    [][/\ typed' \in {typed, typed + 1}
       /\ cause' = "eof" => typed' = keys']_shellVars

(* Once the watcher has a size to compare with, a resize reaches the remote *)
(* pty unless another one follows or the shell ends.  (The biased select    *)
(* promises this only to an agent whose output pauses, as it does here.)    *)
ResizeFollows ==
    \A n \in 1..MaxSize :
        (watcher \in Watching /\ size = n /\ last # n /\ running) ~>
            (remote = n \/ size # n \/ ~running)

(* The shell returns when its session ends, wherever it is, and when stdin  *)
(* ends while the session stays up and its output pauses; the terminal is   *)
(* then in the mode the shell found it in, also when that was raw mode.     *)
ShellReturns ==
    (closed \/ (running /\ input = Eof)) ~> (shell = "returned" /\ raw = found)
=============================================================================
