# Verification of aws-ssm-bridge

aws-ssm-bridge is a client for AWS SSM Session Manager. It opens a WebSocket
(a *data channel*) to the SSM gateway, exchanges numbered and acknowledged
messages with the agent on the target machine, and offers the resulting byte
stream to applications: as a session, as a session that reconnects by itself,
as a multiplexer for port forwarding, as an interactive shell, and as a pool.

This directory holds TLA+ models of the parts in which several tasks share
state, the TLC configurations that check them on small instances, and TLAPS
proofs that hold for every value of the constants. Source references are to `src/src/*.rs` unless
another path is given. `PROJECT.json` lists every component with its status, the
lines each definition stands for, and every hazard at the line where it bites.

## 1. The system

| Part | State | Hard behaviour |
|---|---|---|
| Outbound stream (`connection.rs`, `ack.rs`) | sequence mutex, outgoing buffer, writer queue, ack waiters, RTT estimate | two tasks number messages; buffer full; acks out of order; tasks aborted with the lock held; resume |
| Inbound stream (`connection.rs`, `ack.rs`) | `expected`, reorder buffer | early, repeated and refused messages; acks dropped; the old reader still at work after a resume |
| Handshake and encryption (`handshake.rs`, `crypto.rs`, `connection.rs`) | handshake state, cipher, gate for input | repeated requests; refused actions; the channel replaced between the number of a response and the cipher |
| Wire format (`binary_protocol.rs`) | none | widths, signs, padding, lengths |
| Session core (`session.rs`, `channels.rs`) | closed, reason, sendable, three `Notify`s, subscribers | lost wake-ups, close in several steps, subscriber added during a close, slow subscriber |
| Manager and dialling (`session.rs`, `connection.rs`, `signing.rs`) | the AWS session, dial attempts | failure after AWS has started the session; credentials of a retried dial |
| Session pool (`pool.rs`) | map of sessions | admission checked before and after an await; terminate and shutdown in between |
| Reconnecting session (`reconnect.rs`, `shutdown.rs`) | current session, shutdown latch, durable output, reference counts | terminate or drop while a session is being opened; reason not yet stored when the close is seen |
| Smux multiplexer (`mux.rs`) | stream table, frame queue, closed, die | open and read racing close; eviction |
| Port forwarder (`port_forward.rs`) | listener, permits, connections, shutdown | half-close, resets, the session or the multiplexer ending under open connections |
| Interactive shell (`interactive.rs`, `terminal.rs`) | raw mode, stdin thread, resize watcher | output racing the close; the blocking stdin thread; resizes while an event is sent |

How they interact: `SessionManager` starts a session with AWS and dials its
channel. `Session` owns five tasks (reader, writer, command, heartbeat,
retransmit) that share a `SessionCore` and a `Continuity`. The command task and
the reader call `send_payload`; the reader runs the handshake and delivers output
into the fan-out of the core. When a channel is lost, the supervisor of a
`ReconnectingSession` sees `closed()`, and either resumes (new `SessionCore`, the
same `Continuity`) or starts anew (both new). The multiplexer sits on one
session's output and `send`, the forwarder on the multiplexer, the shell on a
session, the pool on the manager.

## 2. Modules

| Module | Models |
|---|---|
| `ReliableStream` | The abstract promise of one direction: what goes in comes out, in order, once each. |
| `Outbound` | Client to agent. Implements `ReliableStream`. |
| `Inbound` | Agent to client. Implements `ReliableStream`. |
| `Rtt` | `RttEstimate::record` as an operator on estimates. |
| `OutboundRtt` | `Outbound` with the estimate: which acknowledgements are timed. |
| `Handshake` | `HandshakeHandler`, `deliver`, the session cipher and the agent, over two such streams. |
| `Wire` | `ClientMessage::serialize`, `deserialize` and `validate`, over bytes. |
| `SessionCore` | `close`, the `Notify` waits, `sendable`, and the output fan-out. |
| `Manager` | `start_session`, dialling, signing, `terminate`, and AWS on the other side. |
| `Pool` | `SessionPool`, composed with `Manager`: it extends it and adds the pool's state. |
| `Reconnect` | Supervisor, handles, pumps and the lifetime of session objects. |
| `Mux` | The smux multiplexer: stream table, frame queue, three tasks, streams, close. |
| `Forwarder` | `PortForwarder` on what `Mux` promises of a stream. |
| `Shell` | `InteractiveShell` and `TerminalReader` on what `SessionCore` promises. |
| `MC*` | The modules TLC runs; the constants are in the `.cfg` files. |
| `OutboundProofs`, `InboundProofs`, `HandshakeProofs`, `SessionCoreProofs`, `PoolProofs`, `ReconnectProofs`, `MuxProofs`, `ForwarderProofs` | Proofs about the modules they are named for. `OutboundProofs` covers `Rtt` and `OutboundRtt` too, `PoolProofs` covers `Manager` and `Shell`, and `SessionCoreProofs` covers `Wire`. |

Operators that exist only to be swapped in for a definition when the checks are
themselves tested (a dropped guard, an off-by-one, a missing reset) stand just
above the definition they vary, and their comment says *Mutant*. No action uses
them.

### Outbound

A *sender* is a channel number together with one of its two tasks. `pc` follows
a call of `send_payload`: queued for the mutex, at `track`, parked for room, at
`write`. Each await of the code is a place where other actions can come between;
what the code does between two awaits but under different locks is also split
(`ReaderAck` retires a message, `NotifyAck` wakes the waiters). `sequence`,
`holder` and `outgoing` are the fields of `Continuity`; `Resume` keeps them and
replaces everything else. Tasks of a replaced channel may still be anywhere
until they notice, or until `Abort`. Time is left out: an entry may be overdue
whenever it is in the buffer. The heartbeat fires only while the reader is
stuck, which is when the code's idle time can grow although the agent sends.

`write` is not raced against the close. On a closed channel it may still be taken by
the queue (`WriteUnread`), is refused once the writer task has returned
(`WriteRefused`), or waits. The writer task looks at the close between two frames only,
so on a stalled socket (`SocketStalls`) it stays until it is aborted with its `Session`,
which for a replaced channel `Resume` implies.

`OutboundRtt` adds the other field of `OutgoingState`, the round-trip estimate.
`acknowledge` retires a message and, if it was sent once, records how long the
acknowledgement took; the time is any of the link's round trips. For a message that
was resent the code's clock says less than a round trip, possibly, since `last_sent`
is the time of the last copy. Every other step is one of `Outbound` and leaves the
estimate alone.

The agent is external. It may drop a message without acknowledging it,
acknowledges each copy it takes, keeps early ones and processes in order, which
is what the comments in `ack.rs` and `connection.rs` rely on.

### Inbound

A message is its number. Payloads are told apart only by whether `deliver`
awaits a reply (`Replies`: HandshakeRequest and EncChallengeRequest), because
those are the ones during which the channel can be closed and resumed.
`DropStale`, `FindEarly` and `TakeExpected` are the three arms of the comparison in
`route_stream_data`. `expected` and the reorder buffer are locked apart, so an early
message is inserted in a step of its own (`Insert`), and so are `advance_expected`
(`Advance`) and the take that follows it in the drain loop (`Take`).

One timing assumption is made: between the close of a channel and the opening of
its successor lie calls to the SSM service and the gateway, so what the old
reader does *without* awaiting is over by then. What it awaits need not be.

### Handshake and Wire

The two directions are sequences, as `Outbound` and `Inbound` provide them. Every
channel has its own handler, gate and exit code; the cipher is in `Continuity`
and survives a resume. A payload carries how it is sealed: which data key, and
which half of it; a seal opens only under its own key. `LateReply` is the reader
of a lost channel that is still sending its answer. A message the reader was
answering when its channel was lost comes again, unless its acknowledgement has reached
the agent: then its place in the stream stays open (`Retired`). Two readers at the same
message, the old one and the new one, are in `Inbound` only. The agent may ask again,
refuse, skip the handshake (`AgentIsLegacy`), end, or send what does not parse.

`Wire` writes and reads the header byte by byte, most significant byte first, with
the widths and the signs of the code. TLC's integers have 32 bits, so the samples of
the run stay below 2^31; the proofs are for every number of its width. `Sha256` is a
function that tells the sampled payloads apart.

### SessionCore

The steps of `close` and of `OutputFanout::close` are separate actions, since
they touch separate atomics and locks: the swap, the reason, the fan-out flag,
the clearing of subscribers, and the notifications. A waiter is enabled, then
checks, then waits; `set_sendable` is a swap and a notification. The ack
notification is part of `Outbound`.

### Manager and Pool

A call starts at most one session, so both have one name. `pc` follows
`start_session` through StartSession, signing, dialling, the open message and the
release after a failure; `aws` is what AWS holds, `session` what the client holds.
`leftover` is a history variable: why AWS may still hold a session nobody answers
for. `is_closed` and `close` in `terminate` are one step; the race they leave open
only adds a TerminateSession call. `SessionDropped` is `Session::drop`, which tells AWS
nothing; `OwnerDrops` is its use: `insert` takes an `Arc`, and a session the pool does
not hold may lose its last one. The pool itself is not dropped. `Pool` adds the map; a start is admitted
before the await and again by `Insert`, with any other call in between.

### Reconnect

Sessions are numbered `Session` objects with a status. `closing` is the moment
in which the closed flag is set and the reason is not, in which the supervisor
falls back on `Transport`. The objects are reference counted: `Referenced` says
who holds one (the current slot, a pump, the supervisor's locals, a caller), and
an unreferenced live one is dropped, which closes it. A drop of a handle tests
the count and releases its fields in two steps. A `send` looks at the current session,
then writes to what it saw; its deadline passes at any time (`DeadlinePasses`), and is
looked at only between two tries.

### Mux

`closed`, `waiting` (the `die` notification), `table`, `tag` and `frames` are the
fields of `Inner`. The three steps of `close` are apart: the swap, the
notification, the clearing under the lock. Only the caller that wins the swap goes
on, so one program counter (`closing`) stands for all calls. `route_push` looks a
stream up, releases the lock, and then sends, tags and removes; each of these is
an action. A reader polls its queue, then looks at the flag, then parks. A write
that finds no room changes nothing, so a write is one action. Data frames are
numbered per stream; of the frames for the agent only SYN matters to what
follows, and the others are one value. The fan-out of the session appears as a
bounded queue that evicts `recv_task` when it is full.

### Forwarder and Shell

`fwd` is where `forward` stands, `conn` where the task of a connection stands, and
`outbound` and `inbound` its two pumps, each copying, shutting down its writer, or
done. Pieces are counted at both ends of each pump. The multiplexer shows what
`Mux` checks of it: queued data and then end of file, after a FIN, an eviction or
a close. A client may stop reading, and the pump towards it then waits in its write
(`ClientStopsReading`). Once a connection is over its counters go back to zero, to keep
the instance small.

`shell` is where `drive` and its pump stand. The biased select polls the output, the
terminal events and the close in this order, in three steps, between which anything
may happen. `raw`, `found` and `was_raw` are the terminal's mode and the guard's
memory of it. The stdin thread blocks in a read and looks at `running` between
reads; the watcher registers for SIGWINCH, reads the size it will compare with, then
waits. `typed` is a history variable, the last piece of input given to the session. The session shows what
`SessionCore` checks of it.

## 3. Runs

All runs set `CHECK_DEADLOCK FALSE`: a session really ends, and then nothing is
left to do.

| Run | Question | Result |
|---|---|---|
| `OutboundSafety` | Is a numbered message ever lost, duplicated, reordered, or overtaken? Does the RTT estimate stay within the round trips of the link? | holds (1.2 million states) |
| `OutboundLiveness` | While the last socket moves, does every `send_payload` return, and every message arrive? | holds (50 000) |
| `Inbound` | Is output processed in order, once, and in the end, and kept once acknowledged, through replies, resumes and lingering readers? | holds (381 000) |
| `InboundDroppedAck` | Is a dropped acknowledgement made good? | violated |
| `Handshake` | Do both sides agree on the outcome and the cipher, is a request answered once, is ciphertext ever shown, does the handshake settle unless a message was acknowledged and given up? | holds (224 000) |
| `SessionCore` | Does anybody hang on a closing session, is anybody woken by it before the reason is there, or does anybody miss output unnoticed? Does the wire format read back what it wrote? | holds (82 000) |
| `Pool` | Do the limits hold, is a session lost sight of or left with AWS for no named reason, is a credential used for two attempts, does a call hang although its dial returns? | holds (40 000) |
| `Reconnect` | One live session, sends that reach the current one, output that spans sessions, a supervisor that recovers, gives up or stops? | holds (35 000) |
| `ReconnectDrop` | Does the last drop tear the session down? | violated |
| `Mux` | Does an eviction leave a hole or go unreported; does anyone wait on after a close? | holds (307 000) |
| `Forwarder` | Do permits come back, is a reply cut short by a half-close, does a connection end that both ends have finished with, does the tunnel stop with its session? | holds (233 000) |
| `Shell` | Is everything typed sent, in order and before the end of input, does a resize arrive, does the shell return with the terminal as it was? | holds (391 000) |

`WireRoundTrip` (in `MCSessionCore`) puts the wire format under the output that the
session is given. `EstimateWithinSamples` is about the estimate in every state of
the outbound direction, so that resent, repeated and late acknowledgements feed it or
do not as in the code. Every module has a `TypeOK` (`ShellTypeOK` in `Shell`), which is
not among the properties of a run; it was checked with TLC on each instance, and is
proved for `Outbound`, `Inbound` and `Pool`.

What the violations show:

* `EventuallyAcked`. A dropped acknowledgement is said to cost only latency
  (`connection.rs:968`). But the message has been processed, so its retransmission
  is below `expected` and is dropped unacknowledged each time.
* `FinalDropTearsDown`. `pump_output` owns an `Arc` of the session and ends when
  the session's output ends; nothing ends it after the last handle is gone,
  although "only the final handle tears things down" (`reconnect.rs:286`).

### Bounds

| Run | Bounds |
|---|---|
| `OutboundSafety` | 2 channels (4 senders), buffer of 2, 2 transmissions, queues of 1, 3 messages of 2 payloads, no stalled socket (a stall only disables); round trips of 1, of just under the minimal timeout, and of twice the maximal one |
| `OutboundLiveness` | buffer of 1, 2 messages, 1 socket that stalls |
| `Inbound`, `InboundDroppedAck` | 3 messages, reorder buffer of 1, a payload with and one without a reply, 2 channels |
| `Handshake` | requests of up to two of three actions (one refused), 1 output, 1 input, 1 repetition, 2 channels |
| `SessionCore` | 2 closers, one waiter of each kind, 1 subscriber with a queue of 1, 2 chunks; wire: payloads of up to 3 bytes, numbers at the edges of one and two bytes |
| `Pool` | 2 calls, 2 targets, 2 dial attempts, room for 1 session, no duplicates |
| `Reconnect` | 1 handle, 2 sessions, 2 attempts |
| `Mux` | 1 stream, all queues of 1, 2 data frames, 1 outside cause to close, keep-alives on |
| `Forwarder` | 2 clients, 1 permit, stream queue of 1, request of 1 piece, reply of 2 |
| `Shell` | initial size sent, queues of 1, 2 pieces of output, 2 pieces of input, 2 further sizes |

Three messages over a buffer of two fill the buffer with one sender parked and
both tasks of the old channel still at work when the new one starts; queues of
one make every enqueue wait at some point; two attempts reach both branches of
`poll_retransmit`. Three inbound messages over a reorder buffer of one are the
fewest in which a message is refused while another waits. Two concurrent closes are
enough to race for the reason. Two calls for one place both pass the first check
of admission. Two frames, or two pieces of a reply, over a queue of one evict a
stream; one outside cause closes the multiplexer, after which its tasks close it
again in any order. Two pieces of input and two resizes over a queue of one block the
stdin thread and the watcher behind each other. With one handle a send races the
supervisor, terminate and drop of the same handle; two handles pass as well but take
seven minutes, and the proofs are for any number. Two clients for one permit meet the limit and its return.
A second channel meets everything the first left behind; what a third would meet
is left by a second that was itself resumed, which the proofs of safety cover.

With one stream `Mux` does not show how streams affect each other; they share
only `recv_task`, which never waits for a stream, and the frame queue, which
keep-alives and evictions already contend for. The proofs of its safety are for
any number of streams. With room for one session the
limit of `Pool` hides its rule on duplicates; the proof of `LimitHeld` covers it.

### Fairness

* Tokio polls every task that can move: weak fairness of each task, and of the
  shell's stdin thread between reads.
* The async mutex and the bounded channels are FIFO, so a waiter is served though
  others keep coming: strong fairness of `Acquire`, `Write`, `RetransmitWrite`.
* The agent does not drop every copy, and resends what is not acknowledged:
  strong fairness of `AgentTakes` and `AgentSends`. It reads what it is sent.
* Calls to AWS return, one way or the other: the SDK has timeouts. Dial attempts are
  assumed to return too. The crate puts no timeout on them (`connection.rs:422`) and the
  TCP stack gives up on a silent peer only while connecting, so this is an assumption
  about the gateway: one that accepts the connection and never answers the upgrade
  holds `start_session`, and a reconnect, for ever.
* The socket of the last channel does not stall for ever (`SocketMoves`, an hypothesis
  of `SendReturns` and `EventuallyDelivered`). The heartbeat closes a silent channel,
  but neither `sink.send` nor `write` is raced against that close.
* A reader of a multiplexed stream keeps polling, and `Session::send` returns while
  the session is open (which, given the socket, is `SendReturns` of `Outbound`); so the
  multiplexer takes what a stream writes.
* Output pauses: there are finitely many pieces in an instance. The shell's select looks
  at the output first, so under output without a pause no key, resize or end of input
  would be taken, and `ResizeFollows` and `ShellReturns` are about sessions that pause.
* The server behind a forwarded port ends its reply once the request has ended.
  `RequestsEnd` rests on this, `TunnelStops` does not.
* A lost channel is resumed, which is what the supervisor is for.
* Nothing is assumed of new sends, keys, resizes, output, failures, drops,
  terminations, clients that stop reading, sockets that stall, or the success of an
  attempt.

## 4. Proofs

TLAPS proves the following for every value of the constants that the modules'
assumptions allow. Those say that sizes and bounds are natural numbers (positive
where a queue needs room), that a finite set is finite, that markers such as
`NoReason` are not members of the sets they are told apart from, and that a call
waits for one thing at a time.

| Module | Theorem | Statement |
|---|---|---|
| `OutboundProofs` | `TypeCorrect` | `Spec => []TypeOK` |
| `OutboundProofs` | `WrittenInOrder` | `Spec => []NumberedIsWrittenFirst` |
| `OutboundProofs` | `HeadIsOldest` | `Spec => []OldestFirst` |
| `OutboundProofs` | `NumberedNotLost` | `Spec => []NothingLost` |
| `OutboundProofs` | `Refinement` | `Spec => ReliableInOrder`: `Outbound` implements `ReliableStream` |
| `OutboundProofs` | `RecordWithin` | one `Record` keeps an estimate within any bounds that hold of it and of the sample |
| `OutboundProofs` | `RttImplements` | `RttSpec => Spec`: timing acknowledgements adds no behaviour |
| `OutboundProofs` | `EstimateSound` | `RttSpec => []EstimateWithinSamples` |
| `OutboundProofs` | `NoLostWakeup` | `Spec => []ParkedBehindFull` |
| `InboundProofs` | `InboundTypeCorrect` | `Spec => []TypeOK` |
| `InboundProofs` | `AckedIsKept` | `Spec => []AckedOutputIsKept` |
| `InboundProofs` | `NothingDueWaits` | `Spec => []BufferedIsEarly` |
| `InboundProofs` | `InboundRefinement` | `Spec => ReliableInOrder`: `Inbound` implements `ReliableStream`, up to the loss of a channel whose reader is replying |
| `HandshakeProofs` | `OneAnswer` | `Spec => []AnsweredOnce` |
| `HandshakeProofs` | `SidesAgree` | `Spec => []Agreement` |
| `HandshakeProofs` | `OutputIsPlain` | `Spec => []ShownIsPlain` |
| `HandshakeProofs` | `NobodyWaitsInVain` | `Spec => []NoStandOff` |
| `SessionCoreProofs` | `ReasonBeforeWake` | `Spec => []WokenCanReadReason` |
| `SessionCoreProofs` | `OutputGapFree` | `Spec => []GapFree` |
| `SessionCoreProofs` | `NobodyForgotten` | `Spec => []WakeToCome` |
| `SessionCoreProofs` | `RoundTrip` | `Deserialize` of bytes that begin with `Serialize(m)` is `m`, or a refusal if `m` is too long or not valid |
| `SessionCoreProofs` | `EitherPadding` | a message padded with NUL is read as the one padded with spaces |
| `SessionCoreProofs` | `CutShort` | every proper prefix of a serialized message is refused |
| `SessionCoreProofs` | `Altered` | another payload behind the same header is refused, unless it has the same digest |
| `SessionCoreProofs` | `WireFaithful` | `Spec => []WireRoundTrip` |
| `PoolProofs` | `PoolTypeCorrect` | `Spec => []TypeOK` |
| `PoolProofs` | `LimitAlwaysHeld` | `Spec => []LimitHeld` |
| `PoolProofs` | `LiveStaysTracked` | `Spec => []TrackedWhileLive` |
| `PoolProofs` | `NoneLost` | `Spec => [](TrackedWhileLive /\ NoneForgotten)` |
| `PoolProofs` | `CredentialAlwaysFresh` | `Spec => []FreshCredential` |
| `PoolProofs` | `KeysReachTheSession` | `ShellSpec => TypedIsSent` |
| `PoolProofs` | `TerminalRestored` | `ShellSpec => []ModeRestored` |
| `ReconnectProofs` | `OneLiveSession` | `Spec => []AtMostOneLive` |
| `ReconnectProofs` | `OutputOutlivesSessions` | `Spec => []OutputSpansSessions` |
| `ReconnectProofs` | `SendsReachCurrent` | `Spec => []SendsToCurrent` |
| `ReconnectProofs` | `HandleIsWatched` | `Spec => []NeverAbandoned` |
| `MuxProofs` | `OverflowIsTold` | `Spec => []EvictionIsTold` |
| `MuxProofs` | `StreamGapFree` | `Spec => []GapFree` |
| `MuxProofs` | `NobodySleepsOn` | `Spec => []CloseHeard` |
| `ForwarderProofs` | `PermitsAlwaysBalance` | `Spec => []PermitsBalance` |
| `ForwarderProofs` | `HalfCloseSafe` | `Spec => HalfCloseKeepsReply` |
| `ForwarderProofs` | `ForwardLeavesNothing` | `Spec => []NothingLeftBehind` |

Hardly any of the invariants is inductive alone.

**Outbound.** The strengthening has four layers, each proved with the ones before it:

1. `TypeInv`: types, and a busy sender has a message.
2. `LockInv`: a sender is between `track` and `write` exactly when it holds the
   mutex; before `track` its message has the current number; the counter is the
   count of numbered messages. This is where the critical section around
   numbering, recording and enqueueing does its work.
3. `FlightInv`: every copy, in the buffer, the queues, the socket or the agent,
   carries the payload that was given its number, and the buffer is strictly
   ascending. `Track` appends the counter, which `LockInv` makes larger than every
   number before.
4. `AgentInv`: the agent has processed a prefix of what was numbered; whatever is
   acknowledged the agent has; and nothing is lost. An acknowledgement retires one
   entry, and that one the agent has.

The refinement follows: `Track` with room maps to `Submit`, `AgentProcesses` to
`Deliver` (the payload is the right one by `FlightInv`), everything else
stutters. The module opens with the facts on removing, appending and taking the head
that the layers share.

**The estimate.** `RttStep` shows that a step of `OutboundRtt` is a step of `Outbound`,
so everything above holds with the estimate in place. `EstimateWithinSamples` then needs
two facts: `RecordWithin` (an average of values between two bounds lies between them,
rounding included, and the timeout is clamped), and that only an entry with one
attempt is timed, whose time is a round trip of the link. That every sample belongs to
a message of its own comes from counting: a sample is taken in the step that shortens
the buffer.

**Inbound.** `NumberInv`: every number in a queue, in the buffer or in the hands of a
reader is one the agent has given; a reader that awaits `send_payload` has a message
that needs a reply; one that is about to advance `expected` has delivered its message.
With it `AckedOutputIsKept` is inductive: a payload without a reply is acknowledged
in the step that buffers it or starts its delivery, and `Resume` passes the buffer
on. The refinement needs `OrderInv`: until a channel is lost in the middle of a reply,
only the reader of the channel in use is at work, at the expected number or with an
early message, and as many
messages have been processed as `expected` says, or one more between `deliver` and
`advance_expected`. So `AgentSubmits` maps to `Submit`, `Deliver` to `Deliver`, and
the rest stutters.

**Handshake.** Six layers over the types:

1. `AnswerInv`: a handler that awaits its request has not answered, so the one
   transition out of that state is the one answer.
2. `RequestInv`: all requests of an agent are the same, and a response that promises
   success without a key answers a request that asked for none.
3. `KeyInv`: data keys are numbered as they are generated. Of the responses the agent
   has yet to read, one whose key is not newer than the installed cipher comes first,
   so the agent never ends up with a newer key than the client, also when a channel
   is lost between the number of a response and the installation.
4. `ChallengeInv`: while an answer to the challenge is on its way no request is, and
   the client's cipher is the agent's; a client that has refused has no answer under
   way. `Agreement` follows.
5. `SealInv`: output on its way is plain, or comes to a client with a cipher and in a
   payload type that is opened.
6. `StandOffInv`: a handler that would ignore a repeated request has numbered its
   response on this channel, or is about to. So a request is taken off the stream only
   with a response on its way, and a challenge only with its answer (`NoStandOff`). A
   resumed channel has a new handler, which answers again.

**SessionCore.** `ReasonInv`: a closer past the store of the reason has stored one,
and a waiter that lost its place in the `Notify` without returning was woken by
such a closer. `GapInv`: the fan-out is cleared once, by the one call that set its
flag, and takes no subscriber after that (`FanInv`); and a subscriber's count of
chunks plus its queue reaches to the last one emitted while it is attached, and to
the moment of clearing if it was not evicted (`NoGap`).

**Wire.** A serialized header is the concatenation of fields of fixed width, and
`Deserialize` cuts the bytes at the same offsets: `HeaderFields` shows what is
found at each, from what reading does to a written number (`PutU32` and `GetU32` invert
each other by division with remainder, one byte at a time; `GetI64` undoes two's
complement) and from `Trim`, which finds a name within its padding. `DeserializeReads`
puts the fields together for any bytes that carry a header, and the theorems say which
bytes do. There is no loop in this format, so no induction is needed.

**Shell.** `InTransit`: while `pump` runs, the pieces of input read and not yet sent are
the ones in the shell's hands, in the event queue and in the stdin thread's, in this
order and numbered without a hole from the last one sent; and an end of input comes
behind them all, from a thread that has stopped. `KeysInv` adds the types and that the
queue lives as long as `pump` runs. A full queue blocks the thread, so nothing is skipped.
`ModeInv`: while the guard is alive the terminal is in raw mode and the guard remembers
the mode it found, so both of its ends restore it.

**Pool.** `MapSteps`: the map only shrinks, or becomes what reaping leaves plus one
session that was admitted in the same step; so the first check, before the await,
does not matter to `LimitHeld`. `OwnedInv` (what the pool has taken was opened, and
is not opened again) carries `LiveStaysTracked` and `NoneLost`, and `SignedInv`
(nothing is signed before the dial, nor for a presigned URL) carries
`CredentialAlwaysFresh`.

**Reconnect.** `LiveInv`: only the newest session can be live; a round of the
supervisor watches the newest one, goes on only when that one is closed, and adopts
the one it has just opened. `OutputInv`: a handle past the start of `terminate`, and
the drop that aborts the supervisor, have raised the shutdown signal, so whoever
closes the durable output comes after it or is the supervisor on its way out.
`HoldInv`: a live session that a call holds is the newest and so, until the handle is
stopped, the current one; the supervisor replaces or clears it only when it is closed.

**Mux.** Four layers: `FrameInv` (types; a receive task between two locks holds a data
frame), `KnownInv` (nothing of a stream is on its way before `open_stream` has entered
it in the table), `LostInv` (a stream that has lost data is out of the table, or
`recv_task` is about to take it out, and it has its reason, or `recv_task` is about to
store it), which gives `EvictionIsTold`, and `OrderInv`: the frames of a stream in the
session's output ascend and, for a stream that still gets data, start at the number
its queue needs next, without a hole and up to the last one sent. The frame
in the hands of `recv_task` counts as taken, although the lock was released.

**Forwarder.** `RunningSteps`: a step leaves the running connections alone, or
starts one for the permit it takes, or ends one and returns its permit.
`StreamInv`: a pump past its copy has passed everything on, and, while the
multiplexer is up and has not evicted the stream, each piece of a reply is with
the client or in the queue. That is what makes the end of both pumps the end of
the exchange.

**The safety halves of liveness.** The prover has no fairness, but what makes a wait end
is for the most part an invariant: whoever sleeps has a wake-up to come. Those are
proved, and TLC adds that it comes.

* `ParkedBehindFull` (for `SendReturns`): a sender asleep on a channel that is up has a
  full buffer before it, or `notify_ack` is about to run. The future is enqueued before
  the test for room. Needed with it: no task of a channel runs before the channel is
  opened.
* `WakeToCome` (for `WaitersReturn` and `StreamsEnd`): a waiter asleep on a closed or
  ready session has a caller of `close` or `set_sendable` that has not yet notified, and
  a fan-out not yet cleared has the caller that will.
* `CloseHeard` (for `TasksStop` and `ReadsEnd`): the same for the send task of the
  multiplexer and for a reader in the table. Needed with it: a stream that is read is
  never entered in the table again.
* `BufferedIsEarly` (for `EventuallyProcessed`): until a channel is lost in the middle of
  a reply, the message that is due is not in the reorder buffer, or its reader is about
  to take it.
* `NoStandOff` (for `HandshakeSettles`, with the same exception), `NeverAbandoned` (for `RecoversOrEnds`: the
  supervisor is gone, or the handle empty, only after a stop or the end of the output),
  `NothingLeftBehind` (for `TunnelStops`: who holds the multiplexer open once `forward`
  has returned) and `ModeRestored` (for `ShellReturns`).

TLC finds each of these strengthenings to be an invariant of its small instance too.

Only model-checked: the liveness properties (`SendReturns`, `EventuallyDelivered`,
`EventuallyProcessed`, `WaitersReturn`, `StreamsEnd`, `HandshakeSettles`, `CallsReturn`,
`RecoversOrEnds`, `SupervisorStops`, `ReadsEnd`, `TasksStop`, `RequestsEnd`,
`TunnelStops`, `ResizeFollows`, `ShellReturns`), since the prover has no support for
fairness or `ENABLED`, and the types of the modules not named above. Every invariant and
action property of a passing run, and both refinements, have a theorem.

## 5. Known gaps in the code

Met while modelling. The models contain this behaviour where nothing else is said; the
properties above are worded so that they do not deny it.

* *A busy session taken for a dead one.* `deliver` awaits `send_payload` for a
  handshake response or a challenge (`connection.rs:1017`). With the outgoing buffer
  full it parks, and nobody reads the acknowledgements that would free it. No frame
  is marked inbound, and after `idle_timeout` the heartbeat closes the channel. The
  wait does end if the socket moves (`SendReturns`), but "a busy session is never mistaken for a dead
  one" (`connection.rs:537-538`) does not hold then.
* *Acknowledged before it is delivered.* `route_stream_data` acknowledges the
  expected message before it delivers it (`connection.rs:950-951`); the comment above
  it (`connection.rs:907`) gives the other order. If the channel is lost while a
  reply is awaited, the resumed session waits for a message the agent has retired, and
  the handshake may never settle (`HandshakeSettles` and `NoStandOff` except it).
  Payloads without a reply are safe (`AckedOutputIsKept`).
* *Two readers at one message.* If the agent does send it again, the old reader and the
  new one may both deliver it and both advance `expected`, which then passes a message
  nobody has processed; or one inserts a message as early just after the other has
  looked for it, and it stays in the reorder buffer although it is due. In `Inbound`
  the first ends the refinement at the lost channel; `Handshake` does not have it.
* *Send on a stalled socket.* A writer task in `sink.send` or `sink.close` on a socket that
  makes no progress does not see the close, so `write` waits with the sequence mutex
  held until the `Session` is dropped (`connection.rs:510`, `486`).
* *Closed without a reason.* A caller of `closed()` that finds the flag set between the
  swap and the store (`session.rs:189-194`) returns at once and reads no reason, although
  "a waiter that observes the close is guaranteed to be able to read why"
  (`session.rs:192-193`). Callers that slept can (`WokenCanReadReason`). The
  supervisor is such a caller: it takes the missing reason for a transport failure
  (`reconnect.rs:351`) and replaces a session the agent closed, although that "stays
  closed" (`reconnect.rs:45-46`).
* *Send after the supervisor gave up.* `send` "fails immediately once the supervisor has
  given up" (`reconnect.rs:238-239`), but giving up raises no signal
  (`reconnect.rs:384-386`), so it polls until `ready_timeout`. Nor does the deadline bound
  a try: `send` of a live session whose buffers are full may wait longer.
* *Adopted after terminate.* `terminate` (`reconnect.rs:271`) can take the dead
  session out of `current` while the supervisor is opening a new one, which is then
  adopted (`reconnect.rs:306`), although the handle should be inert.
* *First output of a shell.* Output that arrives before `pump` subscribes
  (`interactive.rs:146`) is not shown, while "everything the agent sends is written
  straight to stdout" (`interactive.rs:14-15`).
* *Last output of a shell.* Output and close that come between two polls of one round of
  the select (`interactive.rs:148-180`) end the shell with that output unshown, and so
  does a `send` that fails because the session closed (`interactive.rs:163`).
* *Input behind output.* The select is biased towards output; a session whose output never
  pauses takes no key, no resize and no end of input. An instance has finite output.
* *Resize at the start.* A resize between the initial size (`interactive.rs:117`) and the
  watcher's first read (`terminal.rs:202`) is not forwarded until the next one.
* *Clean before drained.* `send_task` of the multiplexer may see the session's end
  and close (`mux.rs:335`) while `recv_task` still has output to route; readers then
  see an end of file before data that had arrived, with the reason `Clean`, although
  only that one "means the byte stream was complete" (`mux.rs:517`).
* *No latch in `recv_task`.* A close notified while it is between two selects is
  missed (`mux.rs:229`), and the task waits on until the session's output ends.
  `TasksStop` is therefore about the other two tasks.
* *Multiplexer closed alone.* The forwarder watches the session, not the
  multiplexer. If that loses its framing, the listener goes on accepting
  connections that fail at once.
* *Client that stops reading.* The write towards it waits without a timeout
  (`port_forward.rs:272`), and its task keeps the permit until the client goes, the
  session ends or the forwarder is stopped.
* *Start in flight at shutdown.* `SessionPool::shutdown` leaves no mark, so a start
  that was under way puts its session into the drained map.
* *Left to AWS.* A session whose channel broke before `terminate`, a `Session` dropped
  without `terminate` (`session.rs:524-525`, as documented), and a StartSession response
  without URL or token are not released; `NoneForgotten` names them.

## 6. Not modelled

* The command queue between `dispatch` and `send_payload`, and `attach`: `Outbound`
  starts where a payload is taken from that queue.
* AES-GCM, KMS, SigV4 and TLS: which key or signature is used when is modelled,
  the algorithms are external. JSON bodies, URLs, logging and metrics.
* The values of timers and the back-off: models let a timer fire whenever it is
  armed. The length of the retransmission timeout is in `OutboundRtt`, but an entry may be
  overdue at any time.
* Events and the generation counter of the reconnecting session, and the order of
  chunks across the pumps of two sessions.
* How smux frames are cut out of chunks, and the smux header.
* Documents, builder, errors and metrics: data, construction and reporting. The
  Python bindings: conversions around the same calls. OS signal handlers.
