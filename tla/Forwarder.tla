----------------------------- MODULE Forwarder -----------------------------
(***************************************************************************)
(* PortForwarder: the accept loop, its connection limit, and one task per  *)
(* accepted connection, which copies both directions between a TCP socket  *)
(* and a stream of the multiplexer, each half-closed on its own.           *)
(*                                                                         *)
(* The multiplexer is reduced to what module Mux shows of it: a stream     *)
(* reads what was queued for it and then end of file, once the agent has   *)
(* closed the stream, or the queue has overflowed, or the multiplexer has  *)
(* closed; a write fails once it has closed.  It closes when the session   *)
(* does, but also on its own, when its framing is lost.  A piece of data   *)
(* is counted, not told apart.                                             *)
(***************************************************************************)
EXTENDS Integers, FiniteSets

CONSTANTS
    Clients,         \* the TCP clients that ever connect
    max_connections, \* PortForwardConfig::max_connections
    StreamDepth,     \* STREAM_QUEUE_DEPTH of the multiplexer
    MaxRequest,      \* bound: pieces a client sends
    MaxReply         \* bound: pieces the remote server sends

ASSUME ForwarderAssumption ==
    /\ IsFiniteSet(Clients)
    /\ max_connections \in Nat /\ StreamDepth \in Nat \ {0}
    /\ MaxRequest \in Nat /\ MaxReply \in Nat

VARIABLES
    \* the session, the shutdown signal, the multiplexer
    kind,       \* session_type
    session,
    triggered,  \* the latch of the ShutdownSignal
    mux,
    \* forward
    fwd,
    permits,    \* free permits of the Semaphore
    \* forward_connection
    conn,
    outbound,   \* pump(tcp_read, mux_write)
    inbound,    \* pump(mux_read, tcp_write)
    queue,      \* what the stream has queued for mux_read
    evicted,    \* the streams whose queue has overflowed
    \* the TCP client
    client,     \* "open", "half" (it has closed its direction) or "gone"
    deaf,       \* the clients that read no more, with their sockets full
    asked,      \* pieces it has written
    returned,   \* pieces it has been given
    \* the remote server
    passed,     \* pieces of the request sent to it
    finSent,    \* it has been told that the request is complete
    replied,    \* pieces it has sent
    finished    \* it has closed its direction

sessionVars == <<kind, session, triggered, mux>>
forwardVars == <<fwd, permits>>
pumpVars == <<outbound, inbound, queue, evicted>>
clientVars == <<client, deaf, asked, returned>>
remoteVars == <<passed, finSent, replied, finished>>
vars == <<sessionVars, forwardVars, conn, pumpVars, clientVars, remoteVars>>

Pump == {"copy", "shutdown", "ok", "error"}
Over == {"refused", "failed", "done", "cancelled"}
Running == {c \in Clients : conn[c] \in {"spawned", "open"}}
Returned == fwd \in {"ok", "error"}

TypeOK ==
    /\ kind \in {"Port", "Shell"} /\ triggered \in BOOLEAN
    /\ session \in {"starting", "ready", "closed"}
    /\ mux \in {"none", "open", "closed"}
    /\ fwd \in {"bound", "wait", "loop", "ok", "error"}
    /\ permits \in 0..max_connections
    /\ conn \in [Clients -> {"none", "backlog", "spawned", "open"} \cup Over]
    /\ outbound \in [Clients -> Pump] /\ inbound \in [Clients -> Pump]
    /\ queue \in [Clients -> 0..StreamDepth] /\ evicted \in SUBSET Clients
    /\ client \in [Clients -> {"open", "half", "gone"}] /\ deaf \in SUBSET Clients
    /\ asked \in [Clients -> 0..MaxRequest] /\ passed \in [Clients -> 0..MaxRequest]
    /\ replied \in [Clients -> 0..MaxReply] /\ returned \in [Clients -> 0..MaxReply]
    /\ finSent \in SUBSET Clients /\ finished \in SUBSET Clients

(* PortForwarder::bind has claimed the port: from here on the kernel takes  *)
(* connections, whether or not anything accepts them.                       *)
Init ==
    /\ kind \in {"Port", "Shell"} /\ session = "starting" /\ triggered = FALSE
    /\ mux = "none"
    /\ fwd = "bound" /\ permits = max_connections
    /\ conn = [c \in Clients |-> "none"]
    /\ outbound = [c \in Clients |-> "copy"] /\ inbound = [c \in Clients |-> "copy"]
    /\ queue = [c \in Clients |-> 0] /\ evicted = {}
    /\ client = [c \in Clients |-> "open"] /\ deaf = {}
    /\ asked = [c \in Clients |-> 0] /\ returned = [c \in Clients |-> 0]
    /\ passed = [c \in Clients |-> 0] /\ finSent = {}
    /\ replied = [c \in Clients |-> 0] /\ finished = {}

(* The multiplexer closes with the last Arc of it: forward holds one, and   *)
(* so does every running connection.                                        *)
MuxAfter(over, running) == IF mux = "open" /\ over /\ running = {} THEN "closed" ELSE mux

-----------------------------------------------------------------------------
(* forward                                                                  *)

(* The listener goes with forward, and what it had not accepted is reset.   *)
ForwardReturns(result) ==
    /\ fwd' = result
    /\ conn' = [c \in Clients |-> IF conn[c] = "backlog" THEN "refused" ELSE conn[c]]
    /\ mux' = MuxAfter(TRUE, Running)

ForwardStarts ==
    /\ fwd = "bound" /\ kind = "Port"
    /\ fwd' = "wait"
    /\ UNCHANGED <<sessionVars, permits, conn, pumpVars, clientVars, remoteVars>>

ForwardRefuses ==
    /\ fwd = "bound" /\ kind # "Port"
    /\ ForwardReturns("error")
    /\ UNCHANGED <<kind, session, triggered, permits, pumpVars, clientVars, remoteVars>>

(* Both selects look at the shutdown signal first.                          *)
ForwardStopped ==
    /\ fwd \in {"wait", "loop"} /\ triggered
    /\ ForwardReturns("ok")
    /\ UNCHANGED <<kind, session, triggered, permits, pumpVars, clientVars, remoteVars>>

(* wait_ready, then SmuxSession::new.                                       *)
WaitReady ==
    /\ fwd = "wait" /\ ~triggered /\ session = "ready"
    /\ fwd' = "loop" /\ mux' = "open"
    /\ UNCHANGED <<kind, session, triggered, permits, conn, pumpVars, clientVars, remoteVars>>

(* The session has closed, or its handshake takes too long.                 *)
WaitFails ==
    /\ fwd = "wait" /\ ~triggered /\ session # "ready"
    /\ ForwardReturns("error")
    /\ UNCHANGED <<kind, session, triggered, permits, pumpVars, clientVars, remoteVars>>

(* The connections are told that the session has ended.  Mutant: they are   *)
(* left to find out.                                                        *)
TellsNone == triggered
TellsAll == TRUE

SessionEnded ==
    /\ fwd = "loop" /\ ~triggered /\ session = "closed"
    /\ triggered' = TellsAll
    /\ ForwardReturns("ok")
    /\ UNCHANGED <<kind, session, permits, pumpVars, clientVars, remoteVars>>

Accepts(c) == fwd = "loop" /\ ~triggered /\ session # "closed" /\ conn[c] = "backlog"

(* try_acquire_owned.                                                       *)
FreePermit == permits > 0

Accept(c) ==
    /\ Accepts(c)
    /\ FreePermit
    /\ permits' = permits - 1
    /\ conn' = [conn EXCEPT ![c] = "spawned"]
    /\ UNCHANGED <<sessionVars, fwd, pumpVars, clientVars, remoteVars>>

Refuse(c) ==
    /\ Accepts(c)
    /\ ~FreePermit
    /\ conn' = [conn EXCEPT ![c] = "refused"]
    /\ UNCHANGED <<sessionVars, forwardVars, pumpVars, clientVars, remoteVars>>

(* The running connections are not told.                                    *)
AcceptFails ==
    /\ fwd = "loop" /\ ~triggered /\ session # "closed"
    /\ ForwardReturns("error")
    /\ UNCHANGED <<kind, session, triggered, permits, pumpVars, clientVars, remoteVars>>

-----------------------------------------------------------------------------
(* forward_connection                                                       *)

(* The permit goes with the task, whatever its result.  Mutant: only a      *)
(* connection that is finished gives it back.                               *)
ReleasedIfDone(result) == IF result = "done" THEN 1 ELSE 0
Released(result) == 1

(* The task ends, and with it the socket and the stream.                    *)
ConnectionOver(c, result) ==
    /\ conn' = [conn EXCEPT ![c] = result]
    /\ permits' = permits + Released(result)
    /\ mux' = MuxAfter(Returned, Running \ {c})
    /\ outbound' = [outbound EXCEPT ![c] = "copy"] /\ inbound' = [inbound EXCEPT ![c] = "copy"]
    /\ queue' = [queue EXCEPT ![c] = 0] /\ evicted' = evicted \ {c}
    /\ client' = [client EXCEPT ![c] = "open"] /\ deaf' = deaf \ {c}
    /\ asked' = [asked EXCEPT ![c] = 0] /\ returned' = [returned EXCEPT ![c] = 0]
    /\ passed' = [passed EXCEPT ![c] = 0] /\ replied' = [replied EXCEPT ![c] = 0]
    /\ finSent' = finSent \ {c} /\ finished' = finished \ {c}
    /\ UNCHANGED <<kind, session, triggered, fwd>>

(* open_stream: its frame queue has room for the SYN.                       *)
OpenStream(c) ==
    /\ conn[c] = "spawned" /\ mux = "open"
    /\ conn' = [conn EXCEPT ![c] = "open"]
    /\ UNCHANGED <<sessionVars, forwardVars, pumpVars, clientVars, remoteVars>>

(* The multiplexer is closed, or its frame queue is full.                   *)
OpenFails(c) ==
    /\ conn[c] = "spawned"
    /\ ConnectionOver(c, "failed")

Cancelled(c) ==
    /\ conn[c] = "open" /\ triggered
    /\ ConnectionOver(c, "cancelled")

(* The select is done with both directions.  Mutant: with either.           *)
EitherPump(c) == {outbound[c], inbound[c]} \cap {"ok", "error"} # {}
BothPumps(c) == {outbound[c], inbound[c]} \subseteq {"ok", "error"}

Finish(c) ==
    /\ conn[c] = "open" /\ ~triggered
    /\ BothPumps(c)
    /\ ConnectionOver(c, IF "error" \in {outbound[c], inbound[c]} THEN "failed" ELSE "done")

(* The steps of the two pumps.                                              *)
Pumping(c, p, pc) == conn[c] = "open" /\ ~triggered /\ p[c] = pc
PumpGoes(c, p, pc) == p' = [p EXCEPT ![c] = pc]

OutboundCopy(c) ==
    /\ Pumping(c, outbound, "copy")
    /\ client[c] # "gone" /\ passed[c] < asked[c] /\ mux = "open"
    /\ passed' = [passed EXCEPT ![c] = @ + 1]
    /\ UNCHANGED <<sessionVars, forwardVars, conn, pumpVars, clientVars, finSent, replied, finished>>

OutboundEof(c) ==
    /\ Pumping(c, outbound, "copy")
    /\ client[c] = "half" /\ passed[c] = asked[c]
    /\ PumpGoes(c, outbound, "shutdown")
    /\ UNCHANGED <<sessionVars, forwardVars, conn, inbound, queue, evicted, clientVars, remoteVars>>

(* The socket was reset, or the stream takes no more: copy's error leaves   *)
(* the writer as it is.                                                     *)
OutboundFails(c) ==
    /\ Pumping(c, outbound, "copy")
    /\ client[c] = "gone" \/ (passed[c] < asked[c] /\ mux = "closed")
    /\ PumpGoes(c, outbound, "error")
    /\ UNCHANGED <<sessionVars, forwardVars, conn, inbound, queue, evicted, clientVars, remoteVars>>

(* poll_shutdown of the stream: on a closed multiplexer it does nothing.    *)
(* Mutant: the end of the request is not propagated.                        *)
KeptEof(c) == finSent
PropagatedEof(c) == IF mux = "open" THEN finSent \cup {c} ELSE finSent

OutboundShutdown(c) ==
    /\ Pumping(c, outbound, "shutdown")
    /\ PumpGoes(c, outbound, "ok")
    /\ finSent' = PropagatedEof(c)
    /\ UNCHANGED <<sessionVars, forwardVars, conn, inbound, queue, evicted, clientVars,
                   passed, replied, finished>>

(* The write to the socket waits while the client does not read.            *)
InboundCopy(c) ==
    /\ Pumping(c, inbound, "copy")
    /\ queue[c] > 0 /\ client[c] # "gone" /\ c \notin deaf
    /\ queue' = [queue EXCEPT ![c] = @ - 1]
    /\ returned' = [returned EXCEPT ![c] = @ + 1]
    /\ UNCHANGED <<sessionVars, forwardVars, conn, outbound, inbound, evicted, client, deaf,
                   asked, remoteVars>>

InboundFails(c) ==
    /\ Pumping(c, inbound, "copy")
    /\ queue[c] > 0 /\ client[c] = "gone"
    /\ PumpGoes(c, inbound, "error")
    /\ UNCHANGED <<sessionVars, forwardVars, conn, outbound, queue, evicted, clientVars, remoteVars>>

InboundEof(c) ==
    /\ Pumping(c, inbound, "copy")
    /\ queue[c] = 0
    /\ c \in finished \/ c \in evicted \/ mux = "closed"
    /\ PumpGoes(c, inbound, "shutdown")
    /\ UNCHANGED <<sessionVars, forwardVars, conn, outbound, queue, evicted, clientVars, remoteVars>>

InboundShutdown(c) ==
    /\ Pumping(c, inbound, "shutdown")
    /\ PumpGoes(c, inbound, IF client[c] = "gone" THEN "error" ELSE "ok")
    /\ UNCHANGED <<sessionVars, forwardVars, conn, outbound, queue, evicted, clientVars, remoteVars>>

-----------------------------------------------------------------------------
(* The session, the multiplexer, the owner of the signal                    *)

SessionReady ==
    /\ session = "starting"
    /\ session' = "ready"
    /\ UNCHANGED <<kind, triggered, mux, forwardVars, conn, pumpVars, clientVars, remoteVars>>

SessionCloses ==
    /\ session # "closed"
    /\ session' = "closed"
    /\ UNCHANGED <<kind, triggered, mux, forwardVars, conn, pumpVars, clientVars, remoteVars>>

(* With the session, or alone: its output subscription was evicted, or what *)
(* it read is not a frame.                                                  *)
MuxCloses ==
    /\ mux = "open"
    /\ mux' = "closed"
    /\ UNCHANGED <<kind, session, triggered, forwardVars, conn, pumpVars, clientVars, remoteVars>>

(* ShutdownSignal::shutdown                                                 *)
Shutdown ==
    /\ ~triggered
    /\ triggered' = TRUE
    /\ UNCHANGED <<kind, session, mux, forwardVars, conn, pumpVars, clientVars, remoteVars>>

-----------------------------------------------------------------------------
(* The TCP client and the remote server                                     *)

Connect(c) ==
    /\ conn[c] = "none" /\ ~Returned
    /\ conn' = [conn EXCEPT ![c] = "backlog"]
    /\ UNCHANGED <<sessionVars, forwardVars, pumpVars, clientVars, remoteVars>>

(* What a client does before its stream is open is not seen before then.    *)
ClientSends(c) ==
    /\ conn[c] = "open" /\ client[c] = "open" /\ asked[c] < MaxRequest
    /\ asked' = [asked EXCEPT ![c] = @ + 1]
    /\ UNCHANGED <<sessionVars, forwardVars, conn, pumpVars, client, deaf, returned, remoteVars>>

ClientHalfCloses(c) ==
    /\ conn[c] = "open" /\ client[c] = "open"
    /\ client' = [client EXCEPT ![c] = "half"]
    /\ UNCHANGED <<sessionVars, forwardVars, conn, pumpVars, deaf, asked, returned, remoteVars>>

(* It keeps its socket and never reads it again, which is not seen before   *)
(* there is something to write to it.                                       *)
ClientStopsReading(c) ==
    /\ Pumping(c, inbound, "copy") /\ queue[c] > 0
    /\ client[c] # "gone" /\ c \notin deaf
    /\ deaf' = deaf \cup {c}
    /\ UNCHANGED <<sessionVars, forwardVars, conn, pumpVars, client, asked, returned, remoteVars>>

ClientResets(c) ==
    /\ conn[c] = "open" /\ client[c] # "gone"
    /\ client' = [client EXCEPT ![c] = "gone"]
    /\ UNCHANGED <<sessionVars, forwardVars, conn, pumpVars, deaf, asked, returned, remoteVars>>

Remote(c) == conn[c] = "open" /\ c \notin finished

(* What it sends is queued for the stream, unless the queue is full, which  *)
(* costs the stream its entry, or the entry is gone.                        *)
RemoteReplies(c) ==
    /\ Remote(c) /\ replied[c] < MaxReply
    /\ replied' = [replied EXCEPT ![c] = @ + 1]
    /\ LET routed == mux = "open" /\ c \notin evicted
           room == queue[c] < StreamDepth
       IN  /\ queue' = IF routed /\ room THEN [queue EXCEPT ![c] = @ + 1] ELSE queue
           /\ evicted' = IF routed /\ ~room THEN evicted \cup {c} ELSE evicted
    /\ UNCHANGED <<sessionVars, forwardVars, conn, outbound, inbound, clientVars,
                   passed, finSent, finished>>

RemoteFinishes(c) ==
    /\ Remote(c)
    /\ finished' = finished \cup {c}
    /\ UNCHANGED <<sessionVars, forwardVars, conn, pumpVars, clientVars, passed, finSent, replied>>

Serve(c) ==
    \/ OpenStream(c) \/ OpenFails(c) \/ Cancelled(c) \/ Finish(c)
    \/ OutboundCopy(c) \/ OutboundEof(c) \/ OutboundFails(c) \/ OutboundShutdown(c)
    \/ InboundCopy(c) \/ InboundFails(c) \/ InboundEof(c) \/ InboundShutdown(c)

Next ==
    \/ ForwardStarts \/ ForwardRefuses \/ ForwardStopped \/ WaitReady \/ WaitFails
    \/ SessionEnded \/ AcceptFails
    \/ SessionReady \/ SessionCloses \/ MuxCloses \/ Shutdown
    \/ \E c \in Clients :
          \/ Accept(c) \/ Refuse(c) \/ Serve(c)
          \/ Connect(c) \/ ClientSends(c) \/ ClientHalfCloses(c) \/ ClientStopsReading(c)
          \/ ClientResets(c)
          \/ RemoteReplies(c) \/ RemoteFinishes(c)

Spec == Init /\ [][Next]_vars

(* The tasks run; the multiplexer takes what a stream writes, and notices   *)
(* that the session is closed; a server that has been given a whole request *)
(* ends its reply.  Nothing makes a client finish or read, or the session   *)
(* end.                                                                     *)
Fairness ==
    /\ WF_vars(ForwardStarts \/ ForwardRefuses \/ ForwardStopped \/ SessionEnded)
    /\ WF_vars(MuxCloses /\ session = "closed")
    /\ \A c \in Clients :
          /\ WF_vars(Serve(c))
          /\ WF_vars(RemoteFinishes(c) /\ c \in finSent)

FairSpec == Spec /\ Fairness

-----------------------------------------------------------------------------

(* A permit is out for every connection that is being served and for no     *)
(* other, on every path on which one ends, so the limit neither leaks away  *)
(* nor is exceeded.                                                         *)
PermitsBalance == permits + Cardinality(Running) = max_connections

(* A connection that ends well carried everything both ways: the request    *)
(* and its end reached the server, and the whole reply reached the client,  *)
(* although the client had closed its own direction first.  That holds as   *)
(* long as the multiplexer is up and has not evicted the stream; both of    *)
(* those look like a clean end of file to the copy.                         *)
HalfCloseKeepsReply ==
    [][\A c \in Clients :
          conn[c] = "open" /\ conn'[c] = "done" /\ mux = "open" /\ c \notin evicted =>
              /\ passed[c] = asked[c] /\ c \in finSent
              /\ c \in finished /\ returned[c] = replied[c]]_vars

(* A client that ends its request, and neither resets the connection nor    *)
(* stops reading, has it taken down in the end, with the permit returned:   *)
(* the end of the request is passed on, and that of the reply is waited     *)
(* for.  (The write to a client that stops reading waits, permit in hand,   *)
(* until the session ends or the signal is given.)                          *)
RequestsEnd ==
    \A c \in Clients :
        (conn[c] = "open" /\ client[c] = "half") ~>
            (conn[c] \in Over \/ client[c] = "gone" \/ c \in deaf)

(* When the session of a forwarder that is accepting ends, or the signal is *)
(* given, forward returns and every connection stops, those of clients that *)
(* send nothing and close nothing included.                                 *)
TunnelStops ==
    (fwd = "loop" /\ (session = "closed" \/ triggered)) ~>
        (Returned /\ (fwd = "error" \/ Running = {}))

=============================================================================
