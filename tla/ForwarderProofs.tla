--------------------------- MODULE ForwarderProofs ---------------------------
(***************************************************************************)
(* Proofs about PortForwarder, for any number of clients, any limit and    *)
(* any amount of data: permits are neither lost nor created, and a         *)
(* connection that ends well has carried everything both ways, and nothing *)
(* is left open without an owner.                                          *)
(***************************************************************************)
EXTENDS Forwarder, FiniteSetTheorems, TLAPS

-----------------------------------------------------------------------------
(* Permits                                                                  *)

ConnStates == {"none", "backlog", "spawned", "open"} \cup Over

PermitInv ==
    /\ conn \in [Clients -> ConnStates]
    /\ permits \in Nat
    /\ PermitsBalance

(* A step leaves the set of running connections alone, or starts one for a  *)
(* permit it takes, or ends one and returns its permit.                     *)
LEMMA RunningSteps ==
    ASSUME PermitInv, [Next]_vars
    PROVE  /\ conn' \in [Clients -> ConnStates]
           /\ \/ Running' = Running /\ permits' = permits
              \/ \E c \in Clients \ Running :
                   Running' = Running \cup {c} /\ permits > 0 /\ permits' = permits - 1
              \/ \E c \in Running : Running' = Running \ {c} /\ permits' = permits + 1
<1> USE DEF PermitInv, Running, ConnStates, Over
<1>1. ASSUME NEW result, ForwardReturns(result)
      PROVE  conn' \in [Clients -> ConnStates] /\ Running' = Running
  BY <1>1, Zenon DEF ForwardReturns
<1>2. ASSUME NEW c \in Clients, NEW result \in Over, conn[c] \in {"spawned", "open"},
             ConnectionOver(c, result)
      PROVE  /\ conn' \in [Clients -> ConnStates]
             /\ c \in Running /\ Running' = Running \ {c} /\ permits' = permits + 1
  BY <1>2, Zenon DEF ConnectionOver, Released
<1>3. CASE UNCHANGED <<conn, permits>>
  BY <1>3, Zenon
<1>4. CASE ForwardRefuses \/ ForwardStopped \/ WaitFails \/ SessionEnded \/ AcceptFails
  BY <1>1, <1>4, Zenon DEF ForwardRefuses, ForwardStopped, WaitFails, SessionEnded, AcceptFails
<1>5. CASE ForwardStarts \/ WaitReady \/ SessionReady \/ SessionCloses \/ MuxCloses \/ Shutdown
  BY <1>3, <1>5, Zenon DEF ForwardStarts, WaitReady, SessionReady, SessionCloses, MuxCloses, Shutdown,
     forwardVars
<1>6. ASSUME NEW c \in Clients, Accept(c)
      PROVE  /\ conn' \in [Clients -> ConnStates]
             /\ c \in Clients \ Running /\ Running' = Running \cup {c}
             /\ permits > 0 /\ permits' = permits - 1
  BY <1>6, Zenon DEF Accept, Accepts, FreePermit
<1>7. ASSUME NEW c \in Clients, Refuse(c) \/ Connect(c) \/ OpenStream(c)
      PROVE  conn' \in [Clients -> ConnStates] /\ Running' = Running /\ permits' = permits
  BY <1>7, Zenon DEF Refuse, Accepts, Connect, OpenStream, forwardVars
<1>8. ASSUME NEW c \in Clients, OpenFails(c) \/ Cancelled(c) \/ Finish(c)
      PROVE  /\ conn' \in [Clients -> ConnStates]
             /\ c \in Running /\ Running' = Running \ {c} /\ permits' = permits + 1
  BY <1>2, <1>8, Zenon DEF OpenFails, Cancelled, Finish
<1>9. ASSUME NEW c \in Clients,
             \/ OutboundCopy(c) \/ OutboundEof(c) \/ OutboundFails(c) \/ OutboundShutdown(c)
             \/ InboundCopy(c) \/ InboundFails(c) \/ InboundEof(c) \/ InboundShutdown(c)
             \/ ClientSends(c) \/ ClientHalfCloses(c) \/ ClientStopsReading(c)
             \/ ClientResets(c) \/ RemoteReplies(c) \/ RemoteFinishes(c)
      PROVE  UNCHANGED <<conn, permits>>
  BY <1>9, Zenon DEF OutboundCopy, OutboundEof, OutboundFails, OutboundShutdown, InboundCopy, InboundFails,
     InboundEof, InboundShutdown, ClientSends, ClientHalfCloses,
     ClientStopsReading, ClientResets, RemoteReplies,
     RemoteFinishes, forwardVars
<1>10. CASE UNCHANGED vars
  BY <1>3, <1>10, Zenon DEF vars, forwardVars
<1> HIDE DEF PermitInv, Running, ConnStates, Over
<1> QED
  BY <1>3, <1>4, <1>5, <1>6, <1>7, <1>8, <1>9, <1>10, Zenon DEF Next, Serve

(* So the balance is kept.                                                  *)
LEMMA PermitStep == PermitInv /\ [Next]_vars => PermitInv'
<1> SUFFICES ASSUME PermitInv, [Next]_vars PROVE PermitInv'
  OBVIOUS
<1>1. IsFiniteSet(Running)
  BY ForwarderAssumption, FS_Subset, Zenon DEF Running
<1>2. Cardinality(Running) \in Nat /\ permits \in Nat /\ max_connections \in Nat
  BY <1>1, FS_CardinalityType, ForwarderAssumption, Zenon DEF PermitInv
<1>3. ASSUME NEW c \in Clients \ Running, Running' = Running \cup {c}
      PROVE  Cardinality(Running') = Cardinality(Running) + 1
  BY <1>1, <1>3, FS_AddElement, Zenon
<1>4. ASSUME NEW c \in Running, Running' = Running \ {c}
      PROVE  Cardinality(Running') = Cardinality(Running) - 1
  BY <1>1, <1>4, FS_RemoveElement, Zenon
<1>5. /\ conn' \in [Clients -> ConnStates]
      /\ \/ Running' = Running /\ permits' = permits
         \/ \E c \in Clients \ Running :
              Running' = Running \cup {c} /\ permits > 0 /\ permits' = permits - 1
         \/ \E c \in Running : Running' = Running \ {c} /\ permits' = permits + 1
  BY RunningSteps, Zenon
<1>6. CASE Running' = Running /\ permits' = permits
  BY <1>5, <1>6, Zenon DEF PermitInv, PermitsBalance
<1>7. ASSUME NEW c \in Clients \ Running, Running' = Running \cup {c}, permits > 0,
             permits' = permits - 1
      PROVE  PermitInv'
  <2>1. Cardinality(Running') = Cardinality(Running) + 1
    BY <1>3, <1>7, Zenon
  <2> QED
    BY <1>2, <1>5, <1>7, <2>1 DEF PermitInv, PermitsBalance
<1>8. ASSUME NEW c \in Running, Running' = Running \ {c}, permits' = permits + 1
      PROVE  PermitInv'
  <2>1. Cardinality(Running') = Cardinality(Running) - 1
    BY <1>4, <1>8, Zenon
  <2> QED
    BY <1>2, <1>5, <1>8, <2>1 DEF PermitInv, PermitsBalance
<1> QED
  BY <1>5, <1>6, <1>7, <1>8, Zenon

(* The invariant the theorems below rest on.                                *)
THEOREM PermitInvHolds == Spec => []PermitInv
<1>1. Init => PermitInv
  <2> SUFFICES ASSUME Init PROVE PermitInv
    OBVIOUS
  <2>1. Running = {}
    BY Zenon DEF Init, Running
  <2>2. Cardinality(Running) = 0
    BY <2>1, FS_EmptySet, Zenon
  <2> QED
    BY <2>2, ForwarderAssumption DEF Init, PermitInv, PermitsBalance, ConnStates
<1> QED
  BY <1>1, PermitStep, PTL DEF Spec

(* A permit is out for every connection that is being served and for no     *)
(* other, on every path of forward_connection.                              *)
THEOREM PermitsAlwaysBalance == Spec => []PermitsBalance
<1>1. PermitInv => PermitsBalance
  BY Zenon DEF PermitInv
<1> QED
  BY <1>1, PermitInvHolds, PTL

-----------------------------------------------------------------------------
(* What a connection carries                                                *)

StreamType ==
    /\ conn \in [Clients -> ConnStates]
    /\ outbound \in [Clients -> Pump] /\ inbound \in [Clients -> Pump]
    /\ client \in [Clients -> {"open", "half", "gone"}]
    /\ queue \in [Clients -> Nat]
    /\ asked \in [Clients -> Nat] /\ passed \in [Clients -> Nat]
    /\ replied \in [Clients -> Nat] /\ returned \in [Clients -> Nat]

(* Nothing has happened on a connection whose stream is not open.           *)
Untouched(c) ==
    /\ outbound[c] = "copy" /\ inbound[c] = "copy"
    /\ asked[c] = 0 /\ passed[c] = 0 /\ replied[c] = 0 /\ returned[c] = 0 /\ queue[c] = 0

(* A pump past its copy has passed everything on and will be given no more; *)
(* unless the multiplexer closes or evicts the stream, every piece of the   *)
(* reply is with the client or in the queue.                                *)
Carried(c) ==
    /\ outbound[c] \in {"shutdown", "ok"} => client[c] # "open" /\ passed[c] = asked[c]
    /\ outbound[c] = "ok" /\ mux = "open" => c \in finSent
    /\ mux = "open" /\ c \notin evicted =>
         /\ returned[c] + queue[c] = replied[c]
         /\ inbound[c] \in {"shutdown", "ok"} => c \in finished /\ queue[c] = 0

(* The multiplexer is opened once, before there is any stream.              *)
MuxInv ==
    /\ fwd \in {"bound", "wait"} => mux = "none"
    /\ \A c \in Clients : conn[c] = "open" => mux # "none"

StreamInv ==
    /\ StreamType
    /\ MuxInv
    /\ \A c \in Clients : IF conn[c] = "open" THEN Carried(c) ELSE Untouched(c)

(* What forward does on its own keeps it.                                   *)
LEMMA ForwardKeepsStreams ==
    ASSUME StreamInv,
           \/ ForwardStarts \/ ForwardRefuses \/ ForwardStopped \/ WaitReady \/ WaitFails
           \/ SessionEnded \/ AcceptFails
           \/ SessionReady \/ SessionCloses \/ MuxCloses \/ Shutdown
    PROVE  StreamInv'
<1> USE DEF StreamInv, StreamType, MuxInv, Carried, Untouched, ConnStates, Over, pumpVars, clientVars,
            remoteVars, sessionVars, forwardVars
<1>1. ASSUME NEW result \in {"ok", "error"}, ForwardReturns(result),
             UNCHANGED <<pumpVars, clientVars, remoteVars>>
      PROVE  StreamInv'
  BY <1>1, Zenon DEF ForwardReturns, MuxAfter
<1>2. CASE ForwardRefuses \/ ForwardStopped \/ WaitFails \/ SessionEnded \/ AcceptFails
  BY <1>1, <1>2, Zenon DEF ForwardRefuses, ForwardStopped, WaitFails, SessionEnded, AcceptFails
<1>3. CASE ForwardStarts
  BY <1>3, Zenon DEF ForwardStarts
<1>4. CASE WaitReady
  BY <1>4, Zenon DEF WaitReady
<1>5. CASE SessionReady \/ SessionCloses \/ Shutdown
  BY <1>5 DEF SessionReady, SessionCloses, Shutdown
<1>6. CASE MuxCloses
  BY <1>6, Zenon DEF MuxCloses
<1> QED
  BY <1>2, <1>3, <1>4, <1>5, <1>6, Zenon

(* So does the beginning and the end of a connection.                       *)
LEMMA ConnectionKeepsStreams ==
    ASSUME StreamInv, NEW c \in Clients,
           \/ Accept(c) \/ Refuse(c) \/ Connect(c) \/ OpenStream(c)
           \/ OpenFails(c) \/ Cancelled(c) \/ Finish(c)
    PROVE  StreamInv'
<1> USE DEF StreamInv, StreamType, MuxInv, Carried, Untouched, ConnStates, Over, Pump, pumpVars,
            clientVars, remoteVars, sessionVars, forwardVars
<1>1. CASE Accept(c)
  BY <1>1 DEF Accept, Accepts
<1>2. CASE Refuse(c)
  BY <1>2 DEF Refuse, Accepts
<1>3. CASE Connect(c)
  BY <1>3 DEF Connect
<1>4. CASE OpenStream(c)
  BY <1>4 DEF OpenStream
<1>5. ASSUME NEW result \in Over, ConnectionOver(c, result) PROVE StreamInv'
  BY <1>5 DEF ConnectionOver, MuxAfter
<1>6. CASE OpenFails(c) \/ Cancelled(c) \/ Finish(c)
  BY <1>5, <1>6, Zenon DEF OpenFails, Cancelled, Finish
<1> QED
  BY <1>1, <1>2, <1>3, <1>4, <1>6, Zenon

(* So does every step of a pump.                                            *)
LEMMA PumpKeepsStreams ==
    ASSUME StreamInv, NEW c \in Clients,
           \/ OutboundCopy(c) \/ OutboundEof(c) \/ OutboundFails(c) \/ OutboundShutdown(c)
           \/ InboundCopy(c) \/ InboundFails(c) \/ InboundEof(c) \/ InboundShutdown(c)
    PROVE  StreamInv'
<1> USE DEF StreamInv, StreamType, MuxInv, Carried, Untouched, Pump, Pumping, PumpGoes, pumpVars,
            clientVars, remoteVars, sessionVars, forwardVars
<1>1. CASE OutboundCopy(c)
  BY <1>1 DEF OutboundCopy
<1>2. CASE OutboundEof(c)
  BY <1>2 DEF OutboundEof
<1>3. CASE OutboundFails(c)
  BY <1>3, Zenon DEF OutboundFails
<1>4. CASE OutboundShutdown(c)
  BY <1>4, Zenon DEF OutboundShutdown, PropagatedEof
<1>5. CASE InboundCopy(c)
  BY <1>5 DEF InboundCopy
<1>6. CASE InboundFails(c)
  BY <1>6, Zenon DEF InboundFails
<1>7. CASE InboundEof(c)
  BY <1>7 DEF InboundEof
<1>8. CASE InboundShutdown(c)
  BY <1>8, Zenon DEF InboundShutdown
<1> QED
  BY <1>1, <1>2, <1>3, <1>4, <1>5, <1>6, <1>7, <1>8, Zenon

(* And so does whatever the client and the server do.                       *)
LEMMA PeersKeepStreams ==
    ASSUME StreamInv, NEW c \in Clients,
           \/ ClientSends(c) \/ ClientHalfCloses(c) \/ ClientStopsReading(c)
           \/ ClientResets(c) \/ RemoteReplies(c) \/ RemoteFinishes(c)
    PROVE  StreamInv'
<1> USE DEF StreamInv, StreamType, MuxInv, Carried, Untouched, pumpVars, clientVars, remoteVars,
            sessionVars, forwardVars, Remote
<1>1. CASE ClientSends(c)
  BY <1>1 DEF ClientSends
<1>2. CASE ClientHalfCloses(c)
  BY <1>2, Zenon DEF ClientHalfCloses
<1>6. CASE ClientStopsReading(c)
  BY <1>6, Zenon DEF ClientStopsReading
<1>3. CASE ClientResets(c)
  BY <1>3, Zenon DEF ClientResets
<1>4. CASE RemoteReplies(c)
  BY <1>4 DEF RemoteReplies
<1>5. CASE RemoteFinishes(c)
  BY <1>5, Zenon DEF RemoteFinishes
<1> QED
  BY <1>1, <1>2, <1>3, <1>4, <1>5, <1>6, Zenon

(* Together, every step keeps what a connection has carried.                *)
LEMMA StreamStep == StreamInv /\ [Next]_vars => StreamInv'
<1> SUFFICES ASSUME StreamInv, [Next]_vars PROVE StreamInv'
  OBVIOUS
<1>1. CASE UNCHANGED vars
  BY <1>1, Zenon DEF vars, StreamInv, StreamType, MuxInv, Carried, Untouched, pumpVars, clientVars, remoteVars,
     sessionVars, forwardVars
<1> QED
  BY <1>1, ForwardKeepsStreams, ConnectionKeepsStreams, PumpKeepsStreams, PeersKeepStreams, Zenon
  DEF Next, Serve

(* Only Finish ends a connection well, and only with both pumps done.       *)
LEMMA DoneOnlyByFinish ==
    ASSUME StreamInv, [Next]_vars, NEW c \in Clients, conn[c] = "open", conn'[c] = "done"
    PROVE  outbound[c] = "ok" /\ inbound[c] = "ok"
<1> USE DEF StreamInv, StreamType
<1>1. CASE UNCHANGED conn
  BY <1>1, Zenon
<1>2. ASSUME NEW d \in Clients, Finish(d) PROVE outbound[c] = "ok" /\ inbound[c] = "ok"
  BY <1>2, Zenon DEF Finish, ConnectionOver, BothPumps
<1>3. ASSUME NEW d \in Clients, OpenFails(d) \/ Cancelled(d) \/ Accept(d) \/ Refuse(d) \/ Connect(d)
                                \/ OpenStream(d)
      PROVE  FALSE
  BY <1>3, Zenon DEF OpenFails, Cancelled, ConnectionOver, Accept, Refuse, Connect, OpenStream
<1>4. CASE ForwardRefuses \/ ForwardStopped \/ WaitFails \/ SessionEnded \/ AcceptFails
  BY <1>4, Zenon DEF ForwardRefuses, ForwardStopped, WaitFails, SessionEnded, AcceptFails, ForwardReturns
<1>5. CASE ForwardStarts \/ WaitReady \/ SessionReady \/ SessionCloses \/ MuxCloses \/ Shutdown
  BY <1>1, <1>5, Zenon DEF ForwardStarts, WaitReady, SessionReady, SessionCloses, MuxCloses, Shutdown
<1>6. ASSUME NEW d \in Clients,
             \/ OutboundCopy(d) \/ OutboundEof(d) \/ OutboundFails(d) \/ OutboundShutdown(d)
             \/ InboundCopy(d) \/ InboundFails(d) \/ InboundEof(d) \/ InboundShutdown(d)
             \/ ClientSends(d) \/ ClientHalfCloses(d) \/ ClientStopsReading(d)
             \/ ClientResets(d) \/ RemoteReplies(d) \/ RemoteFinishes(d)
      PROVE  UNCHANGED conn
  BY <1>6, Zenon DEF OutboundCopy, OutboundEof, OutboundFails, OutboundShutdown, InboundCopy, InboundFails,
     InboundEof, InboundShutdown, ClientSends, ClientHalfCloses,
     ClientStopsReading, ClientResets, RemoteReplies,
     RemoteFinishes
<1>7. CASE UNCHANGED vars
  BY <1>1, <1>7, Zenon DEF vars
<1> HIDE DEF StreamInv, StreamType
<1> QED
  BY <1>1, <1>2, <1>3, <1>4, <1>5, <1>6, <1>7, Zenon DEF Next, Serve

(* A connection that ends well, with the multiplexer up and its stream not  *)
(* evicted, has carried the whole request with its end, and the whole       *)
(* reply, also when the client closed its direction first.                  *)
THEOREM HalfCloseSafe == Spec => HalfCloseKeepsReply
<1>1. Init => StreamInv
  BY DEF Init, StreamInv, StreamType, MuxInv, Untouched, ConnStates, Pump
<1>2. StreamInv /\ [Next]_vars =>
        [\A c \in Clients :
          conn[c] = "open" /\ conn'[c] = "done" /\ mux = "open" /\ c \notin evicted =>
              /\ passed[c] = asked[c] /\ c \in finSent
              /\ c \in finished /\ returned[c] = replied[c]]_vars
  BY DoneOnlyByFinish DEF StreamInv, StreamType, Carried
<1> QED
  BY <1>1, <1>2, StreamStep, PTL DEF Spec, HalfCloseKeepsReply

-----------------------------------------------------------------------------
(* What outlives forward                                                    *)

(* A forward that returns Ok has told every connection to stop; none is     *)
(* left unaccepted once it has returned; and the multiplexer is open only   *)
(* as long as forward or a connection holds it.                             *)
NothingLeftBehind ==
    /\ fwd = "ok" => triggered
    /\ Returned => \A c \in Clients : conn[c] # "backlog"
    /\ mux = "open" => fwd = "loop" \/ (Returned /\ Running # {})

(* Before wait_ready there is no multiplexer, and nothing is served.        *)
HolderInv ==
    /\ NothingLeftBehind
    /\ fwd \in {"bound", "wait", "loop", "ok", "error"}
    /\ mux \in {"none", "open", "closed"}
    /\ fwd \in {"bound", "wait"} => mux = "none" /\ Running = {}

(* forward returns: the listener and one Arc of the multiplexer go with it. *)
LEMMA HolderReturns ==
    ASSUME PermitInv, HolderInv, NEW result \in {"ok", "error"}, ForwardReturns(result),
           result = "ok" => triggered'
    PROVE  HolderInv'
<1>1. Running' = Running /\ \A c \in Clients : conn'[c] # "backlog"
  BY Zenon DEF ForwardReturns, Running, PermitInv
<1>2. Returned' /\ fwd' = result
  BY Zenon DEF ForwardReturns, Returned
<1>3. mux' \in {"none", "open", "closed"} /\ (mux' = "open" => Running # {})
  BY Zenon DEF ForwardReturns, MuxAfter, HolderInv
<1> QED
  BY <1>1, <1>2, <1>3, Zenon DEF HolderInv, NothingLeftBehind

(* A connection ends, and with the last one the multiplexer, if forward has *)
(* returned.                                                                *)
LEMMA HolderConnectionOver ==
    ASSUME PermitInv, HolderInv, NEW c \in Clients, NEW result \in Over,
           conn[c] \in {"spawned", "open"}, ConnectionOver(c, result)
    PROVE  HolderInv'
<1>1. /\ Running' = Running \ {c} /\ c \in Running
      /\ \A d \in Clients : conn'[d] = "backlog" => conn[d] = "backlog"
  BY Zenon DEF ConnectionOver, Running, PermitInv, Over
<1>2. UNCHANGED <<fwd, triggered>> /\ mux' = MuxAfter(Returned, Running')
  BY <1>1, Zenon DEF ConnectionOver
<1>3. /\ mux' \in {"none", "open", "closed"}
      /\ mux' = "open" => mux = "open" /\ (Returned => Running' # {})
      /\ mux' = "none" <=> mux = "none"
  BY <1>2, Zenon DEF MuxAfter, HolderInv
<1> QED
  BY <1>1, <1>2, <1>3, Zenon DEF HolderInv, NothingLeftBehind, Returned

(* The steps of forward, and those that accept or refuse a connection.      *)
LEMMA HolderForward ==
    ASSUME PermitInv, HolderInv,
           \/ ForwardStarts \/ ForwardRefuses \/ ForwardStopped \/ WaitReady \/ WaitFails
           \/ SessionEnded \/ AcceptFails
           \/ \E c \in Clients : Accept(c) \/ Refuse(c) \/ Connect(c) \/ OpenStream(c)
    PROVE  HolderInv'
<1>1. CASE ForwardRefuses \/ WaitFails \/ AcceptFails
  BY <1>1, HolderReturns, Zenon DEF ForwardRefuses, WaitFails, AcceptFails
<1>2. CASE ForwardStopped \/ SessionEnded
  <2>1. ForwardReturns("ok")
    BY <1>2, Zenon DEF ForwardStopped, SessionEnded
  <2>2. triggered'
    BY <1>2 DEF ForwardStopped, SessionEnded, TellsAll
  <2> QED
    BY <2>1, <2>2, HolderReturns, Zenon
<1>3. CASE ForwardStarts \/ WaitReady
  BY <1>3, Zenon DEF ForwardStarts, WaitReady, HolderInv, NothingLeftBehind, Returned, Running,
     sessionVars
<1>4. ASSUME NEW c \in Clients, Accept(c) PROVE HolderInv'
  <2>1. /\ fwd = "loop" /\ UNCHANGED <<fwd, mux, triggered>>
    BY <1>4, Zenon DEF Accept, Accepts, sessionVars
  <2> QED
    BY <2>1, Zenon DEF HolderInv, NothingLeftBehind, Returned
<1>5. ASSUME NEW c \in Clients, Refuse(c) PROVE HolderInv'
  <2>1. /\ fwd = "loop" /\ UNCHANGED <<fwd, mux, triggered>>
    BY <1>5, Zenon DEF Refuse, Accepts, sessionVars, forwardVars
  <2> QED
    BY <2>1, Zenon DEF HolderInv, NothingLeftBehind, Returned
<1>6. ASSUME NEW c \in Clients, Connect(c) PROVE HolderInv'
  <2>1. /\ ~Returned /\ UNCHANGED <<fwd, mux, triggered>> /\ Running' = Running
    BY <1>6, Zenon DEF Connect, sessionVars, forwardVars, Running, PermitInv
  <2> QED
    BY <2>1, Zenon DEF HolderInv, NothingLeftBehind, Returned
<1>7. ASSUME NEW c \in Clients, OpenStream(c) PROVE HolderInv'
  <2>1. /\ UNCHANGED <<fwd, mux, triggered>> /\ Running' = Running
        /\ \A d \in Clients : conn'[d] = "backlog" => conn[d] = "backlog"
    BY <1>7, Zenon DEF OpenStream, sessionVars, forwardVars, Running, PermitInv
  <2> QED
    BY <2>1, Zenon DEF HolderInv, NothingLeftBehind, Returned
<1> QED
  BY <1>1, <1>2, <1>3, <1>4, <1>5, <1>6, <1>7, Zenon

(* The tasks of the connections, the session, the clients and the server.   *)
LEMMA HolderOthers ==
    ASSUME PermitInv, HolderInv,
           \/ SessionReady \/ SessionCloses \/ MuxCloses \/ Shutdown
           \/ \E c \in Clients :
                \/ Serve(c) /\ ~OpenStream(c)
                \/ ClientSends(c) \/ ClientHalfCloses(c) \/ ClientStopsReading(c)
                \/ ClientResets(c) \/ RemoteReplies(c) \/ RemoteFinishes(c)
           \/ UNCHANGED vars
    PROVE  HolderInv'
<1>1. CASE UNCHANGED <<fwd, conn>> /\ (triggered => triggered') /\ (mux' = mux \/ (mux = "open" /\ mux' = "closed"))
  BY <1>1, Zenon DEF HolderInv, NothingLeftBehind, Returned, Running
<1>2. CASE SessionReady \/ SessionCloses \/ MuxCloses \/ Shutdown
  BY <1>1, <1>2, Zenon DEF SessionReady, SessionCloses, MuxCloses, Shutdown, forwardVars
<1>3. ASSUME NEW c \in Clients, OpenFails(c) \/ Cancelled(c) \/ Finish(c) PROVE HolderInv'
  BY <1>3, HolderConnectionOver, Zenon DEF OpenFails, Cancelled, Finish, Over
<1>4. ASSUME NEW c \in Clients,
             \/ OutboundCopy(c) \/ OutboundEof(c) \/ OutboundFails(c) \/ OutboundShutdown(c)
             \/ InboundCopy(c) \/ InboundFails(c) \/ InboundEof(c) \/ InboundShutdown(c)
             \/ ClientSends(c) \/ ClientHalfCloses(c) \/ ClientStopsReading(c)
             \/ ClientResets(c) \/ RemoteReplies(c) \/ RemoteFinishes(c)
      PROVE  HolderInv'
  BY <1>1, <1>4, Zenon DEF OutboundCopy, OutboundEof, OutboundFails, OutboundShutdown,
     InboundCopy, InboundFails, InboundEof, InboundShutdown, ClientSends, ClientHalfCloses,
     ClientStopsReading, ClientResets, RemoteReplies, RemoteFinishes, forwardVars, sessionVars
<1>5. CASE UNCHANGED vars
  BY <1>1, <1>5, Zenon DEF vars, forwardVars, sessionVars
<1> QED
  BY <1>2, <1>3, <1>4, <1>5, Zenon DEF Serve

(* The safety half of TunnelStops, for any number of clients and any limit. *)
THEOREM ForwardLeavesNothing == Spec => []NothingLeftBehind
<1>1. Init => HolderInv
  BY Zenon DEF Init, HolderInv, NothingLeftBehind, Returned, Running
<1>2. PermitInv /\ HolderInv /\ [Next]_vars => HolderInv'
  BY HolderForward, HolderOthers, Zenon DEF Next, Serve
<1>3. HolderInv => NothingLeftBehind
  BY Zenon DEF HolderInv
<1> QED
  BY <1>1, <1>2, <1>3, PermitInvHolds, PTL DEF Spec
=============================================================================
