------------------------------- MODULE Manager -------------------------------
(***************************************************************************)
(* Opening and releasing sessions: SessionManager::start_session validates  *)
(* its configuration, asks AWS for a session and opens the data channel     *)
(* (endpoint policy, signed dial with retries, open message), and releases  *)
(* the AWS session when that fails; Session::terminate closes the channel   *)
(* and releases the AWS session.                                            *)
(*                                                                          *)
(* A call of start_session starts at most one session, so call and session  *)
(* share a name.                                                            *)
(***************************************************************************)
EXTENDS Integers, Sequences

CONSTANTS
    Calls,            \* bound: the calls of start_session
    Targets,
    ConnectAttempts   \* CONNECT_ATTEMPTS

ASSUME ManagerAssumption == ConnectAttempts \in Nat \ {0}

VARIABLES
    signer,    \* the manager has credentials and a region to sign with
    pc,        \* "idle", "request", "sign", "dial", "auth", "release", "own" or "failed"
    target,
    attempt,   \* of dial, from 1
    signed,    \* the attempt the upgrade request was signed for, or 0
    presigned, \* the stream URL carries a signature
    aws,       \* "none", "active" or "ended": the session as AWS has it
    session,   \* "none", "live" or "closed"
    ending,    \* Session::terminate: "no", "close", "call" or "done"
    leftover   \* history: why AWS still has the session, "none" if it should not

callVars == <<pc, target, attempt, signed, presigned>>
managerVars == <<signer, callVars, aws, session, ending, leftover>>

ManagerTypeOK ==
    /\ signer \in BOOLEAN
    /\ pc \in [Calls -> {"idle", "request", "sign", "dial", "auth", "release", "own", "failed"}]
    /\ target \in [Calls -> Targets]
    /\ attempt \in [Calls -> 0..ConnectAttempts]
    /\ signed \in [Calls -> 0..ConnectAttempts]
    /\ presigned \in [Calls -> BOOLEAN]
    /\ aws \in [Calls -> {"none", "active", "ended"}]
    /\ session \in [Calls -> {"none", "live", "closed"}]
    /\ ending \in [Calls -> {"no", "close", "call", "done"}]
    /\ leftover \in [Calls -> {"none", "incomplete", "refused", "disconnected", "dropped"}]

ManagerInit ==
    /\ signer \in BOOLEAN
    /\ pc = [c \in Calls |-> "idle"]
    /\ target \in [Calls -> Targets]
    /\ attempt = [c \in Calls |-> 0]
    /\ signed = [c \in Calls |-> 0]
    /\ presigned = [c \in Calls |-> FALSE]
    /\ aws = [c \in Calls |-> "none"]
    /\ session = [c \in Calls |-> "none"]
    /\ ending = [c \in Calls |-> "no"]
    /\ leftover = [c \in Calls |-> "none"]

-----------------------------------------------------------------------------
(* SessionConfig::validate, over the lengths and times it looks at; a       *)
(* reason of length -1 is left unset.                                       *)
MaxTargetChars == 400
MaxReasonChars == 256
MaxChunk == 10 * 1024 * 1024
ValidConfig(g) ==
    /\ g.target \in 1..MaxTargetChars
    /\ g.reason = -1 \/ g.reason \in 1..MaxReasonChars
    /\ g.chunk \in 1..MaxChunk
    /\ g.idle > g.heartbeat

(* Configurations at and just beyond each limit.                            *)
Good == [target |-> 400, reason |-> -1, chunk |-> 1024, heartbeat |-> 30, idle |-> 90]
Configs ==
    {Good, [Good EXCEPT !.target = 0], [Good EXCEPT !.target = 401],
     [Good EXCEPT !.reason = 0], [Good EXCEPT !.reason = 257],
     [Good EXCEPT !.chunk = 0], [Good EXCEPT !.chunk = MaxChunk + 1],
     [Good EXCEPT !.idle = 30]}

(* EndpointPolicy::validate: host is the sequence of its labels.            *)
EndsIn(host, suffix) ==
    /\ Len(host) > Len(suffix)
    /\ SubSeq(host, Len(host) - Len(suffix) + 1, Len(host)) = suffix
InAws(host) ==
    EndsIn(host, <<"amazonaws", "com">>) \/ EndsIn(host, <<"amazonaws", "com", "cn">>)
IsSsm(host) == \E i \in DOMAIN host : host[i] \in {"ssmmessages", "ssmmessages-fips"}
ValidEndpoint(policy, url) ==
    \/ policy = "AllowAny" /\ url.scheme \in {"ws", "wss"}
    \/ policy = "AwsOnly" /\ url.scheme = "wss" /\ InAws(url.host) /\ IsSsm(url.host)

(* Stream URLs (external), with the policy the session is opened under.     *)
Regional == <<"ssmmessages", "us-east-1", "amazonaws", "com">>
Endpoints ==
    {[policy |-> "AwsOnly", scheme |-> "wss", host |-> Regional, presigned |-> p] : p \in BOOLEAN}
    \cup {[policy |-> "AwsOnly", scheme |-> "ws", host |-> Regional, presigned |-> FALSE],
          [policy |-> "AwsOnly", scheme |-> "wss", host |-> <<"amazonaws", "com">>,
           presigned |-> FALSE],
          [policy |-> "AllowAny", scheme |-> "ws", host |-> <<"localhost">>, presigned |-> FALSE]}

-----------------------------------------------------------------------------
(* start_session                                                            *)

Goes(c, to) == pc' = [pc EXCEPT ![c] = to]

(* start_session begins: an invalid configuration goes no further.          *)
Begins(c, g) ==
    /\ pc[c] = "idle"
    /\ Goes(c, IF ValidConfig(g) THEN "request" ELSE "failed")
    /\ UNCHANGED <<signer, target, attempt, signed, presigned, aws, session, ending, leftover>>

RequestFails(c) ==
    /\ pc[c] = "request"
    /\ Goes(c, "failed")
    /\ UNCHANGED <<signer, target, attempt, signed, presigned, aws, session, ending, leftover>>

(* AWS has started a session, but its response lacks the URL or the token.  *)
RequestIncomplete(c) ==
    /\ pc[c] = "request"
    /\ Goes(c, "failed")
    /\ aws' = [aws EXCEPT ![c] = "active"]
    /\ leftover' = [leftover EXCEPT ![c] = "incomplete"]
    /\ UNCHANGED <<signer, target, attempt, signed, presigned, session, ending>>

(* What start_session does when the channel does not open.                  *)
OnOpenFailure == "release"

(* dial has returned: its locals are gone.                                  *)
DialOver(c) ==
    /\ attempt' = [attempt EXCEPT ![c] = 0]
    /\ signed' = [signed EXCEPT ![c] = 0]
    /\ presigned' = [presigned EXCEPT ![c] = FALSE]

(* The session exists, and connect checks the endpoint.                     *)
RequestSucceeds(c, url) ==
    /\ pc[c] = "request"
    /\ aws' = [aws EXCEPT ![c] = "active"]
    /\ \/ /\ ValidEndpoint(url.policy, url)
          /\ Goes(c, "sign")
          /\ attempt' = [attempt EXCEPT ![c] = 1]
          /\ presigned' = [presigned EXCEPT ![c] = url.presigned]
          /\ UNCHANGED signed
       \/ /\ ~ValidEndpoint(url.policy, url)
          /\ Goes(c, OnOpenFailure) /\ DialOver(c)
    /\ UNCHANGED <<signer, target, session, ending, leftover>>

(* Whether dial signs the upgrade request of an attempt.  Mutant: of the    *)
(* first attempt only.                                                      *)
SignsOnce(c) == signer /\ ~presigned[c] /\ attempt[c] = 1
Signs(c) == signer /\ ~presigned[c]

(* dial: a new upgrade request for every attempt.                           *)
Sign(c) ==
    /\ pc[c] = "sign"
    /\ Goes(c, "dial")
    /\ signed' = [signed EXCEPT ![c] = IF Signs(c) THEN attempt[c] ELSE @]
    /\ UNCHANGED <<signer, target, attempt, presigned, aws, session, ending, leftover>>

(* A network failure is retried while attempts are left.                    *)
Retries(c) == attempt[c] < ConnectAttempts

DialRetries(c) ==
    /\ pc[c] = "dial" /\ Retries(c)
    /\ Goes(c, "sign")
    /\ attempt' = [attempt EXCEPT ![c] = @ + 1]
    /\ UNCHANGED <<signer, target, signed, presigned, aws, session, ending, leftover>>

(* The credentials cannot be had, the service rejects the upgrade, the last *)
(* attempt fails, or the open message cannot be sent.                       *)
OpenFails(c) ==
    /\ pc[c] \in {"sign", "dial", "auth"}
    /\ Goes(c, OnOpenFailure) /\ DialOver(c)
    /\ UNCHANGED <<signer, target, aws, session, ending, leftover>>

DialConnects(c) ==
    /\ pc[c] = "dial"
    /\ Goes(c, "auth") /\ DialOver(c)
    /\ UNCHANGED <<signer, target, aws, session, ending, leftover>>

(* The open message is out and the tasks are spawned.                       *)
OpenSucceeds(c) ==
    /\ pc[c] = "auth"
    /\ Goes(c, "own")
    /\ session' = [session EXCEPT ![c] = "live"]
    /\ UNCHANGED <<signer, target, attempt, signed, presigned, aws, ending, leftover>>

(* ssm:TerminateSession succeeds, or AWS will reclaim the session later.    *)
CallsTerminateSession(c) ==
    \/ aws' = [aws EXCEPT ![c] = "ended"] /\ UNCHANGED leftover
    \/ leftover' = [leftover EXCEPT ![c] = "refused"] /\ UNCHANGED aws

Release(c) ==
    /\ pc[c] = "release"
    /\ Goes(c, "failed")
    /\ CallsTerminateSession(c)
    /\ UNCHANGED <<signer, target, attempt, signed, presigned, session, ending>>

-----------------------------------------------------------------------------
(* A session that is open                                                   *)

(* The agent ends the session, or the channel is lost and AWS keeps it.     *)
SessionEnds(c) ==
    /\ session[c] = "live"
    /\ session' = [session EXCEPT ![c] = "closed"]
    /\ \/ aws' = [aws EXCEPT ![c] = "ended"] /\ UNCHANGED leftover
       \/ leftover' = [leftover EXCEPT ![c] = "disconnected"] /\ UNCHANGED aws
    /\ UNCHANGED <<signer, callVars, ending>>

(* Session::drop: the last reference goes, and the channel with it; nobody  *)
(* tells AWS.                                                               *)
SessionDropped(c) ==
    /\ session[c] = "live" /\ ending[c] = "no"
    /\ session' = [session EXCEPT ![c] = "closed"]
    /\ leftover' = [leftover EXCEPT ![c] = "dropped"]
    /\ UNCHANGED <<signer, callVars, aws, ending>>

(* Whether terminate calls AWS: only when it is the one that closes.        *)
(* Mutant: it checks after closing.                                         *)
FirstAfterClose(c) == FALSE
First(c) == session[c] = "live"

(* terminate: close the channel and wait for its tasks.                     *)
TerminateCloses(c) ==
    /\ ending[c] = "close"
    /\ session' = [session EXCEPT ![c] = "closed"]
    /\ ending' = [ending EXCEPT ![c] = IF First(c) THEN "call" ELSE "done"]
    /\ UNCHANGED <<signer, callVars, aws, leftover>>

TerminateCalls(c) ==
    /\ ending[c] = "call"
    /\ ending' = [ending EXCEPT ![c] = "done"]
    /\ CallsTerminateSession(c)
    /\ UNCHANGED <<signer, callVars, session>>

-----------------------------------------------------------------------------
(* What start_session and terminate do by themselves.                       *)
StartSteps(c) ==
    \/ RequestFails(c) \/ RequestIncomplete(c)
    \/ \E url \in Endpoints : RequestSucceeds(c, url)
    \/ Sign(c) \/ DialRetries(c) \/ DialConnects(c) \/ OpenFails(c) \/ OpenSucceeds(c)
    \/ Release(c)
TerminateSteps(c) == TerminateCloses(c) \/ TerminateCalls(c)
ManagerNext == \E c \in Calls : StartSteps(c) \/ TerminateSteps(c) \/ SessionEnds(c)

-----------------------------------------------------------------------------
(* Properties                                                               *)

(* Whoever starts a session releases it: AWS holds one only while a call    *)
(* still opens or releases it, while it is live or its terminate call is    *)
(* out, or for a reason of its own: the call to release it failed, the      *)
(* channel broke (terminate then leaves the session to AWS), the Session    *)
(* was dropped without terminate, or StartSession answered without a URL or *)
(* token.                                                                   *)
NoneForgotten ==
    \A c \in Calls : aws[c] = "active" =>
        \/ pc[c] \in {"sign", "dial", "auth", "release"}
        \/ session[c] = "live" \/ ending[c] = "call" \/ leftover[c] # "none"

(* dial: every upgrade request carries one credential, made for it: that of *)
(* a presigned URL, or a signature of this very attempt.                    *)
FreshCredential ==
    \A c \in Calls : pc[c] = "dial" /\ signer =>
        IF presigned[c] THEN signed[c] = 0 ELSE signed[c] = attempt[c]
=============================================================================
