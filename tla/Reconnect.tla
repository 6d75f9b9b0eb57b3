------------------------------ MODULE Reconnect ------------------------------
(***************************************************************************)
(* ReconnectingSession: a handle that outlives the sessions under it.  One *)
(* supervisor task watches the current session and resumes or replaces it; *)
(* clones of the handle send, terminate and are dropped meanwhile; one     *)
(* pump task per session forwards its output.                              *)
(*                                                                         *)
(* A session is the number of its Session object, in order of creation; a  *)
(* resumed session is a new object too.  A session is "closing" between    *)
(* the two steps of SessionCore::close that set the closed flag and the    *)
(* reason (see SessionCore).  The objects are reference counted: one that  *)
(* nobody holds is dropped, which closes it.                               *)
(***************************************************************************)
EXTENDS Integers, FiniteSets

CONSTANTS
    Handles,       \* clones of the ReconnectingSession
    MaxAttempts,   \* ReconnectConfig.max_attempts; 0 is no limit
    MaxSessions    \* bound: Session objects ever opened

ASSUME ReconnectAssumption ==
    /\ IsFiniteSet(Handles) /\ Handles # {}
    /\ MaxAttempts \in Nat
    /\ MaxSessions \in Nat \ {0}

Sessions == 1..MaxSessions
None == 0

(* CloseReason, up to is_recoverable and is_resumable.                      *)
Resumable == {"Transport"}
Recoverable == Resumable \cup {"DeliveryFailed"}
Reasons == Recoverable \cup {"Ended"}

VARIABLES
    shutdown,      \* ShutdownSignal
    outputClosed,  \* the durable fan-out
    current,       \* Inner.current
    made,          \* sessions opened so far
    status,        \* of each session: "none", "live", "closing", "dead"
    reason,        \* its close reason, unreadable before "dead"
    pump,          \* the sessions whose pump_output runs
    sup,           \* where the supervisor is
    watched,       \* the session of this round of supervise
    resumeFrom,    \* resume_from is Some
    attempt,
    fresh,         \* the session being adopted
    handle,        \* where each handle is
    hold,          \* the session it has a reference to
    late           \* the handles whose send has passed its deadline

supVars == <<sup, watched, resumeFrom, attempt, fresh>>
sessionVars == <<made, status, reason>>
handleVars == <<handle, hold, late>>
vars == <<shutdown, outputClosed, current, sessionVars, pump, supVars, handleVars>>

Stopped == {"done", "aborted"}

TypeOK ==
    /\ shutdown \in BOOLEAN /\ outputClosed \in BOOLEAN
    /\ current \in 0..MaxSessions
    /\ made \in 0..MaxSessions
    /\ status \in [Sessions -> {"none", "live", "closing", "dead"}]
    /\ \A s \in Sessions : status[s] = "none" <=> s > made
    /\ reason \in [Sessions -> Reasons]
    /\ pump \in SUBSET (1..made)
    /\ sup \in {"read", "watch", "reason", "next", "sleep", "resume", "start", "adopt",
                "closeOutput", "clear"} \cup Stopped
    /\ watched \in 0..made
    /\ resumeFrom \in BOOLEAN
    /\ MaxAttempts > 0 => attempt \in 0..MaxAttempts
    /\ fresh \in 0..made
    /\ handle \in [Handles -> {"idle", "look", "try", "take", "close", "closeOutput",
                               "dropping", "gone"}]
    /\ hold \in [Handles -> 0..made]
    /\ late \subseteq {h \in Handles : handle[h] \in {"look", "try"}}

(* connect_with: the first session is open and adopted.                     *)
Init ==
    /\ shutdown = FALSE /\ outputClosed = FALSE
    /\ current = 1 /\ made = 1
    /\ status = [s \in Sessions |-> IF s = 1 THEN "live" ELSE "none"]
    /\ reason = [s \in Sessions |-> "Ended"]
    /\ pump = {1}
    /\ sup = "read"
    /\ watched = None /\ resumeFrom = FALSE /\ attempt = 0 /\ fresh = None
    /\ handle = [h \in Handles |-> "idle"]
    /\ hold = [h \in Handles |-> None]
    /\ late = {}

-----------------------------------------------------------------------------
(* Sessions                                                                 *)

Live(s) == s # None /\ status[s] = "live"
IsClosed(s) == status[s] \in {"closing", "dead"}

(* The channel ends: lost, undeliverable, or ended by the agent.            *)
Die(s) ==
    /\ Live(s)
    /\ status' = [status EXCEPT ![s] = "closing"]
    /\ reason' \in {[reason EXCEPT ![s] = r] : r \in Reasons}
    /\ UNCHANGED <<shutdown, outputClosed, current, made, pump, supVars, handleVars>>

(* The second step of close: the reason is stored, and waiters are woken.   *)
Publish(s) ==
    /\ status[s] = "closing"
    /\ status' = [status EXCEPT ![s] = "dead"]
    /\ UNCHANGED <<shutdown, outputClosed, current, made, reason, pump, supVars, handleVars>>

(* Inner is kept by the handles and by the running supervisor.              *)
InnerHeld == sup \notin Stopped \/ \E h \in Handles : handle[h] # "gone"

Referenced(s) ==
    \/ InnerHeld /\ current = s
    \/ s \in pump
    \/ s \in {watched, fresh}
    \/ \E h \in Handles : hold[h] = s

(* Session::drop closes it; nothing asks the service to terminate it.       *)
DropSession(s) ==
    /\ Live(s)
    /\ ~Referenced(s)
    /\ status' = [status EXCEPT ![s] = "closing"]
    /\ reason' = [reason EXCEPT ![s] = "Ended"]
    /\ UNCHANGED <<shutdown, outputClosed, current, made, pump, supVars, handleVars>>

(* What a pump does to the durable fan-out when its session's stream ends.  *)
(* Mutant: it closes it.                                                    *)
PumpCloses == TRUE
AfterPump == outputClosed

(* pump_output returns when the session's own stream has ended, and only    *)
(* then gives up its reference.                                             *)
PumpEnds(s) ==
    /\ s \in pump
    /\ status[s] = "dead"
    /\ pump' = pump \ {s}
    /\ outputClosed' = AfterPump
    /\ UNCHANGED <<shutdown, current, sessionVars, supVars, handleVars>>

-----------------------------------------------------------------------------
(* supervise                                                                *)

Go(here, next) == sup = here /\ sup' = next

(* The locals of supervise and reconnect when their scope ends.             *)
LocalsGone == watched' = None /\ fresh' = None /\ resumeFrom' = FALSE /\ attempt' = 0

ReadCurrent ==
    /\ Go("read", IF current = None THEN "done" ELSE "watch")
    /\ watched' = current
    /\ UNCHANGED <<shutdown, outputClosed, current, sessionVars, pump, resumeFrom, attempt,
                   fresh, handleVars>>

(* The biased select.  Mutants: shutdown is not a branch of it; the round   *)
(* goes on without waiting for the close.                                   *)
NoShutdownBranch == shutdown /\ IsClosed(watched)
Cancelled == shutdown
AnyTime == TRUE
WatchedClosed == IsClosed(watched)

StopWatching ==
    /\ Go("watch", "done")
    /\ Cancelled
    /\ LocalsGone
    /\ UNCHANGED <<shutdown, outputClosed, current, sessionVars, pump, handleVars>>

SeeClosed ==
    /\ Go("watch", "reason")
    /\ ~shutdown
    /\ WatchedClosed
    /\ UNCHANGED <<shutdown, outputClosed, current, sessionVars, pump, watched, resumeFrom,
                   attempt, fresh, handleVars>>

(* close_reason, where a reason that is not stored yet reads as Transport.  *)
ReadReason == IF status[watched] = "dead" THEN reason[watched] ELSE "Transport"

Decide ==
    /\ Go("reason", IF ReadReason \in Recoverable THEN "next" ELSE "closeOutput")
    /\ resumeFrom' = (ReadReason \in Resumable)
    /\ attempt' = 0
    /\ UNCHANGED <<shutdown, outputClosed, current, sessionVars, pump, watched, fresh,
                   handleVars>>

(* The supervisor gives up: the output ends, then the handle is emptied.    *)
(* Mutant: the output is left open.                                         *)
LeftOpen == outputClosed
Ended == TRUE

CloseOutput ==
    /\ Go("closeOutput", "clear")
    /\ outputClosed' = Ended
    /\ LocalsGone
    /\ UNCHANGED <<shutdown, current, sessionVars, pump, handleVars>>

ClearCurrent ==
    /\ Go("clear", "done")
    /\ current' = None
    /\ UNCHANGED <<shutdown, outputClosed, sessionVars, pump, watched, resumeFrom, attempt,
                   fresh, handleVars>>

-----------------------------------------------------------------------------
(* reconnect                                                                *)

Exhausted == MaxAttempts > 0 /\ attempt >= MaxAttempts

NextAttempt ==
    /\ Go("next", IF Exhausted THEN "closeOutput" ELSE "sleep")
    /\ attempt' = IF Exhausted \/ MaxAttempts = 0 THEN attempt ELSE attempt + 1
    /\ UNCHANGED <<shutdown, outputClosed, current, sessionVars, pump, watched, resumeFrom,
                   fresh, handleVars>>

(* The delay, or the shutdown that cuts it short.                           *)
Sleep ==
    /\ Go("sleep", IF shutdown THEN "closeOutput"
                   ELSE IF resumeFrom THEN "resume" ELSE "start")
    /\ UNCHANGED <<shutdown, outputClosed, current, sessionVars, pump, watched, resumeFrom,
                   attempt, fresh, handleVars>>

Opens ==
    /\ made < MaxSessions
    /\ made' = made + 1
    /\ status' = [status EXCEPT ![made + 1] = "live"]
    /\ fresh' = made + 1

ResumeOpens ==
    /\ Go("resume", "adopt")
    /\ Opens
    /\ UNCHANGED <<shutdown, outputClosed, current, reason, pump, watched, resumeFrom,
                   attempt, handleVars>>

(* No token, or an error that is not retriable: only a new session is left. *)
ResumeRefused ==
    /\ Go("resume", "start")
    /\ resumeFrom' = FALSE
    /\ UNCHANGED <<shutdown, outputClosed, current, sessionVars, pump, watched, attempt,
                   fresh, handleVars>>

StartOpens ==
    /\ Go("start", "adopt")
    /\ Opens
    /\ UNCHANGED <<shutdown, outputClosed, current, reason, pump, watched, resumeFrom,
                   attempt, handleVars>>

StartRefused ==
    /\ Go("start", "closeOutput")
    /\ UNCHANGED <<shutdown, outputClosed, current, sessionVars, pump, watched, resumeFrom,
                   attempt, fresh, handleVars>>

(* A retriable error of either call.                                        *)
AttemptFails ==
    /\ sup \in {"resume", "start"}
    /\ sup' = "next"
    /\ UNCHANGED <<shutdown, outputClosed, current, sessionVars, pump, watched, resumeFrom,
                   attempt, fresh, handleVars>>

(* adopt: current is replaced and the pump is spawned.                      *)
Adopt ==
    /\ Go("adopt", "read")
    /\ current' = fresh
    /\ pump' = pump \cup {fresh}
    /\ LocalsGone
    /\ UNCHANGED <<shutdown, outputClosed, sessionVars, handleVars>>

-----------------------------------------------------------------------------
(* send, terminate and drop of a handle                                     *)

Step(h, here, next) == handle[h] = here /\ handle' = [handle EXCEPT ![h] = next]

SendBegins(h) ==
    /\ Step(h, "idle", "look")
    /\ UNCHANGED <<shutdown, outputClosed, current, sessionVars, pump, supVars, hold, late>>

(* ready_timeout after that, wherever the send is.                          *)
DeadlinePasses(h) ==
    /\ handle[h] \in {"look", "try"} /\ h \notin late
    /\ late' = late \cup {h}
    /\ UNCHANGED <<shutdown, outputClosed, current, sessionVars, pump, supVars, handle, hold>>

(* current() is a snapshot.                                                 *)
SendLooks(h) ==
    /\ Live(current)
    /\ Step(h, "look", "try")
    /\ hold' = [hold EXCEPT ![h] = current]
    /\ UNCHANGED <<shutdown, outputClosed, current, sessionVars, pump, supVars, late>>

(* The session may have died since; then the caller goes round again.       *)
SendTries(h) ==
    /\ \/ Live(hold[h]) /\ Step(h, "try", "idle") /\ late' = late \ {h}
       \/ ~Live(hold[h]) /\ Step(h, "try", "look") /\ UNCHANGED late
    /\ hold' = [hold EXCEPT ![h] = None]
    /\ UNCHANGED <<shutdown, outputClosed, current, sessionVars, pump, supVars>>

(* Without a session to try, or after a try, a send fails if the handle was *)
(* stopped or the deadline has passed; otherwise it sleeps and looks again. *)
(* A supervisor that has given up is not looked for.                        *)
MayFail(h) == shutdown \/ h \in late

SendFails(h) ==
    /\ \/ Step(h, "look", "idle") /\ ~Live(current)
       \/ Step(h, "try", "idle") /\ ~Live(hold[h])
    /\ MayFail(h)
    /\ hold' = [hold EXCEPT ![h] = None] /\ late' = late \ {h}
    /\ UNCHANGED <<shutdown, outputClosed, current, sessionVars, pump, supVars>>

Terminate(h) ==
    /\ Step(h, "idle", "take")
    /\ shutdown' = TRUE
    /\ UNCHANGED <<outputClosed, current, sessionVars, pump, supVars, hold, late>>

TakeCurrent(h) ==
    /\ Step(h, "take", IF current = None THEN "closeOutput" ELSE "close")
    /\ hold' = [hold EXCEPT ![h] = current]
    /\ current' = None
    /\ UNCHANGED <<shutdown, outputClosed, sessionVars, pump, supVars, late>>

(* Session::terminate closes, unless the session is closed already.         *)
TerminateSession(h) ==
    /\ Step(h, "close", "closeOutput")
    /\ IF Live(hold[h])
         THEN /\ status' = [status EXCEPT ![hold[h]] = "closing"]
              /\ reason' = [reason EXCEPT ![hold[h]] = "Ended"]
         ELSE UNCHANGED <<status, reason>>
    /\ hold' = [hold EXCEPT ![h] = None]
    /\ UNCHANGED <<shutdown, outputClosed, current, made, pump, supVars, late>>

TerminateReturns(h) ==
    /\ Step(h, "closeOutput", "idle")
    /\ outputClosed' = TRUE
    /\ UNCHANGED <<shutdown, current, sessionVars, pump, supVars, hold, late>>

(* Drop reads the count, and gives up its own share only afterwards.        *)
LastHandle(h) == \A g \in Handles \ {h} : handle[g] = "gone"

DropHandle(h) ==
    /\ Step(h, "idle", "dropping")
    /\ shutdown' = (shutdown \/ LastHandle(h))
    /\ IF LastHandle(h) /\ sup # "done"
         THEN sup' = "aborted" /\ LocalsGone
         ELSE UNCHANGED supVars
    /\ UNCHANGED <<outputClosed, current, sessionVars, pump, hold, late>>

DropFields(h) ==
    /\ Step(h, "dropping", "gone")
    /\ UNCHANGED <<shutdown, outputClosed, current, sessionVars, pump, supVars, hold, late>>

-----------------------------------------------------------------------------
SupervisorNext ==
    \/ ReadCurrent \/ StopWatching \/ SeeClosed \/ Decide \/ CloseOutput \/ ClearCurrent
    \/ NextAttempt \/ Sleep \/ ResumeOpens \/ ResumeRefused \/ StartOpens \/ StartRefused
    \/ AttemptFails \/ Adopt
SessionNext(s) == Publish(s) \/ DropSession(s) \/ PumpEnds(s)
HandleNext(h) ==
    \/ DeadlinePasses(h) \/ SendLooks(h) \/ SendTries(h) \/ SendFails(h)
    \/ TakeCurrent(h) \/ TerminateSession(h) \/ TerminateReturns(h)
    \/ DropFields(h)

Next ==
    \/ SupervisorNext
    \/ \E s \in Sessions : Die(s) \/ SessionNext(s)
    \/ \E h \in Handles : SendBegins(h) \/ Terminate(h) \/ DropHandle(h) \/ HandleNext(h)

Spec == Init /\ [][Next]_vars

(* Tasks that can run do, and a call that has begun goes on; so does the    *)
(* clock.  Sessions need not die, attempts need not succeed, nobody has to  *)
(* send, terminate or drop.                                                 *)
Fairness ==
    /\ WF_vars(SupervisorNext)
    /\ \A s \in Sessions : WF_vars(SessionNext(s))
    /\ \A h \in Handles : WF_vars(HandleNext(h))

FairSpec == Spec /\ Fairness

-----------------------------------------------------------------------------
(* Properties                                                               *)

(* There are never two live sessions: a session is only opened once the one *)
(* before it is closed, so two channels never share one stream's state.     *)
AtMostOneLive == \A s, t \in Sessions : Live(s) /\ Live(t) => s = t

(* The durable output does not end when a session dies: only when someone   *)
(* stopped the handle or the supervisor has given up.                       *)
OutputSpansSessions == outputClosed => shutdown \/ sup \in {"clear", "done"}

(* A dead session is replaced, or the consumer of the output learns that it *)
(* will not be: nobody is left waiting on a handle with nothing under it.   *)
RecoversOrEnds ==
    \A s \in Sessions :
        (current = s /\ status[s] = "dead")
            ~> (outputClosed \/ sup = "aborted" \/ (current # s /\ current # None))

(* After terminate or the last drop the supervisor stops, wherever it was.  *)
SupervisorStops == shutdown ~> sup \in Stopped

(* The session a send has taken a reference to, and then tries, is not one  *)
(* that was replaced meanwhile: while it is live it is the one under the    *)
(* handle, unless terminate has taken that one.                             *)
SendsToCurrent ==
    \A h \in Handles :
        handle[h] = "try" /\ Live(hold[h]) => hold[h] = current \/ shutdown

(* What the comment on drop says: the final handle tears things down, so no *)
(* session stays open once the last handle is gone.                         *)
FinalDropTearsDown ==
    (\A h \in Handles : handle[h] = "gone") ~> (\A s \in Sessions : ~Live(s))
=============================================================================
