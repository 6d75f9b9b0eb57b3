-------------------------- MODULE ReconnectProofs --------------------------
(***************************************************************************)
(* Proofs about Reconnect, for every number of handles, attempts and       *)
(* sessions: at most one is live, the output outlives them, the one under  *)
(* the handle is watched, and it is the one that sends write to.           *)
(***************************************************************************)
EXTENDS Reconnect, TLAPS

(* Rounds of the supervisor that have a session to watch, and those that    *)
(* have seen it closed.                                                     *)
AfterClose == {"reason", "next", "sleep", "resume", "start"}
InRound == AfterClose \cup {"watch"}

(* Only the newest session can be live.  A round watches the newest one,    *)
(* goes on only once that one is closed, and has opened the newest one when *)
(* it adopts.                                                               *)
LiveInv ==
    /\ made \in Sessions /\ current \in 0..made
    /\ watched \in 0..made /\ fresh \in 0..made
    /\ status \in [Sessions -> {"none", "live", "closing", "dead"}]
    /\ \A s \in Sessions : status[s] = "live" => s = made
    /\ sup = "read" => current \in {None, made}
    /\ sup \in InRound => watched = made
    /\ sup \in AfterClose => status[made] # "live"
    /\ sup = "adopt" => fresh = made

(* connect_with returns with one session, open and adopted.                 *)
LEMMA LiveInit == Init => LiveInv
  BY ReconnectAssumption
  DEF Init, LiveInv, Sessions, None, InRound, AfterClose

(* The sessions close, and the pumps end, behind the supervisor's back.     *)
LEMMA SessionKeepsLive ==
    ASSUME LiveInv, NEW s \in Sessions, Die(s) \/ SessionNext(s)
    PROVE  LiveInv'
<1> USE DEF LiveInv, Sessions, supVars, handleVars, sessionVars, InRound, AfterClose
<1>1. CASE Die(s)
  BY <1>1 DEF Die, Live
<1>2. CASE Publish(s)
  BY <1>2 DEF Publish
<1>3. CASE DropSession(s)
  BY <1>3 DEF DropSession, Live
<1>4. CASE PumpEnds(s)
  BY <1>4 DEF PumpEnds, AfterPump
<1> QED
  BY <1>1, <1>2, <1>3, <1>4, Zenon DEF SessionNext

(* supervise and reconnect open a session only when the last one is closed. *)
LEMMA SupervisorKeepsLive ==
    ASSUME LiveInv, SupervisorNext
    PROVE  LiveInv'
<1> USE ReconnectAssumption
    DEF LiveInv, Sessions, sessionVars, handleVars, None, Go, LocalsGone, InRound, AfterClose
<1>1. CASE ReadCurrent
  BY <1>1 DEF ReadCurrent
<1>2. CASE StopWatching
  BY <1>2 DEF StopWatching
<1>3. CASE SeeClosed
  BY <1>3 DEF SeeClosed, WatchedClosed, IsClosed
<1>4. CASE Decide
  BY <1>4 DEF Decide
<1>5. CASE CloseOutput
  BY <1>5 DEF CloseOutput, Ended
<1>6. CASE ClearCurrent
  BY <1>6 DEF ClearCurrent
<1>7. CASE NextAttempt
  BY <1>7 DEF NextAttempt, Exhausted
<1>8. CASE Sleep
  BY <1>8 DEF Sleep
<1>9. ASSUME sup \in {"resume", "start"}, sup' = "adopt", Opens,
             UNCHANGED <<shutdown, outputClosed, current, reason, pump, watched,
                         resumeFrom, attempt, handleVars>>
      PROVE  LiveInv'
  BY <1>9 DEF Opens
<1>10. CASE ResumeOpens
  BY <1>9, <1>10 DEF ResumeOpens
<1>11. CASE ResumeRefused
  BY <1>11 DEF ResumeRefused
<1>12. CASE StartOpens
  BY <1>9, <1>12 DEF StartOpens
<1>13. CASE StartRefused
  BY <1>13 DEF StartRefused
<1>14. CASE AttemptFails
  BY <1>14 DEF AttemptFails
<1>15. CASE Adopt
  BY <1>15 DEF Adopt
<1> QED
  BY <1>1, <1>2, <1>3, <1>4, <1>5, <1>6, <1>7, <1>8, <1>10, <1>11, <1>12, <1>13, <1>14,
     <1>15, Zenon DEF SupervisorNext

(* send, terminate and drop empty the handle and close its session, and     *)
(* never open one.                                                          *)
LEMMA HandleKeepsLive ==
    ASSUME LiveInv, NEW h \in Handles,
           SendBegins(h) \/ Terminate(h) \/ DropHandle(h) \/ HandleNext(h)
    PROVE  LiveInv'
<1> USE ReconnectAssumption
    DEF LiveInv, Sessions, sessionVars, supVars, None, Step, InRound, AfterClose
<1>1. CASE SendBegins(h)
  BY <1>1 DEF SendBegins
<1>2. CASE Terminate(h)
  BY <1>2 DEF Terminate
<1>3. CASE DropHandle(h)
  BY <1>3 DEF DropHandle, LocalsGone
<1>4. CASE SendLooks(h)
  BY <1>4 DEF SendLooks
<1>5. CASE SendTries(h)
  BY <1>5 DEF SendTries
<1>6. CASE SendFails(h)
  BY <1>6 DEF SendFails
<1>7. CASE TakeCurrent(h)
  BY <1>7 DEF TakeCurrent
<1>8. CASE TerminateSession(h)
  BY <1>8 DEF TerminateSession, Live
<1>9. CASE TerminateReturns(h)
  BY <1>9 DEF TerminateReturns
<1>10. CASE DropFields(h)
  BY <1>10 DEF DropFields
<1>11. CASE DeadlinePasses(h)
  BY <1>11 DEF DeadlinePasses
<1> QED
  BY <1>1, <1>2, <1>3, <1>4, <1>5, <1>6, <1>7, <1>8, <1>9, <1>10, <1>11, Zenon DEF HandleNext

(* Every step keeps it, those of the supervisor and of all handles.         *)
LEMMA LiveStep == LiveInv /\ [Next]_vars => LiveInv'
<1> SUFFICES ASSUME LiveInv, [Next]_vars PROVE LiveInv'
  OBVIOUS
<1>1. CASE UNCHANGED vars
  BY <1>1 DEF vars, LiveInv, sessionVars, supVars, handleVars
<1> QED
  BY <1>1, SessionKeepsLive, SupervisorKeepsLive, HandleKeepsLive, Zenon DEF Next

(* The invariant the two theorems below rest on.                            *)
THEOREM LiveInvHolds == Spec => []LiveInv
  BY LiveInit, LiveStep, PTL DEF Spec

(* The supervisor, the handles and the dying sessions never leave two       *)
(* sessions open at once, through any number of reconnects.                 *)
THEOREM OneLiveSession == Spec => []AtMostOneLive
<1>1. LiveInv => AtMostOneLive
  BY DEF LiveInv, AtMostOneLive, Live
<1> QED
  BY <1>1, LiveInvHolds, PTL

-----------------------------------------------------------------------------
(* A handle inside terminate has raised the shutdown signal, and so has the *)
(* drop that aborted the supervisor.                                        *)
OutputInv ==
    /\ handle \in [Handles -> {"idle", "look", "try", "take", "close", "closeOutput",
                               "dropping", "gone"}]
    /\ \A h \in Handles : handle[h] \in {"take", "close", "closeOutput"} => shutdown
    /\ sup = "aborted" => shutdown
    /\ OutputSpansSessions

(* Only CloseOutput and terminate end the durable output.                   *)
LEMMA OutputStep == OutputInv /\ [Next]_vars => OutputInv'
<1> SUFFICES ASSUME OutputInv, [Next]_vars PROVE OutputInv'
  OBVIOUS
<1> USE DEF OutputInv, OutputSpansSessions, supVars, sessionVars, handleVars
<1>1. ASSUME NEW s \in Sessions, Die(s) \/ SessionNext(s) PROVE OutputInv'
  BY <1>1 DEF Die, SessionNext, Publish, DropSession, PumpEnds, AfterPump
<1>2. CASE SupervisorNext
  BY <1>2 DEF SupervisorNext, ReadCurrent, StopWatching, SeeClosed, Decide, CloseOutput,
     ClearCurrent, NextAttempt, Sleep, ResumeOpens, ResumeRefused, StartOpens, StartRefused,
     AttemptFails, Adopt, Go, Opens, LocalsGone
<1>3. ASSUME NEW h \in Handles, SendBegins(h) \/ Terminate(h) \/ HandleNext(h)
      PROVE  OutputInv'
  <2>1. CASE SendBegins(h)
    BY <2>1 DEF SendBegins, Step
  <2>2. CASE Terminate(h)
    BY <2>2 DEF Terminate, Step
  <2>3. CASE SendLooks(h) \/ SendTries(h) \/ SendFails(h)
    BY <2>3 DEF SendLooks, SendTries, SendFails, Step
  <2>4. CASE TakeCurrent(h)
    BY <2>4 DEF TakeCurrent, Step
  <2>5. CASE TerminateSession(h)
    BY <2>5 DEF TerminateSession, Step
  <2>6. CASE TerminateReturns(h)
    BY <2>6 DEF TerminateReturns, Step
  <2>7. CASE DropFields(h)
    BY <2>7 DEF DropFields, Step
  <2>8. CASE DeadlinePasses(h)
    BY <2>8, Zenon DEF DeadlinePasses
  <2> QED
    BY <1>3, <2>1, <2>2, <2>3, <2>4, <2>5, <2>6, <2>7, <2>8, Zenon DEF HandleNext
<1>4. ASSUME NEW h \in Handles, DropHandle(h) PROVE OutputInv'
  BY <1>4, Zenon DEF DropHandle, Step, LocalsGone
<1>5. CASE UNCHANGED vars
  BY <1>5 DEF vars
<1> QED
  BY <1>1, <1>2, <1>3, <1>4, <1>5, Zenon DEF Next

(* A session that dies, and the pump that ends with it, never end the       *)
(* durable output: that takes terminate, the last drop, or a supervisor     *)
(* that has given up.                                                       *)
THEOREM OutputOutlivesSessions == Spec => []OutputSpansSessions
<1>1. Init => OutputInv
  BY DEF Init, OutputInv, OutputSpansSessions
<1>2. OutputInv => OutputSpansSessions
  BY DEF OutputInv
<1> QED
  BY <1>1, <1>2, OutputStep, PTL DEF Spec

-----------------------------------------------------------------------------
(* Nobody waits on a handle that is left to itself                          *)

(* One round of supervise, from its reading of current to its end.          *)
Round == {"watch", "reason", "next", "sleep", "resume", "start", "adopt", "closeOutput"}

(* The supervisor stops, and the handle is emptied, only once the handle    *)
(* was stopped or the durable output has ended; until then the session      *)
(* under the handle is the one the supervisor watches or is replacing.      *)
NeverAbandoned ==
    /\ sup \in Stopped \/ current = None => shutdown \/ outputClosed
    /\ sup \in Round => current = watched \/ shutdown

WatchInv ==
    /\ NeverAbandoned
    /\ sup = "clear" => outputClosed

(* The steps of the supervisor: adopt is the only one that puts a session   *)
(* under the handle.                                                        *)
LEMMA WatchSupervisor ==
    ASSUME LiveInv, WatchInv, SupervisorNext
    PROVE  WatchInv'
<1> USE DEF WatchInv, NeverAbandoned, Round, Stopped, Go
<1>1. CASE ReadCurrent \/ StopWatching \/ SeeClosed \/ Decide
  BY <1>1, Zenon DEF ReadCurrent, StopWatching, Cancelled, SeeClosed, Decide
<1>2. CASE CloseOutput \/ ClearCurrent
  BY <1>2, Zenon DEF CloseOutput, Ended, ClearCurrent
<1>3. CASE NextAttempt \/ Sleep \/ ResumeRefused \/ StartRefused \/ AttemptFails
  BY <1>3, Zenon DEF NextAttempt, Sleep, ResumeRefused, StartRefused, AttemptFails
<1>4. CASE ResumeOpens \/ StartOpens
  BY <1>4, Zenon DEF ResumeOpens, StartOpens
<1>5. CASE Adopt
  <2>1. fresh # None
    BY <1>5 DEF Adopt, LiveInv, None, Sessions
  <2> QED
    BY <1>5, <2>1, Zenon DEF Adopt
<1> QED
  BY <1>1, <1>2, <1>3, <1>4, <1>5, Zenon DEF SupervisorNext

(* The sessions and the handles: terminate has raised the signal before it  *)
(* takes the session, and so has the drop that aborts the supervisor.       *)
LEMMA WatchOthers ==
    ASSUME OutputInv, WatchInv, [Next]_vars, ~SupervisorNext
    PROVE  WatchInv'
<1> USE DEF WatchInv, NeverAbandoned, Round, Stopped
<1>1. CASE UNCHANGED <<shutdown, outputClosed, current, supVars>>
  BY <1>1, Zenon DEF supVars
<1>2. ASSUME NEW s \in Sessions, Die(s) \/ SessionNext(s) PROVE WatchInv'
  BY <1>1, <1>2, Zenon DEF Die, SessionNext, Publish, DropSession, PumpEnds, AfterPump
<1>3. ASSUME NEW h \in Handles, SendBegins(h) \/ SendLooks(h) \/ SendTries(h) \/ SendFails(h)
                \/ TerminateSession(h) \/ DropFields(h) \/ DeadlinePasses(h)
      PROVE  WatchInv'
  BY <1>1, <1>3, Zenon DEF SendBegins, SendLooks, SendTries, SendFails, TerminateSession,
     DropFields, DeadlinePasses
<1>4. ASSUME NEW h \in Handles, Terminate(h) \/ TerminateReturns(h) PROVE WatchInv'
  BY <1>4, Zenon DEF Terminate, TerminateReturns, supVars
<1>5. ASSUME NEW h \in Handles, TakeCurrent(h) PROVE WatchInv'
  <2>1. shutdown /\ shutdown' = shutdown /\ UNCHANGED <<outputClosed, supVars>>
    BY <1>5, Zenon DEF TakeCurrent, Step, OutputInv
  <2> QED
    BY <2>1, Zenon DEF supVars
<1>6. ASSUME NEW h \in Handles, DropHandle(h) PROVE WatchInv'
  <2>1. /\ shutdown' = (shutdown \/ LastHandle(h)) /\ UNCHANGED <<outputClosed, current>>
        /\ (LastHandle(h) /\ sup' = "aborted") \/ UNCHANGED supVars
    BY <1>6, Zenon DEF DropHandle
  <2> QED
    BY <2>1, Zenon DEF supVars
<1>7. CASE UNCHANGED vars
  BY <1>1, <1>7, Zenon DEF vars
<1> QED
  BY <1>2, <1>3, <1>4, <1>5, <1>6, <1>7, Zenon DEF Next, HandleNext

(* The safety half of RecoversOrEnds, through any number of reconnects and  *)
(* for any number of handles: no consumer waits on a handle that nobody     *)
(* works on, with neither the shutdown nor the end of the output to see.    *)
THEOREM HandleIsWatched == Spec => []NeverAbandoned
<1>1. Init => WatchInv /\ OutputInv
  BY DEF Init, WatchInv, NeverAbandoned, Round, Stopped, None, OutputInv, OutputSpansSessions
<1>2. LiveInv /\ OutputInv /\ WatchInv /\ [Next]_vars => WatchInv' /\ OutputInv'
  BY WatchSupervisor, WatchOthers, OutputStep, Zenon
<1>3. WatchInv => NeverAbandoned
  BY Zenon DEF WatchInv
<1> QED
  BY <1>1, <1>2, <1>3, LiveInvHolds, PTL DEF Spec

-----------------------------------------------------------------------------
(* Where a send writes                                                      *)

(* A reference that a call holds to a live session is to the one under the  *)
(* handle, unless the handle was stopped.  The supervisor empties the       *)
(* handle only once that session is closed.                                 *)
HoldInv ==
    /\ hold \in [Handles -> 0..made]
    /\ \A h \in Handles : Live(hold[h]) => hold[h] = current \/ shutdown
    /\ sup \in {"closeOutput", "clear"} => status[made] # "live"

(* Only the newest session can be live, and so held.                        *)
LEMMA HeldIsNewest ==
    ASSUME LiveInv, HoldInv
    PROVE  \A h \in Handles :
               /\ hold[h] # None => hold[h] \in Sessions
               /\ Live(hold[h]) => hold[h] = made /\ status[made] = "live"
<1>1. \A h \in Handles : hold[h] # None => hold[h] \in Sessions
  BY ReconnectAssumption DEF LiveInv, HoldInv, None, Sessions
<1> QED
  BY <1>1, Zenon DEF LiveInv, Live

(* Steps that leave the references alone, and open no session.              *)
LEMMA HoldKept ==
    ASSUME HoldInv, UNCHANGED <<hold, made>>, shutdown => shutdown',
           \A h \in Handles : Live(hold[h])' => Live(hold[h]),
           UNCHANGED current \/ \A h \in Handles : ~Live(hold[h]),
           \/ sup' \in {"closeOutput", "clear"} => sup \in {"closeOutput", "clear"}
           \/ status[made] # "live",
           status'[made] = "live" => status[made] = "live"
    PROVE  HoldInv'
  BY Zenon DEF HoldInv

(* The supervisor: adopt replaces a session that is closed, and the newest  *)
(* session is held by nobody before it is adopted.                          *)
LEMMA HoldSupervisor ==
    ASSUME LiveInv, HoldInv, SupervisorNext
    PROVE  HoldInv'
<1> USE DEF Go, sessionVars, handleVars
<1>0. /\ sup \in AfterClose \cup {"closeOutput", "clear"} => status[made] # "live"
      /\ sup = "adopt" => fresh = made
  BY Zenon DEF LiveInv, HoldInv
<1>1. CASE UNCHANGED <<hold, made, status, shutdown, current>>
           /\ (sup' \in {"closeOutput", "clear"} => sup \in AfterClose \cup {"closeOutput"})
  BY <1>0, <1>1, HoldKept, Zenon DEF Live
<1>2. CASE ReadCurrent \/ StopWatching \/ SeeClosed \/ Decide
  BY <1>1, <1>2, Zenon DEF ReadCurrent, StopWatching, SeeClosed, Decide, AfterClose
<1>3. CASE NextAttempt \/ Sleep \/ ResumeRefused \/ StartRefused \/ AttemptFails \/ CloseOutput
  BY <1>1, <1>3, Zenon DEF NextAttempt, Sleep, ResumeRefused, StartRefused, AttemptFails,
     CloseOutput, AfterClose
<1>4. CASE ClearCurrent
  <2>1. UNCHANGED <<hold, made, status, shutdown>> /\ sup = "clear" /\ sup' = "done"
    BY <1>4, Zenon DEF ClearCurrent
  <2>2. \A h \in Handles : ~Live(hold[h])
    BY <1>0, <2>1, HeldIsNewest, Zenon
  <2> QED
    BY <2>1, <2>2, HoldKept, Zenon DEF Live
<1>5. CASE ResumeOpens \/ StartOpens
  <2>1. /\ UNCHANGED <<hold, current, shutdown>> /\ sup' = "adopt"
        /\ made' = made + 1 /\ made < MaxSessions
        /\ status' = [status EXCEPT ![made + 1] = "live"]
    BY <1>5, Zenon DEF ResumeOpens, StartOpens, Opens
  <2>2. hold \in [Handles -> 0..made'] /\ \A h \in Handles : hold[h] # made + 1
    BY <2>1 DEF LiveInv, HoldInv, Sessions
  <2>3. \A h \in Handles : Live(hold[h])' => Live(hold[h])
    BY <2>1, <2>2 DEF Live, LiveInv
  <2> QED
    BY <2>1, <2>2, <2>3, Zenon DEF HoldInv
<1>6. CASE Adopt
  <2>1. UNCHANGED <<hold, made, status, shutdown>> /\ current' = made /\ sup' = "read"
    BY <1>0, <1>6, Zenon DEF Adopt
  <2>2. \A h \in Handles : Live(hold[h])' => hold[h] = made
    BY <2>1, HeldIsNewest, Zenon DEF Live
  <2> QED
    BY <2>1, <2>2, Zenon DEF HoldInv
<1> QED
  BY <1>2, <1>3, <1>4, <1>5, <1>6, Zenon DEF SupervisorNext

(* The sessions only die, and the handles hold what is current.             *)
LEMMA HoldOthers ==
    ASSUME LiveInv, OutputInv, HoldInv, [Next]_vars, ~SupervisorNext
    PROVE  HoldInv'
<1> USE DEF supVars, sessionVars
<1>0. made \in Sessions /\ status \in [Sessions -> {"none", "live", "closing", "dead"}]
  BY Zenon DEF LiveInv
<1>1. ASSUME NEW s \in Sessions, Die(s) \/ SessionNext(s) PROVE HoldInv'
  <2>1. /\ UNCHANGED <<hold, made, shutdown, current, sup>>
        /\ \/ UNCHANGED status
           \/ status' = [status EXCEPT ![s] = "closing"]
           \/ status' = [status EXCEPT ![s] = "dead"]
    BY <1>1, Zenon DEF Die, SessionNext, Publish, DropSession, PumpEnds, handleVars
  <2>2. \A r \in Sessions : status'[r] = "live" => status[r] = "live"
    BY <1>0, <2>1
  <2>3. \A h \in Handles : Live(hold[h])' => Live(hold[h])
    BY <2>1, <2>2, HeldIsNewest, Zenon DEF Live
  <2> QED
    BY <1>0, <2>1, <2>2, <2>3, HoldKept, Zenon
<1>2. ASSUME UNCHANGED <<hold, made, status, current>>, shutdown => shutdown',
             UNCHANGED sup \/ sup' = "aborted"
      PROVE  HoldInv'
  BY <1>2, HoldKept, Zenon DEF Live
<1>3. ASSUME NEW h \in Handles,
             SendBegins(h) \/ Terminate(h) \/ TerminateReturns(h) \/ DropFields(h)
                \/ DeadlinePasses(h) \/ DropHandle(h)
      PROVE  HoldInv'
  BY <1>2, <1>3, Zenon DEF SendBegins, Terminate, TerminateReturns, DropFields,
     DeadlinePasses, DropHandle
<1>4. ASSUME NEW h \in Handles, SendLooks(h) PROVE HoldInv'
  BY <1>4 DEF SendLooks, HoldInv, LiveInv, Live
<1>5. ASSUME NEW h \in Handles, hold' = [hold EXCEPT ![h] = None],
             UNCHANGED <<made, shutdown, current, sup>>,
             \A r \in Sessions : status'[r] = "live" => status[r] = "live"
      PROVE  HoldInv'
  <2>1. hold' \in [Handles -> 0..made] /\ \A g \in Handles : hold'[g] \in {hold[g], None}
    BY <1>0, <1>5 DEF HoldInv, None, Sessions
  <2>2. \A g \in Handles : Live(hold[g])' => Live(hold[g]) /\ hold'[g] = hold[g]
    BY <1>5, <2>1, HeldIsNewest, Zenon DEF Live
  <2> QED
    BY <1>0, <1>5, <2>1, <2>2, Zenon DEF HoldInv
<1>6. ASSUME NEW h \in Handles, SendTries(h) \/ SendFails(h) PROVE HoldInv'
  BY <1>5, <1>6, Zenon DEF SendTries, SendFails
<1>7. ASSUME NEW h \in Handles, TerminateSession(h) PROVE HoldInv'
  <2>1. /\ hold' = [hold EXCEPT ![h] = None] /\ UNCHANGED <<made, shutdown, current, sup>>
        /\ status' = [status EXCEPT ![hold[h]] = "closing"] \/ UNCHANGED status
    BY <1>7, Zenon DEF TerminateSession
  <2>2. \A r \in Sessions : status'[r] = "live" => status[r] = "live"
    BY <1>0, <2>1
  <2> QED
    BY <1>5, <2>1, <2>2, Zenon
<1>8. ASSUME NEW h \in Handles, TakeCurrent(h) PROVE HoldInv'
  <2>1. shutdown /\ shutdown' = shutdown
    BY <1>8, Zenon DEF TakeCurrent, Step, OutputInv
  <2> QED
    BY <1>8, <2>1 DEF TakeCurrent, HoldInv, LiveInv
<1>9. CASE UNCHANGED vars
  BY <1>2, <1>9, Zenon DEF vars, handleVars
<1> QED
  BY <1>1, <1>3, <1>4, <1>6, <1>7, <1>8, <1>9, Zenon DEF Next, HandleNext

(* A send tries a reference it took before: through any number of           *)
(* reconnects, and with any number of handles that send, terminate and are  *)
(* dropped, a live session it tries is the one under the handle unless the  *)
(* handle was stopped.                                                      *)
THEOREM SendsReachCurrent == Spec => []SendsToCurrent
<1>1. Init => HoldInv /\ OutputInv
  BY ReconnectAssumption DEF Init, HoldInv, Live, None, Sessions, OutputInv, OutputSpansSessions
<1>2. LiveInv /\ OutputInv /\ HoldInv /\ [Next]_vars => HoldInv' /\ OutputInv'
  BY HoldSupervisor, HoldOthers, OutputStep, Zenon
<1>3. HoldInv => SendsToCurrent
  BY Zenon DEF HoldInv, SendsToCurrent
<1> QED
  BY <1>1, <1>2, <1>3, LiveInvHolds, PTL DEF Spec
=============================================================================
