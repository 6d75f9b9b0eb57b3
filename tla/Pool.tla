-------------------------------- MODULE Pool --------------------------------
(***************************************************************************)
(* SessionPool over SessionManager: callers start sessions through the pool *)
(* (start_with) or bring their own (insert), sessions end by themselves,    *)
(* and terminate, terminate_target and shutdown remove them, all at once.   *)
(***************************************************************************)
EXTENDS Manager, FiniteSets

CONSTANTS
    MaxSessions,      \* PoolConfig::max_sessions, 0 for no limit
    AllowDuplicates   \* PoolConfig::allow_duplicate_targets

ASSUME PoolAssumption == MaxSessions \in Nat /\ AllowDuplicates \in BOOLEAN

VARIABLES
    sessions,   \* the sessions in the map
    stage,      \* the caller: "none", "start" or "direct" (starting), "count",
                \* "reject", "returned" or "refused"
    started

poolVars == <<sessions, stage, started>>
vars == <<managerVars, poolVars>>

TypeOK ==
    /\ ManagerTypeOK
    /\ sessions \in SUBSET Calls
    /\ stage \in [Calls -> {"none", "start", "direct", "count", "reject", "returned", "refused"}]
    /\ started \in Nat

Init ==
    /\ ManagerInit
    /\ sessions = {}
    /\ stage = [c \in Calls |-> "none"]
    /\ started = 0

-----------------------------------------------------------------------------
(* reap: what retain leaves.  Mutant: the condition turned round.           *)
RetainsClosed == {c \in sessions : session[c] # "live"}
Reaped == {c \in sessions : session[c] = "live"}

(* admit, after reap.                                                       *)
Admits(t) ==
    /\ MaxSessions > 0 => Cardinality(Reaped) < MaxSessions
    /\ AllowDuplicates \/ \A c \in Reaped : target[c] # t

Stage(c, to) == stage' = [stage EXCEPT ![c] = to]

(* start_with: check_admission, then start_session.                         *)
StartWith(c, g) ==
    /\ stage[c] = "none" /\ Admits(target[c])
    /\ sessions' = Reaped
    /\ Stage(c, "start")
    /\ Begins(c, g)
    /\ UNCHANGED started

StartRefused(c) ==
    /\ stage[c] = "none" /\ ~Admits(target[c])
    /\ sessions' = Reaped
    /\ Stage(c, "refused")
    /\ UNCHANGED <<managerVars, started>>

(* A session started without the pool, for insert.                          *)
StartDirect(c) ==
    /\ stage[c] = "none"
    /\ Stage(c, "direct")
    /\ Begins(c, Good)
    /\ UNCHANGED <<sessions, started>>

StartFails(c) ==
    /\ stage[c] \in {"start", "direct"} /\ pc[c] = "failed"
    /\ Stage(c, "refused")
    /\ UNCHANGED <<managerVars, sessions, started>>

(* The check start_with repeats under the lock.  Mutant: it does not.       *)
NoRecheck(c) == TRUE
Recheck(c) == Admits(target[c])

(* insert, and start_with once it has its session.                          *)
Insert(c) ==
    /\ stage[c] \in {"start", "direct"} /\ pc[c] = "own" /\ Recheck(c)
    /\ sessions' = Reaped \cup {c}
    /\ Stage(c, "count")
    /\ UNCHANGED <<managerVars, started>>

Count(c) ==
    /\ stage[c] = "count"
    /\ Stage(c, "returned")
    /\ started' = started + 1
    /\ UNCHANGED <<managerVars, sessions>>

(* terminate is called for the sessions in doomed.                          *)
Terminates(doomed) ==
    /\ ending' = [c \in Calls |-> IF c \in doomed /\ ending[c] = "no" THEN "close" ELSE ending[c]]
    /\ UNCHANGED <<signer, callVars, aws, session, leftover>>

(* start_with gives up the session it has no room for.  Mutant: it asks     *)
(* again until there is room.                                               *)
AsksAgain == "start"
GivesUp == "reject"

Reject(c) ==
    /\ stage[c] = "start" /\ pc[c] = "own" /\ ~Recheck(c)
    /\ sessions' = Reaped
    /\ Stage(c, GivesUp)
    /\ Terminates({c})
    /\ UNCHANGED started

Rejected(c) ==
    /\ stage[c] = "reject" /\ ending[c] = "done"
    /\ Stage(c, "refused")
    /\ UNCHANGED <<managerVars, sessions, started>>

(* insert fails; the session stays with its owner, if that one has kept a   *)
(* reference of its own.                                                    *)
InsertRefused(c) ==
    /\ stage[c] = "direct" /\ pc[c] = "own" /\ ~Admits(target[c])
    /\ sessions' = Reaped
    /\ Stage(c, "refused")
    /\ UNCHANGED <<managerVars, started>>

(* The owner of a session that is not in the pool drops it.                 *)
OwnerDrops(c) ==
    /\ stage[c] \in {"direct", "refused"} /\ pc[c] = "own"
    /\ SessionDropped(c)
    /\ Stage(c, "refused")
    /\ UNCHANGED <<sessions, started>>

(* get, for_target, sessions, session_ids and stats.                        *)
Inspect ==
    /\ sessions' = Reaped
    /\ UNCHANGED <<managerVars, stage, started>>

Terminate(c) ==
    /\ c \in sessions
    /\ sessions' = sessions \ {c}
    /\ Terminates({c})
    /\ UNCHANGED <<stage, started>>

TerminateTarget(t) ==
    LET doomed == {c \in sessions : target[c] = t} IN
    /\ sessions' = sessions \ doomed
    /\ Terminates(doomed)
    /\ UNCHANGED <<stage, started>>

Shutdown ==
    /\ sessions' = {}
    /\ Terminates(sessions)
    /\ UNCHANGED <<stage, started>>

-----------------------------------------------------------------------------
CallerNext(c) ==
    \/ StartFails(c) \/ Insert(c) \/ Count(c) \/ Reject(c) \/ Rejected(c) \/ InsertRefused(c)

Next ==
    \/ ManagerNext /\ UNCHANGED poolVars
    \/ \E c \in Calls :
         \/ \E g \in Configs : StartWith(c, g)
         \/ StartRefused(c) \/ StartDirect(c) \/ CallerNext(c) \/ Terminate(c)
         \/ OwnerDrops(c)
    \/ \E t \in Targets : TerminateTarget(t)
    \/ Inspect \/ Shutdown

Spec == Init /\ [][Next]_vars

(* Calls to AWS return and so, it is assumed, does every dial, which has no *)
(* timeout of its own; the callers' tasks are polled.                       *)
Fairness ==
    \A c \in Calls :
        /\ WF_vars(StartSteps(c) /\ UNCHANGED poolVars)
        /\ WF_vars(TerminateSteps(c) /\ UNCHANGED poolVars)
        /\ WF_vars(CallerNext(c))

FairSpec == Spec /\ Fairness

-----------------------------------------------------------------------------
(* Properties                                                               *)

(* max_sessions and allow_duplicate_targets hold of the map at every moment,*)
(* however many starts pass the first check before any has its session.     *)
LimitHeld ==
    /\ MaxSessions > 0 => Cardinality(sessions) <= MaxSessions
    /\ AllowDuplicates \/ \A c, d \in sessions : target[c] = target[d] => c = d

(* The pool never loses sight of a session it is responsible for: one that  *)
(* it has taken and that nobody has terminated stays in the map while it is *)
(* live.                                                                    *)
TrackedWhileLive ==
    \A c \in Calls :
        stage[c] \in {"count", "returned"} /\ session[c] = "live" /\ ending[c] = "no"
        => c \in sessions

(* start_with and insert return, whatever fails and whoever takes the last  *)
(* place meanwhile, and a session that terminate was called for (start_with *)
(* does for the one it has no room for) is closed in the end.               *)
CallsReturn ==
    \A c \in Calls :
        (stage[c] # "none" \/ ending[c] # "no")
        ~> /\ stage[c] \in {"returned", "refused"}
           /\ ending[c] = "no" \/ (ending[c] = "done" /\ session[c] = "closed")
=============================================================================
