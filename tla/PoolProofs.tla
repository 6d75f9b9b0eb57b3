----------------------------- MODULE PoolProofs -----------------------------
(***************************************************************************)
(* Proofs about SessionPool and SessionManager, for any number of calls,   *)
(* targets, dial attempts and any limit: the pool keeps its limits and     *)
(* sight of its sessions, nothing is left with AWS unasked, and every dial *)
(* attempt has a credential of its own.  And about InteractiveShell, which *)
(* runs over such a session: what is typed reaches the session, and the    *)
(* terminal is left in the mode it was found in.                           *)
(***************************************************************************)
EXTENDS Pool, Shell, FiniteSetTheorems, TLAPS

-----------------------------------------------------------------------------
(* Types                                                                    *)

(* A stream URL says whether it is presigned.                               *)
LEMMA EndpointType == \A url \in Endpoints : url.presigned \in BOOLEAN
<1> TAKE url \in Endpoints
<1>1. CASE \E p \in BOOLEAN : url = [policy |-> "AwsOnly", scheme |-> "wss", host |-> Regional,
                                    presigned |-> p]
  <2> PICK p \in BOOLEAN : url = [policy |-> "AwsOnly", scheme |-> "wss", host |-> Regional,
                                  presigned |-> p]
    BY <1>1, Zenon
  <2>1. url.presigned = p
    OBVIOUS
  <2> QED
    BY <2>1, Zenon
<1>2. CASE ~\E p \in BOOLEAN : url = [policy |-> "AwsOnly", scheme |-> "wss", host |-> Regional,
                                     presigned |-> p]
  <2>1. url.presigned = FALSE
    BY <1>2 DEF Endpoints
  <2> QED
    BY <2>1, Zenon
<1> QED
  BY <1>1, <1>2, Zenon

(* The steps of start_session keep the types of the manager.                *)
LEMMA StartStepsType ==
    ASSUME ManagerTypeOK, NEW c \in Calls, StartSteps(c)
    PROVE  ManagerTypeOK'
<1> USE ManagerAssumption DEF ManagerTypeOK, Goes, OnOpenFailure, DialOver
<1>1. CASE RequestFails(c)
  BY <1>1, Zenon DEF RequestFails
<1>2. CASE RequestIncomplete(c)
  BY <1>2, Zenon DEF RequestIncomplete
<1>3. CASE \E url \in Endpoints : RequestSucceeds(c, url)
  <2> PICK url \in Endpoints : RequestSucceeds(c, url)
    BY <1>3, Zenon
  <2> DEFINE signs == url.presigned
  <2>1. signs \in BOOLEAN
    BY EndpointType, Zenon
  <2>2. presigned' \in [Calls -> BOOLEAN]
    <3>1. presigned' = [presigned EXCEPT ![c] = signs] \/ presigned' = [presigned EXCEPT ![c] = FALSE]
      BY Zenon DEF RequestSucceeds
    <3> HIDE DEF signs
    <3> QED
      BY <3>1, <2>1, Zenon
  <2> QED
    BY <2>2 DEF RequestSucceeds
<1>4. CASE Sign(c)
  BY <1>4, Zenon DEF Sign
<1>5. CASE DialRetries(c)
  BY <1>5 DEF DialRetries, Retries
<1>6. CASE DialConnects(c)
  BY <1>6 DEF DialConnects
<1>7. CASE OpenFails(c)
  BY <1>7 DEF OpenFails
<1>8. CASE OpenSucceeds(c)
  BY <1>8, Zenon DEF OpenSucceeds
<1>9. CASE Release(c)
  BY <1>9, Zenon DEF Release, CallsTerminateSession
<1> QED
  BY <1>1, <1>2, <1>3, <1>4, <1>5, <1>6, <1>7, <1>8, <1>9, Zenon DEF StartSteps

(* So do the end of a session and the steps of terminate.                   *)
LEMMA EndStepsType ==
    ASSUME ManagerTypeOK, NEW c \in Calls, TerminateSteps(c) \/ SessionEnds(c)
    PROVE  ManagerTypeOK'
<1> USE DEF ManagerTypeOK, callVars
<1>1. CASE TerminateCloses(c)
  BY <1>1, Zenon DEF TerminateCloses
<1>2. CASE TerminateCalls(c)
  BY <1>2 DEF TerminateCalls, CallsTerminateSession
<1>3. CASE SessionEnds(c)
  BY <1>3, Zenon DEF SessionEnds
<1> QED
  BY <1>1, <1>2, <1>3, Zenon DEF TerminateSteps

(* Every variable of the manager and the pool keeps its type.               *)
LEMMA TypeStep == TypeOK /\ [Next]_vars => TypeOK'
<1> SUFFICES ASSUME TypeOK, [Next]_vars PROVE TypeOK'
  OBVIOUS
<1> USE DEF TypeOK, Stage, Reaped
<1> DEFINE Same == UNCHANGED managerVars
<1>a. Same => ManagerTypeOK'
  BY DEF managerVars, callVars, ManagerTypeOK
<1>b. ASSUME NEW doomed, Terminates(doomed) PROVE ManagerTypeOK'
  BY <1>b, Zenon DEF Terminates, callVars, ManagerTypeOK
<1>c. ASSUME NEW c \in Calls, NEW g, Begins(c, g) PROVE ManagerTypeOK'
  BY <1>c, Zenon DEF Begins, Goes, ManagerTypeOK
<1>1. CASE ManagerNext /\ UNCHANGED poolVars
  BY <1>1, StartStepsType, EndStepsType, Zenon DEF ManagerNext, poolVars
<1>2. ASSUME NEW c \in Calls, NEW g, StartWith(c, g) PROVE TypeOK'
  BY <1>2, <1>c, Zenon DEF StartWith
<1>3. ASSUME NEW c \in Calls, StartRefused(c) PROVE TypeOK'
  BY <1>3, <1>a, Zenon DEF StartRefused
<1>4. ASSUME NEW c \in Calls, StartDirect(c) PROVE TypeOK'
  BY <1>4, <1>c, Zenon DEF StartDirect
<1>5. ASSUME NEW c \in Calls, CallerNext(c) PROVE TypeOK'
  <2>1. CASE StartFails(c)
    BY <2>1, <1>a, Zenon DEF StartFails
  <2>2. CASE Insert(c)
    BY <2>2, <1>a, Zenon DEF Insert
  <2>3. CASE Count(c)
    BY <2>3, <1>a DEF Count
  <2>4. CASE Reject(c)
    BY <2>4, <1>b, Zenon DEF Reject, GivesUp
  <2>5. CASE Rejected(c)
    BY <2>5, <1>a, Zenon DEF Rejected
  <2>6. CASE InsertRefused(c)
    BY <2>6, <1>a, Zenon DEF InsertRefused
  <2> QED
    BY <1>5, <2>1, <2>2, <2>3, <2>4, <2>5, <2>6, Zenon DEF CallerNext
<1>6. ASSUME NEW c \in Calls, Terminate(c) PROVE TypeOK'
  BY <1>6, <1>b, Zenon DEF Terminate
<1>7. ASSUME NEW t \in Targets, TerminateTarget(t) PROVE TypeOK'
  BY <1>7, <1>b, Zenon DEF TerminateTarget
<1>8. CASE Inspect
  BY <1>8, <1>a, Zenon DEF Inspect
<1>9. CASE Shutdown
  BY <1>9, <1>b, Zenon DEF Shutdown
<1>10. ASSUME NEW c \in Calls, OwnerDrops(c) PROVE TypeOK'
  BY <1>10, Zenon DEF OwnerDrops, SessionDropped, callVars, ManagerTypeOK
<1>11. CASE UNCHANGED vars
  BY <1>11, <1>a, Zenon DEF vars, poolVars
<1> QED
  BY <1>1, <1>2, <1>3, <1>4, <1>5, <1>6, <1>7, <1>8, <1>9, <1>10, <1>11, Zenon DEF Next

(* Init has the types.                                                      *)
LEMMA TypeInit == Init => TypeOK
  BY ManagerAssumption DEF Init, ManagerInit, TypeOK, ManagerTypeOK

(* Every variable of the manager and the pool keeps its type for ever.      *)
THEOREM PoolTypeCorrect == Spec => []TypeOK
  BY TypeInit, TypeStep, PTL DEF Spec

-----------------------------------------------------------------------------
(* The limits                                                               *)

(* The part of the invariant about the map: it is finite, and within its    *)
(* limits.                                                                  *)
MapInv == IsFiniteSet(sessions) /\ LimitHeld

(* Targets are fixed, and only Insert adds to the map: the one session that *)
(* admit let in.                                                            *)
LEMMA MapSteps ==
    ASSUME TypeOK, [Next]_vars
    PROVE  /\ target' = target
           /\ \/ sessions' \subseteq sessions
              \/ \E c \in Calls : Admits(target[c]) /\ sessions' = Reaped \cup {c}
<1> USE DEF Reaped, managerVars, callVars, poolVars
<1>1. CASE ManagerNext /\ UNCHANGED poolVars
  <2>1. PICK c \in Calls : StartSteps(c) \/ TerminateSteps(c) \/ SessionEnds(c)
    BY <1>1, Zenon DEF ManagerNext
  <2>2. CASE StartSteps(c)
    BY <1>1, <2>2, Zenon DEF StartSteps, RequestFails, RequestIncomplete, RequestSucceeds, Sign, DialRetries,
       DialConnects, OpenFails, OpenSucceeds, Release
  <2>3. CASE TerminateSteps(c) \/ SessionEnds(c)
    BY <1>1, <2>3, Zenon DEF TerminateSteps, TerminateCloses, TerminateCalls, SessionEnds
  <2> QED
    BY <2>1, <2>2, <2>3, Zenon
<1>2. ASSUME NEW c \in Calls, NEW g, StartWith(c, g) PROVE target' = target /\ sessions' \subseteq sessions
  BY <1>2, Zenon DEF StartWith, Begins
<1>3. ASSUME NEW c \in Calls,
             StartRefused(c) \/ StartDirect(c) \/ Terminate(c) \/ OwnerDrops(c)
      PROVE target' = target /\ sessions' \subseteq sessions
  BY <1>3, Zenon DEF StartRefused, StartDirect, Begins, Terminate, Terminates, OwnerDrops,
     SessionDropped
<1>4. ASSUME NEW c \in Calls, CallerNext(c), ~Insert(c)
      PROVE target' = target /\ sessions' \subseteq sessions
  BY <1>4, Zenon DEF CallerNext, StartFails, Count, Reject, Terminates, Rejected, InsertRefused
<1>5. ASSUME NEW c \in Calls, Insert(c)
      PROVE target' = target /\ Admits(target[c]) /\ sessions' = Reaped \cup {c}
  BY <1>5, Zenon DEF Insert, Recheck
<1>6. CASE \/ \E t \in Targets : TerminateTarget(t)
           \/ Inspect \/ Shutdown
  BY <1>6, Zenon DEF TerminateTarget, Inspect, Shutdown, Terminates
<1>7. CASE UNCHANGED vars
  BY <1>7, Zenon DEF vars
<1> HIDE DEF Reaped, managerVars, callVars, poolVars
<1> QED
  BY <1>1, <1>2, <1>3, <1>4, <1>5, <1>6, <1>7, Zenon DEF Next

(* Both checks of admit are made on what reap leaves, under the lock under  *)
(* which the session is then inserted.                                      *)
LEMMA MapStep == TypeOK /\ MapInv /\ [Next]_vars => MapInv'
<1> SUFFICES ASSUME TypeOK, MapInv, [Next]_vars PROVE MapInv'
  OBVIOUS
<1>1. target' = target
  BY MapSteps, Zenon
<1>2. CASE sessions' \subseteq sessions
  <2>1. IsFiniteSet(sessions') /\ Cardinality(sessions') <= Cardinality(sessions)
    BY <1>2, FS_Subset, Zenon DEF MapInv
  <2>2. Cardinality(sessions) \in Nat /\ Cardinality(sessions') \in Nat
    BY <2>1, FS_CardinalityType, Zenon DEF MapInv
  <2> QED
    BY <1>1, <1>2, <2>1, <2>2, PoolAssumption DEF MapInv, LimitHeld
<1>3. ASSUME NEW c \in Calls, Admits(target[c]), sessions' = Reaped \cup {c} PROVE MapInv'
  <2>1. Reaped \subseteq sessions
    BY Zenon DEF Reaped
  <2>2. IsFiniteSet(Reaped)
    BY <2>1, FS_Subset, Zenon DEF MapInv
  <2>3. IsFiniteSet(sessions') /\ Cardinality(sessions') <= Cardinality(Reaped) + 1
    <3>1. \/ Cardinality(Reaped \cup {c}) = Cardinality(Reaped)
          \/ Cardinality(Reaped \cup {c}) = Cardinality(Reaped) + 1
      BY <2>2, FS_AddElement, Zenon
    <3>2. IsFiniteSet(Reaped \cup {c})
      BY <2>2, FS_AddElement, Zenon
    <3>3. Cardinality(Reaped) \in Nat
      BY <2>2, FS_CardinalityType, Zenon
    <3> QED
      BY <1>3, <3>1, <3>2, <3>3
  <2>4. Cardinality(Reaped) \in Nat /\ Cardinality(sessions') \in Nat
    BY <2>2, <2>3, FS_CardinalityType, Zenon
  <2>5. MaxSessions > 0 => Cardinality(sessions') <= MaxSessions
    BY <1>3, <2>3, <2>4, PoolAssumption DEF Admits
  <2>6. AllowDuplicates \/ \A d, e \in sessions' : target'[d] = target'[e] => d = e
    BY <1>1, <1>3, <2>1, Zenon DEF Admits, MapInv, LimitHeld
  <2> QED
    BY <2>3, <2>5, <2>6, Zenon DEF MapInv, LimitHeld
<1> QED
  BY <1>2, <1>3, MapSteps, Zenon

(* max_sessions and allow_duplicate_targets hold of the map at every        *)
(* moment, whatever the number of concurrent starts.                        *)
THEOREM LimitAlwaysHeld == Spec => []LimitHeld
<1>1. Init => MapInv
  BY FS_EmptySet, PoolAssumption DEF Init, MapInv, LimitHeld
<1>2. MapInv => LimitHeld
  BY Zenon DEF MapInv
<1> QED
  BY <1>1, <1>2, MapStep, PoolTypeCorrect, PTL DEF Spec

-----------------------------------------------------------------------------
(* Sight of the sessions, and their release                                 *)

(* A session the pool has taken is one that was opened: nothing opens it    *)
(* again after it was terminated.                                           *)
OwnedInv ==
    \A c \in Calls : stage[c] \in {"count", "returned"} => pc[c] = "own"

(* Terminating sessions keeps sight of the others: what leaves the map is   *)
(* among them, or closed.                                                   *)
LEMMA TerminatesKeep ==
    ASSUME TypeOK, OwnedInv, NoneForgotten, TrackedWhileLive, NEW doomed, Terminates(doomed),
           \A c \in sessions : c \in sessions' \/ c \in doomed \/ session[c] # "live",
           \A c \in Calls : stage'[c] \in {"count", "returned"} => stage[c] = stage'[c]
    PROVE  OwnedInv' /\ NoneForgotten' /\ TrackedWhileLive'
<1>1. pc' = pc /\ session' = session /\ aws' = aws /\ leftover' = leftover
  BY Zenon DEF Terminates, callVars
<1>2. \A c \in Calls : /\ ending'[c] = "no" => ending[c] = "no" /\ c \notin doomed
                       /\ ending[c] = "call" => ending'[c] = "call"
  BY Zenon DEF Terminates
<1>3. OwnedInv'
  BY <1>1, Zenon DEF OwnedInv
<1>4. NoneForgotten'
  BY <1>1, <1>2, Zenon DEF NoneForgotten
<1>5. TrackedWhileLive'
  BY <1>1, <1>2, Zenon DEF TrackedWhileLive
<1> QED
  BY <1>3, <1>4, <1>5, Zenon

(* A call of start_session in progress is not yet the pool's, so what it    *)
(* does cannot take a session from the map, nor forget one with AWS.        *)
LEMMA StartStepsKeep ==
    ASSUME TypeOK, OwnedInv, NoneForgotten, TrackedWhileLive,
           NEW c \in Calls, StartSteps(c), UNCHANGED poolVars
    PROVE  OwnedInv' /\ NoneForgotten' /\ TrackedWhileLive'
<1> USE DEF TypeOK, ManagerTypeOK, OwnedInv, NoneForgotten, TrackedWhileLive, poolVars, Goes,
            OnOpenFailure
<1>1. CASE RequestFails(c)
  BY <1>1 DEF RequestFails
<1>2. CASE RequestIncomplete(c)
  BY <1>2 DEF RequestIncomplete
<1>3. CASE \E url \in Endpoints : RequestSucceeds(c, url)
  BY <1>3 DEF RequestSucceeds
<1>4. CASE Sign(c)
  BY <1>4 DEF Sign
<1>5. CASE DialRetries(c)
  BY <1>5 DEF DialRetries
<1>6. CASE DialConnects(c)
  BY <1>6 DEF DialConnects
<1>7. CASE OpenFails(c)
  BY <1>7 DEF OpenFails
<1>8. CASE OpenSucceeds(c)
  BY <1>8 DEF OpenSucceeds
<1>9. CASE Release(c)
  BY <1>9 DEF Release, CallsTerminateSession
<1> QED
  BY <1>1, <1>2, <1>3, <1>4, <1>5, <1>6, <1>7, <1>8, <1>9, Zenon DEF StartSteps

(* A session that ends is released by whoever ends it: terminate calls AWS  *)
(* when it is the one that closes, and leaves a broken session otherwise.   *)
LEMMA EndStepsKeep ==
    ASSUME TypeOK, OwnedInv, NoneForgotten, TrackedWhileLive,
           NEW c \in Calls, TerminateSteps(c) \/ SessionEnds(c), UNCHANGED poolVars
    PROVE  OwnedInv' /\ NoneForgotten' /\ TrackedWhileLive'
<1> USE DEF TypeOK, ManagerTypeOK, OwnedInv, NoneForgotten, TrackedWhileLive, poolVars, callVars
<1>1. CASE TerminateCloses(c)
  BY <1>1 DEF TerminateCloses, First
<1>2. CASE TerminateCalls(c)
  BY <1>2 DEF TerminateCalls, CallsTerminateSession
<1>3. CASE SessionEnds(c)
  BY <1>3 DEF SessionEnds
<1> QED
  BY <1>1, <1>2, <1>3, Zenon DEF TerminateSteps

(* A step of the pool takes a session out of the map only when it is closed *)
(* or terminate is called for it.                                           *)
LEMMA PoolStepsKeep ==
    ASSUME TypeOK, OwnedInv, NoneForgotten, TrackedWhileLive,
           \/ \E c \in Calls :
                \/ \E g \in Configs : StartWith(c, g)
                \/ StartRefused(c) \/ StartDirect(c) \/ CallerNext(c) \/ Terminate(c)
                \/ OwnerDrops(c)
           \/ \E t \in Targets : TerminateTarget(t)
           \/ Inspect \/ Shutdown
    PROVE  OwnedInv' /\ NoneForgotten' /\ TrackedWhileLive'
<1> USE DEF TypeOK, ManagerTypeOK, OwnedInv, NoneForgotten, TrackedWhileLive, Reaped, Stage
<1>1. ASSUME NEW c \in Calls, NEW g, StartWith(c, g)
      PROVE OwnedInv' /\ NoneForgotten' /\ TrackedWhileLive'
  BY <1>1 DEF StartWith, Begins, Goes
<1>2. ASSUME NEW c \in Calls, StartDirect(c)
      PROVE OwnedInv' /\ NoneForgotten' /\ TrackedWhileLive'
  BY <1>2 DEF StartDirect, Begins, Goes
<1>3. ASSUME NEW c \in Calls,
             StartRefused(c) \/ StartFails(c) \/ Insert(c) \/ Count(c) \/ Rejected(c) \/ InsertRefused(c)
      PROVE OwnedInv' /\ NoneForgotten' /\ TrackedWhileLive'
  BY <1>3 DEF StartRefused, StartFails, Insert, Count, Rejected, InsertRefused, managerVars, callVars
<1>4. ASSUME NEW c \in Calls, Reject(c)
      PROVE OwnedInv' /\ NoneForgotten' /\ TrackedWhileLive'
  <2>1. /\ Terminates({c})
        /\ \A d \in sessions : d \in sessions' \/ d \in {c} \/ session[d] # "live"
        /\ \A d \in Calls : stage'[d] \in {"count", "returned"} => stage[d] = stage'[d]
    BY <1>4, Zenon DEF Reject, GivesUp
  <2> QED
    BY <2>1, TerminatesKeep, Zenon
<1>5. ASSUME NEW c \in Calls, Terminate(c)
      PROVE OwnedInv' /\ NoneForgotten' /\ TrackedWhileLive'
  <2>1. /\ Terminates({c})
        /\ \A d \in sessions : d \in sessions' \/ d \in {c} \/ session[d] # "live"
        /\ \A d \in Calls : stage'[d] \in {"count", "returned"} => stage[d] = stage'[d]
    BY <1>5, Zenon DEF Terminate
  <2> QED
    BY <2>1, TerminatesKeep, Zenon
<1>6. ASSUME NEW t \in Targets, TerminateTarget(t)
      PROVE OwnedInv' /\ NoneForgotten' /\ TrackedWhileLive'
  <2> DEFINE doomed == {c \in sessions : target[c] = t}
  <2>1. /\ Terminates(doomed)
        /\ \A d \in sessions : d \in sessions' \/ d \in doomed \/ session[d] # "live"
        /\ \A d \in Calls : stage'[d] \in {"count", "returned"} => stage[d] = stage'[d]
    BY <1>6, Zenon DEF TerminateTarget
  <2> HIDE DEF doomed
  <2> QED
    BY <2>1, TerminatesKeep, Zenon
<1>7. CASE Inspect
  BY <1>7, Zenon DEF Inspect, managerVars, callVars
<1>8. CASE Shutdown
  <2>1. /\ Terminates(sessions)
        /\ \A d \in sessions : d \in sessions' \/ d \in sessions \/ session[d] # "live"
        /\ \A d \in Calls : stage'[d] \in {"count", "returned"} => stage[d] = stage'[d]
    BY <1>8, Zenon DEF Shutdown
  <2> QED
    BY <2>1, TerminatesKeep, Zenon
<1>9. ASSUME NEW c \in Calls, OwnerDrops(c)
      PROVE OwnedInv' /\ NoneForgotten' /\ TrackedWhileLive'
  BY <1>9 DEF OwnerDrops, SessionDropped, callVars
<1> QED
  BY <1>1, <1>2, <1>3, <1>4, <1>5, <1>6, <1>7, <1>8, <1>9, Zenon DEF CallerNext

(* The pool never loses sight of a live session it has taken, and AWS is    *)
(* left with no session that start_session or terminate should release; one *)
(* dropped without terminate is left with AWS.                              *)
THEOREM NoneLost == Spec => [](TrackedWhileLive /\ NoneForgotten)
<1> DEFINE Inv == OwnedInv /\ NoneForgotten /\ TrackedWhileLive
<1>1. Init => Inv
  BY Zenon DEF Init, ManagerInit, OwnedInv, NoneForgotten, TrackedWhileLive
<1>2. TypeOK /\ Inv /\ [Next]_vars => Inv'
  <2> SUFFICES ASSUME TypeOK, Inv, [Next]_vars PROVE Inv'
    OBVIOUS
  <2>1. CASE ManagerNext /\ UNCHANGED poolVars
    BY <2>1, StartStepsKeep, EndStepsKeep, Zenon DEF ManagerNext
  <2>2. CASE UNCHANGED vars
    BY <2>2, Zenon DEF vars, managerVars, callVars, poolVars, OwnedInv, NoneForgotten, TrackedWhileLive
  <2> QED
    BY <2>1, <2>2, PoolStepsKeep, Zenon DEF Next
<1> QED
  BY <1>1, <1>2, PoolTypeCorrect, PTL DEF Spec

(* A session that start_with or insert has returned stays in the map while  *)
(* it is live and nobody has terminated it.                                 *)
THEOREM LiveStaysTracked == Spec => []TrackedWhileLive
  BY NoneLost, PTL

-----------------------------------------------------------------------------
(* Credentials                                                              *)

(* Nothing is signed before the dial, nor ever for a presigned URL.         *)
SignedInv ==
    /\ \A c \in Calls : pc[c] \in {"idle", "request"} => signed[c] = 0
    /\ \A c \in Calls : pc[c] \in {"sign", "dial"} /\ presigned[c] = TRUE => signed[c] = 0
    /\ \A c \in Calls :
         pc[c] = "dial" /\ signer = TRUE /\ presigned[c] = FALSE => signed[c] = attempt[c]

(* FreshCredential, said without a condition on a Boolean.                  *)
LEMMA SignedIsFresh == TypeOK /\ SignedInv => FreshCredential
<1> SUFFICES ASSUME TypeOK, SignedInv, NEW c \in Calls, pc[c] = "dial" /\ signer
             PROVE  IF presigned[c] THEN signed[c] = 0 ELSE signed[c] = attempt[c]
  BY Zenon DEF FreshCredential
<1>1. presigned[c] \in BOOLEAN /\ signer = TRUE
  BY Zenon DEF TypeOK, ManagerTypeOK
<1> QED
  BY <1>1, Zenon DEF SignedInv

(* Only the steps of dial touch a signature.                                *)
LEMMA SignedStep == TypeOK /\ SignedInv /\ [Next]_vars => SignedInv'
<1> SUFFICES ASSUME TypeOK, SignedInv, [Next]_vars PROVE SignedInv'
  OBVIOUS
<1> USE DEF TypeOK, ManagerTypeOK, SignedInv, Goes
<1>1. ASSUME NEW c \in Calls, StartSteps(c) PROVE SignedInv'
  <2> USE DEF OnOpenFailure, DialOver
  <2>1. CASE RequestFails(c) \/ RequestIncomplete(c) \/ Release(c)
    BY <2>1 DEF RequestFails, RequestIncomplete, Release
  <2>2. CASE \E url \in Endpoints : RequestSucceeds(c, url)
    BY <2>2 DEF RequestSucceeds
  <2>3. CASE Sign(c)
    BY <2>3 DEF Sign, Signs
  <2>4. CASE DialRetries(c)
    BY <2>4 DEF DialRetries
  <2>5. CASE DialConnects(c)
    BY <2>5 DEF DialConnects
  <2>6. CASE OpenFails(c)
    BY <2>6 DEF OpenFails
  <2>7. CASE OpenSucceeds(c)
    BY <2>7 DEF OpenSucceeds
  <2> QED
    BY <1>1, <2>1, <2>2, <2>3, <2>4, <2>5, <2>6, <2>7, Zenon DEF StartSteps
<1>2. ASSUME NEW c \in Calls, NEW g, Begins(c, g) PROVE SignedInv'
  BY <1>2 DEF Begins
<1>3. CASE UNCHANGED <<signer, callVars>>
  BY <1>3, Zenon DEF callVars
<1> HIDE DEF TypeOK, ManagerTypeOK, SignedInv, Goes
<1>4. CASE ManagerNext
  BY <1>1, <1>3, <1>4, Zenon DEF ManagerNext, TerminateSteps, TerminateCloses, TerminateCalls, SessionEnds
<1>5. CASE \E c \in Calls : StartDirect(c) \/ \E g \in Configs : StartWith(c, g)
  BY <1>2, <1>5, Zenon DEF StartDirect, StartWith
<1>6. CASE \/ \E c \in Calls : StartRefused(c) \/ CallerNext(c) \/ Terminate(c) \/ OwnerDrops(c)
           \/ \E t \in Targets : TerminateTarget(t)
           \/ Inspect \/ Shutdown
  BY <1>3, <1>6, Zenon DEF StartRefused, CallerNext, StartFails, Insert, Count, Reject, Rejected,
     InsertRefused, Terminate, OwnerDrops, SessionDropped, TerminateTarget, Inspect, Shutdown,
     Terminates, managerVars
<1>7. CASE UNCHANGED vars
  BY <1>3, <1>7, Zenon DEF vars, managerVars
<1> QED
  BY <1>4, <1>5, <1>6, <1>7, Zenon DEF Next

(* dial: every upgrade request carries one credential, that of a presigned  *)
(* URL or a signature of this very attempt, whatever the number of retries. *)
THEOREM CredentialAlwaysFresh == Spec => []FreshCredential
<1>1. Init => SignedInv
  BY DEF Init, ManagerInit, SignedInv
<1> QED
  BY <1>1, SignedStep, SignedIsFresh, PoolTypeCorrect, PTL DEF Spec

-----------------------------------------------------------------------------
(* The interactive shell                                                    *)

(* An event that TerminalReader may queue.                                  *)
AnyEvent == {Eof} \cup {Input(k) : k \in Nat} \cup {Resize(n) : n \in Nat}

(* The events are told apart by their kind, and a key by its number.        *)
LEMMA EventKinds ==
    /\ \A k \in Nat : /\ Input(k) \in AnyEvent /\ Input(k) # None /\ Input(k) # Eof
                      /\ \A n : Input(k) # Resize(n)
                      /\ \A l \in Nat : Input(k) = Input(l) => k = l
    /\ \A n \in Nat : Resize(n) \in AnyEvent
    /\ \A n : Resize(n) # Eof
    /\ Eof \in AnyEvent /\ Eof # None
<1>1. \A k : Input(k).kind = "Input" /\ Input(k).key = k
  BY DEF Input
<1>2. \A n : Resize(n).kind = "Resize"
  BY DEF Resize
<1>3. Eof.kind = "Eof" /\ None.kind = "None"
  BY DEF Eof, None
<1>4. \A k : Input(k) # None /\ Input(k) # Eof /\ \A n : Input(k) # Resize(n)
  BY <1>1, <1>2, <1>3
<1>5. ASSUME NEW k, NEW l, Input(k) = Input(l) PROVE k = l
  <2>1. Input(k).key = k /\ Input(l).key = l
    BY <1>1
  <2> QED
    BY <1>5, <2>1
<1>6. (\A n : Resize(n) # Eof) /\ Eof # None
  BY <1>2, <1>3
<1> QED
  BY <1>4, <1>5, <1>6, Zenon DEF AnyEvent

(* What an event is by its kind, as SendDone reads it.                      *)
LEMMA KeyOfEvent ==
    ASSUME NEW e \in AnyEvent \cup {None}
    PROVE  IF e.kind = "Input" THEN e.key \in Nat /\ e = Input(e.key)
           ELSE \A k : e # Input(k)
<1>1. CASE e = Eof \/ e = None \/ \E n \in Nat : e = Resize(n)
  <2>1. e.kind # "Input"
    BY <1>1 DEF Eof, None, Resize
  <2>2. \A k : Input(k).kind = "Input"
    BY DEF Input
  <2> QED
    BY <2>1, <2>2, Zenon
<1>2. CASE \E k \in Nat : e = Input(k)
  <2>1. PICK k \in Nat : e = Input(k)
    BY <1>2
  <2>2. e.kind = "Input" /\ e.key = k
    BY <2>1 DEF Input
  <2> QED
    BY <2>1, <2>2, Zenon
<1> QED
  BY <1>1, <1>2, Zenon DEF AnyEvent

(* The keys on their way, from the stdin thread through the queue to the    *)
(* shell: ascending, above what is sent, and none missing.  After the end   *)
(* of stdin comes no key.                                                   *)
Queued(k) == \E i \in 1..Len(events) : events[i] = Input(k)

InTransit ==
    /\ typed <= keys
    /\ \A k \in Nat : Queued(k) => typed < k /\ k <= keys
    /\ \A i, j \in 1..Len(events) : \A k, l \in Nat :
           i < j /\ events[i] = Input(k) /\ events[j] = Input(l) => k < l
    /\ \A k \in Nat : event = Input(k) =>
           k = typed + 1 /\ k <= keys /\ \A l \in Nat : Queued(l) => k < l
    /\ \A k \in Nat : input = Input(k) =>
           /\ k = keys /\ typed < k
           /\ \A l \in Nat : Queued(l) \/ event = Input(l) => l < k
    /\ \A k \in Nat : typed < k /\ k <= keys =>
           Queued(k) \/ event = Input(k) \/ input = Input(k)
    /\ \A i \in 1..Len(events) : events[i] = Eof =>
           /\ stdin = "stopped"
           /\ \A j \in 1..Len(events) : \A k \in Nat : i < j => events[j] # Input(k)
    /\ input # None <=> stdin = "send"

(* It holds until pump returns; at the end of stdin nothing is on its way.  *)
KeysInv ==
    /\ typed \in Nat /\ keys \in Nat /\ size \in Nat /\ last \in Nat
    /\ events \in Seq(AnyEvent) /\ event \in AnyEvent \cup {None}
    /\ input \in AnyEvent \cup {None}
    /\ shell \notin {"sizing", "sending"} => event = None
    /\ shell = "sizing" => \A k : event # Input(k)
    /\ cause # "none" => shell \in {"restore", "terminate", "returned"}
    /\ stdin # "none" => Receiving \/ cause # "none"
    /\ cause = "none" => InTransit
    /\ cause = "eof" => typed = keys /\ stdin = "stopped"

(* A step that moves no key.                                                *)
LEMMA TransitKept ==
    ASSUME InTransit, typed' = typed, keys' = keys, events' = events,
           \A k \in Nat : event' = Input(k) <=> event = Input(k),
           \A k \in Nat : input' = Input(k) <=> input = Input(k),
           input' # None <=> stdin' = "send",
           stdin = "stopped" => stdin' = "stopped"
    PROVE  InTransit'
<1>1. \A k : Queued(k)' <=> Queued(k)
  BY Zenon DEF Queued
<1>2. /\ \A i, j \in 1..Len(events)' : \A k, l \in Nat :
             i < j /\ events'[i] = Input(k) /\ events'[j] = Input(l) => k < l
      /\ \A i \in 1..Len(events)' : events'[i] = Eof =>
             /\ stdin' = "stopped"
             /\ \A j \in 1..Len(events)' : \A k \in Nat : i < j => events'[j] # Input(k)
  BY DEF InTransit
<1>3. typed' <= keys' /\ \A k \in Nat : Queued(k)' => typed' < k /\ k <= keys'
  BY <1>1, Zenon DEF InTransit
<1>4. \A k \in Nat : event' = Input(k) =>
          k = typed' + 1 /\ k <= keys' /\ \A l \in Nat : Queued(l)' => k < l
  BY <1>1, Zenon DEF InTransit
<1>5. \A k \in Nat : input' = Input(k) =>
          /\ k = keys' /\ typed' < k
          /\ \A l \in Nat : Queued(l)' \/ event' = Input(l) => l < k
  BY <1>1, Zenon DEF InTransit
<1>6. \A k \in Nat : typed' < k /\ k <= keys' =>
          Queued(k)' \/ event' = Input(k) \/ input' = Input(k)
  BY <1>1, Zenon DEF InTransit
<1> QED
  BY <1>2, <1>3, <1>4, <1>5, <1>6, Zenon DEF InTransit

(* A step that leaves the keys, the queue and the stdin thread alone keeps  *)
(* it, if drive stays on its side of pump and sends nothing else.           *)
LEMMA KeysKept ==
    ASSUME KeysInv, UNCHANGED <<typed, keys, last, events, event, input, stdin, cause>>,
           size' \in Nat,
           \/ UNCHANGED shell
           \/ shell \in Polling /\ shell' \in Polling
           \/ /\ shell \notin Polling \cup {"sizing", "sending"}
              /\ shell' \notin Polling \cup {"sizing", "sending"}
              /\ cause # "none" => shell' \in {"restore", "terminate", "returned"}
    PROVE  KeysInv'
<1>1. InTransit => InTransit'
  <2>1. InTransit => (input' # None <=> stdin' = "send")
    BY Zenon DEF InTransit
  <2> QED
    BY <2>1, TransitKept, Zenon
<1>2. Receiving => Receiving'
  BY Zenon DEF Receiving
<1>3. (shell' \notin {"sizing", "sending"} => event = None)
      /\ (shell' = "sizing" => \A k : event # Input(k))
  BY Zenon DEF KeysInv, Polling
<1>4. cause # "none" => shell' \in {"restore", "terminate", "returned"}
  BY Zenon DEF KeysInv, Polling
<1> QED
  BY <1>1, <1>2, <1>3, <1>4, Zenon DEF KeysInv

(* drive around pump: what it sends is no key.                              *)
LEMMA KeysDrive ==
    ASSUME KeysInv,
           \/ Start \/ WaitReady \/ WaitFails \/ EnterRaw \/ EnterFails \/ ReadSize
           \/ SendSize \/ SendSizeFails \/ StartReader \/ RestoreTerminal
           \/ TerminateSession
    PROVE  KeysInv' /\ UNCHANGED <<typed, keys, cause>>
<1> USE DEF Returns, terminalVars, threadVars
<1>0. size \in Nat
  BY Zenon DEF KeysInv
<1>1. CASE Start \/ WaitReady \/ WaitFails \/ EnterRaw \/ EnterFails \/ RestoreTerminal
           \/ TerminateSession
  <2>1. /\ UNCHANGED <<typed, keys, last, events, event, input, stdin, cause, size>>
        /\ shell \notin Polling \cup {"sizing", "sending"}
        /\ shell' \notin Polling \cup {"sizing", "sending"}
        /\ shell' \in {"restore", "terminate", "returned"}
           \/ shell \notin {"restore", "terminate", "returned"}
    BY <1>1, Zenon DEF Start, WaitReady, WaitFails, EnterRaw, EnterFails,
       RestoreTerminal, TerminateSession, Polling
  <2>2. cause # "none" => shell \in {"restore", "terminate", "returned"}
    BY Zenon DEF KeysInv
  <2> QED
    BY <1>0, <2>1, <2>2, KeysKept, Zenon
<1>2. CASE ReadSize \/ SendSize \/ SendSizeFails
  <2>1. /\ UNCHANGED <<typed, keys, last, events, input, stdin, cause, size>>
        /\ shell \in {"size", "sizing"}
        /\ \/ shell' = "sizing" /\ event' = Resize(size)
           \/ shell' \in {"reader", "returned"} /\ event' = None
    BY <1>2, Zenon DEF ReadSize, SendSize, SendSizeFails
  <2>2. event' \in AnyEvent \cup {None} /\ \A k \in Nat : event' # Input(k)
    BY <1>0, <2>1, EventKinds, Zenon
  <2>3. cause = "none" /\ stdin = "none" /\ \A k \in Nat : event # Input(k)
    BY <2>1, EventKinds, Zenon DEF KeysInv, Receiving, Polling
  <2>4. InTransit'
    <3>1. InTransit /\ (input' # None <=> stdin' = "send")
      BY <2>1, <2>3, Zenon DEF KeysInv, InTransit
    <3> QED
      BY <2>1, <2>2, <2>3, <3>1, TransitKept, Zenon
  <2>5. \A k : Resize(size) # Input(k)
    BY DEF Resize, Input
  <2> QED
    BY <2>1, <2>2, <2>3, <2>4, <2>5, Zenon DEF KeysInv
<1>3. CASE StartReader
  <2>1. /\ UNCHANGED <<typed, keys, last, events, event, input, cause, size>>
        /\ shell = "reader" /\ shell' = "pump" /\ stdin' = "check"
    BY <1>3, Zenon DEF StartReader
  <2>2. cause = "none" /\ stdin = "none" /\ event = None
    BY <2>1, Zenon DEF KeysInv, Receiving, Polling
  <2>3. InTransit'
    <3>1. InTransit /\ input = None
      BY <2>2, Zenon DEF KeysInv, InTransit
    <3> QED
      BY <2>1, <2>2, <3>1, TransitKept, Zenon
  <2>4. Receiving'
    BY <2>1, Zenon DEF Receiving, Polling
  <2> QED
    BY <2>1, <2>2, <2>3, <2>4, Zenon DEF KeysInv
<1> QED
  BY <1>1, <1>2, <1>3, Zenon

(* The arms of pump that take nothing from the terminal.                    *)
LEMMA KeysPump ==
    ASSUME KeysInv,
           \/ ShowOutput \/ ShowFails \/ OutputEnded \/ OutputIdle \/ InputIdle
           \/ SeeClosed \/ SleepInPump \/ SendFails
    PROVE  KeysInv' /\ UNCHANGED <<typed, keys>> /\ (cause' = "eof" => cause = "eof")
<1> USE DEF terminalVars, threadVars
<1>1. CASE ShowOutput \/ OutputIdle \/ InputIdle \/ SleepInPump
  <2>1. /\ UNCHANGED <<typed, keys, last, events, event, input, stdin, cause, size>>
        /\ shell \in Polling /\ shell' \in Polling
    BY <1>1, Zenon DEF ShowOutput, OutputIdle, InputIdle, SleepInPump, Polling
  <2> QED
    BY <2>1, KeysKept, Zenon DEF KeysInv
<1>2. CASE ShowFails \/ OutputEnded \/ SeeClosed \/ SendFails
  <2>1. /\ UNCHANGED <<typed, keys, last, input, stdin, size>>
        /\ shell' = "restore" /\ event' = None /\ events' = <<>>
        /\ cause' \in {"error", "output", "closed"}
    BY <1>2, Zenon DEF ShowFails, OutputEnded, SeeClosed, SendFails, LeavePump
  <2>2. <<>> \in Seq(AnyEvent)
    OBVIOUS
  <2> QED
    BY <2>1, <2>2, Zenon DEF KeysInv
<1> QED
  BY <1>1, <1>2, Zenon

(* The next key is the first that is queued, and Eof the last of all.       *)
LEMMA KeysTaken ==
    ASSUME KeysInv, TakeEvent \/ TakeEof
    PROVE  KeysInv' /\ UNCHANGED <<typed, keys>> /\ (cause' = "eof" => typed = keys)
<1> USE DEF terminalVars, threadVars
<1>0. /\ shell = "poll_input" /\ events # <<>> /\ cause = "none" /\ event = None /\ InTransit
      /\ typed \in Nat /\ keys \in Nat /\ events \in Seq(AnyEvent) /\ input \in AnyEvent \cup {None}
  BY Zenon DEF TakeEvent, TakeEof, KeysInv
<1>1. 1 \in 1..Len(events) /\ Head(events) = events[1] /\ events[1] \in AnyEvent
  BY <1>0
<1>2. CASE TakeEof
  <2>1. events[1] = Eof /\ cause' = "eof" /\ shell' = "restore" /\ event' = None
        /\ events' = <<>> /\ UNCHANGED <<typed, keys, last, input, stdin, size>>
    BY <1>1, <1>2, Zenon DEF TakeEof, LeavePump
  <2>2. stdin = "stopped" /\ input = None
    BY <1>0, <1>1, <2>1, Zenon DEF InTransit
  <2>3. \A k \in Nat : event # Input(k) /\ input # Input(k) /\ events[1] # Input(k)
    BY <1>0, <2>1, <2>2, EventKinds, Zenon
  <2>4. ASSUME NEW k \in Nat, Queued(k) PROVE FALSE
    <3>1. PICK i \in 1..Len(events) : events[i] = Input(k)
      BY <2>4 DEF Queued
    <3>2. i # 1
      BY <3>1, <2>3
    <3>3. 1 < i
      BY <3>2
    <3> QED
      BY <1>0, <1>1, <2>1, <3>1, <3>3, Zenon DEF InTransit
  <2>5. \A k \in Nat : ~(typed < k /\ k <= keys)
    BY <1>0, <2>3, <2>4, Zenon DEF InTransit
  <2>6. typed = keys
    <3>1. typed <= keys /\ ~(typed < keys)
      BY <1>0, <2>5 DEF InTransit
    <3> QED
      BY <1>0, <3>1
  <2>7. <<>> \in Seq(AnyEvent)
    OBVIOUS
  <2> QED
    BY <2>1, <2>2, <2>6, <2>7, Zenon DEF KeysInv
<1>3. CASE TakeEvent
  <2>1. /\ shell' = "sending" /\ event' = events[1] /\ events' = Tail(events)
        /\ UNCHANGED <<typed, keys, last, input, stdin, size, cause>>
    BY <1>1, <1>3, Zenon DEF TakeEvent
  <2>2. /\ events' \in Seq(AnyEvent) /\ Len(events') = Len(events) - 1 /\ Len(events) \in Nat
        /\ \A i \in 1..Len(events') : i + 1 \in 1..Len(events) /\ events'[i] = events[i + 1]
    BY <1>0, <2>1
  <2>3. \A k : Queued(k)' <=> \E i \in 1..Len(events) : 1 < i /\ events[i] = Input(k)
    <3>1. ASSUME NEW k, NEW i \in 1..Len(events), 1 < i
          PROVE  i - 1 \in 1..Len(events') /\ events'[i - 1] = events[i]
      BY <2>2, <3>1
    <3>2. ASSUME NEW i \in 1..Len(events')
          PROVE  i + 1 \in 1..Len(events) /\ 1 < i + 1 /\ events'[i] = events[i + 1]
      BY <2>2
    <3> QED
      BY <3>1, <3>2, Zenon DEF Queued
  <2>4. \A k \in Nat : Queued(k) <=> Queued(k)' \/ events[1] = Input(k)
    <3>1. \A i \in 1..Len(events) : i = 1 \/ 1 < i
      BY <2>2
    <3> QED
      BY <1>1, <2>3, <3>1, Zenon DEF Queued
  <2>5. \A k, l \in Nat : events[1] = Input(k) /\ Queued(l)' => k < l
    BY <1>0, <1>1, <2>3, Zenon DEF InTransit
  <2>6. \A k \in Nat : event # Input(k)
    BY <1>0, EventKinds, Zenon
  <2>7. ASSUME NEW k \in Nat, events[1] = Input(k)
        PROVE  k = typed + 1 /\ k <= keys
    <3>1. typed < k /\ k <= keys
      BY <1>0, <2>4, <2>7, Zenon DEF InTransit
    <3>2. PICK n \in Nat : n = typed + 1
      BY <1>0
    <3>3. typed < n /\ n <= keys /\ ~(k < n)
      BY <1>0, <3>1, <3>2
    <3>4. Queued(n) \/ input = Input(n)
      BY <1>0, <2>6, <3>3, Zenon DEF InTransit
    <3>5. input # Input(n)
      BY <1>0, <2>4, <2>7, <3>3, Zenon DEF InTransit
    <3>6. ~Queued(n)'
      BY <2>5, <2>7, <3>3, Zenon
    <3>7. Input(n) = Input(k)
      BY <2>4, <2>7, <3>4, <3>5, <3>6, Zenon
    <3>8. n = k
      BY <3>7, EventKinds, Zenon
    <3> QED
      BY <3>1, <3>2, <3>8
  <2>8. InTransit'
    <3>1. \A i, j \in 1..Len(events)' : \A k, l \in Nat :
             i < j /\ events'[i] = Input(k) /\ events'[j] = Input(l) => k < l
      <4> SUFFICES ASSUME NEW i \in 1..Len(events)', NEW j \in 1..Len(events)', i < j,
                          NEW k \in Nat, NEW l \in Nat,
                          events'[i] = Input(k), events'[j] = Input(l)
                   PROVE  k < l
        BY Zenon
      <4>1. i + 1 < j + 1
        BY <2>2
      <4>2. i + 1 \in 1..Len(events) /\ j + 1 \in 1..Len(events)
            /\ events[i + 1] = Input(k) /\ events[j + 1] = Input(l)
        BY <2>2, Zenon
      <4> QED
        BY <1>0, <4>1, <4>2, Zenon DEF InTransit
    <3>2. \A i \in 1..Len(events)' : events'[i] = Eof =>
             /\ stdin = "stopped"
             /\ \A j \in 1..Len(events)' : \A k \in Nat : i < j => events'[j] # Input(k)
      <4> SUFFICES ASSUME NEW i \in 1..Len(events)', events'[i] = Eof
                   PROVE  /\ stdin = "stopped"
                          /\ \A j \in 1..Len(events)' : \A k \in Nat :
                                 i < j => events'[j] # Input(k)
        BY Zenon
      <4>1. \A j \in 1..Len(events') : i < j => i + 1 < j + 1
        BY <2>2
      <4>2. i + 1 \in 1..Len(events) /\ events[i + 1] = Eof
        BY <2>2, Zenon
      <4>3. stdin = "stopped" /\ \A j \in 1..Len(events) : \A k \in Nat :
                                     i + 1 < j => events[j] # Input(k)
        BY <1>0, <4>2, Zenon DEF InTransit
      <4> QED
        BY <2>2, <4>1, <4>3, Zenon
    <3>3. \A k \in Nat : Queued(k)' => typed < k /\ k <= keys
      BY <1>0, <2>4, Zenon DEF InTransit
    <3>4. \A k \in Nat : event' = Input(k) =>
             k = typed + 1 /\ k <= keys /\ \A l \in Nat : Queued(l)' => k < l
      BY <2>1, <2>5, <2>7, Zenon
    <3>5. \A k \in Nat : input = Input(k) =>
             /\ k = keys /\ typed < k
             /\ \A l \in Nat : Queued(l)' \/ event' = Input(l) => l < k
      BY <1>0, <2>1, <2>4, Zenon DEF InTransit
    <3>6. \A k \in Nat : typed < k /\ k <= keys =>
             Queued(k)' \/ event' = Input(k) \/ input = Input(k)
      BY <1>0, <2>1, <2>4, <2>6, Zenon DEF InTransit
    <3>7. typed <= keys /\ (input # None <=> stdin = "send")
      BY <1>0, Zenon DEF InTransit
    <3> QED
      BY <2>1, <3>1, <3>2, <3>3, <3>4, <3>5, <3>6, <3>7, Zenon DEF InTransit
  <2>9. Receiving'
    BY <2>1, Zenon DEF Receiving
  <2> QED
    BY <1>0, <1>1, <2>1, <2>2, <2>8, <2>9, Zenon DEF KeysInv
<1> QED
  BY <1>2, <1>3, Zenon

(* A key that is sent was the next one.                                     *)
LEMMA KeysSent ==
    ASSUME KeysInv, SendDone
    PROVE  KeysInv' /\ typed' \in {typed, typed + 1} /\ UNCHANGED <<keys, cause>>
<1> USE DEF terminalVars, threadVars
<1>0. /\ shell = "sending" /\ cause = "none" /\ InTransit /\ typed \in Nat /\ keys \in Nat
      /\ event \in AnyEvent \cup {None}
      /\ shell' = "pump" /\ event' = None
      /\ typed' = (IF event.kind = "Input" THEN event.key ELSE typed)
      /\ UNCHANGED <<keys, last, events, input, stdin, size, cause>>
  BY Zenon DEF SendDone, KeysInv
<1>1. \A k \in Nat : event' # Input(k)
  BY <1>0, EventKinds, Zenon
<1>2. Receiving'
  BY <1>0, Zenon DEF Receiving, Polling
<1>3. \A k : Queued(k)' <=> Queued(k)
  BY <1>0, Zenon DEF Queued
<1>4. CASE event.kind = "Input"
  <2>1. typed' = event.key /\ event.key \in Nat /\ event = Input(event.key)
    BY <1>0, <1>4, KeyOfEvent, Zenon
  <2>2. typed' = typed + 1 /\ typed' <= keys /\ typed' \in Nat
        /\ \A l \in Nat : Queued(l) => typed' < l
    BY <1>0, <2>1, Zenon DEF InTransit
  <2>3. \A k \in Nat : typed' < k => typed < k
    BY <1>0, <2>2
  <2>4. \A k \in Nat : event = Input(k) => ~(typed' < k)
    <3>1. \A k \in Nat : event = Input(k) => k = typed'
      BY <1>0, <2>2, Zenon DEF InTransit
    <3> QED
      BY <3>1, <2>2
  <2>5. InTransit'
    <3>1. \A k \in Nat : typed' < k /\ k <= keys => Queued(k) \/ input = Input(k)
      BY <1>0, <2>3, <2>4, Zenon DEF InTransit
    <3>2. \A k \in Nat : input = Input(k) => typed' < k
      BY <1>0, <2>1, Zenon DEF InTransit
    <3>3. \A k \in Nat : Queued(k)' => typed' < k /\ k <= keys'
      BY <1>0, <1>3, <2>2, Zenon DEF InTransit
    <3>4. \A k \in Nat : input' = Input(k) =>
              k = keys' /\ typed' < k /\ \A l \in Nat : Queued(l)' => l < k
      BY <1>0, <1>3, <3>2, Zenon DEF InTransit
    <3>5. \A k \in Nat : typed' < k /\ k <= keys' => Queued(k)' \/ input' = Input(k)
      BY <1>0, <1>3, <3>1, Zenon
    <3>6. /\ \A i, j \in 1..Len(events)' : \A k, l \in Nat :
                 i < j /\ events'[i] = Input(k) /\ events'[j] = Input(l) => k < l
          /\ \A i \in 1..Len(events)' : events'[i] = Eof =>
                 /\ stdin' = "stopped"
                 /\ \A j \in 1..Len(events)' : \A k \in Nat : i < j => events'[j] # Input(k)
      BY <1>0 DEF InTransit
    <3>7. typed' <= keys' /\ (input' # None <=> stdin' = "send")
      BY <1>0, <2>2, Zenon DEF InTransit
    <3> QED
      BY <1>1, <3>3, <3>4, <3>5, <3>6, <3>7, Zenon DEF InTransit
  <2> QED
    BY <1>0, <1>2, <2>2, <2>5, Zenon DEF KeysInv
<1>5. CASE event.kind # "Input"
  <2>1. typed' = typed /\ \A k : event # Input(k)
    BY <1>0, <1>5, KeyOfEvent, Zenon
  <2>2. InTransit'
    <3>1. input' # None <=> stdin' = "send"
      BY <1>0, Zenon DEF InTransit
    <3> QED
      BY <1>0, <1>1, <2>1, <3>1, TransitKept, Zenon
  <2> QED
    BY <1>0, <1>2, <2>1, <2>2, Zenon DEF KeysInv
<1> QED
  BY <1>4, <1>5, Zenon

(* An event at the end of the queue.                                        *)
LEMMA QueuedLast ==
    ASSUME NEW e \in AnyEvent, events \in Seq(AnyEvent), events' = Append(events, e)
    PROVE  /\ events' \in Seq(AnyEvent)
           /\ \A k : Queued(k)' <=> Queued(k) \/ e = Input(k)
           /\ \A i \in 1..Len(events') :
                  \/ i \in 1..Len(events) /\ events'[i] = events[i]
                  \/ events'[i] = e /\ \A j \in 1..Len(events') : ~(i < j)
           /\ \A i, j \in 1..Len(events') : i < j => i \in 1..Len(events)
<1>1. /\ events' \in Seq(AnyEvent) /\ Len(events) \in Nat /\ Len(events') = Len(events) + 1
      /\ events'[Len(events) + 1] = e
      /\ \A i \in 1..Len(events) : events'[i] = events[i]
  OBVIOUS
<1>2. \A i \in 1..Len(events') :
          \/ i \in 1..Len(events) /\ events'[i] = events[i]
          \/ i = Len(events) + 1 /\ events'[i] = e
  BY <1>1
<1>3. Len(events) + 1 \in 1..Len(events') /\ \A i \in 1..Len(events) : i \in 1..Len(events')
  BY <1>1
<1>4. \A k : Queued(k)' <=> Queued(k) \/ e = Input(k)
  BY <1>1, <1>2, <1>3, Zenon DEF Queued
<1>5. \A i, j \in 1..Len(events') : i < j => i \in 1..Len(events)
  BY <1>1
<1>6. \A j \in 1..Len(events') : ~(Len(events) + 1 < j)
  BY <1>1
<1> QED
  BY <1>1, <1>2, <1>4, <1>5, <1>6, Zenon

(* The stdin thread numbers what it reads and queues it behind the rest.    *)
LEMMA KeysStdin ==
    ASSUME KeysInv, StdinCheck \/ StdinRead \/ StdinEof \/ StdinInterrupted \/ StdinSend
    PROVE  KeysInv' /\ UNCHANGED <<typed, cause>> /\ (cause = "eof" => UNCHANGED keys)
<1> USE DEF terminalVars, driveVars
<1>0. /\ UNCHANGED <<typed, cause, shell, event, size, last>>
      /\ stdin \in {"check", "reading", "send"} /\ stdin' # "none"
      /\ typed \in Nat /\ keys \in Nat /\ events \in Seq(AnyEvent)
      /\ input \in AnyEvent \cup {None}
  BY Zenon DEF StdinCheck, StdinRead, StdinEof, TellsEof, StdinInterrupted, StdinSend, KeysInv
<1>1. cause # "eof" /\ (Receiving' <=> Receiving) /\ (Receiving \/ cause # "none")
  BY <1>0, Zenon DEF KeysInv, Receiving
<1>2. cause = "none" => InTransit
  BY Zenon DEF KeysInv
<1>3. cause = "none" => \A i \in 1..Len(events) : events[i] # Eof
  BY <1>0, <1>2, Zenon DEF InTransit
<1>4. cause = "none" /\ stdin # "send" => input = None
  BY <1>2, Zenon DEF InTransit
<1>5. CASE StdinCheck \/ StdinInterrupted
  <2>1. UNCHANGED <<keys, input, events>> /\ stdin # "send"
    BY <1>5, Zenon DEF StdinCheck, StdinInterrupted
  <2>2. cause = "none" => InTransit'
    <3>1. stdin' # "send"
      BY <1>5, Zenon DEF StdinCheck, StdinInterrupted
    <3> QED
      BY <1>0, <1>2, <1>4, <2>1, <3>1, TransitKept, Zenon
  <2> QED
    BY <1>0, <1>1, <2>1, <2>2, Zenon DEF KeysInv
<1>6. CASE StdinEof
  <2>1. UNCHANGED <<keys, events>> /\ stdin = "reading" /\ stdin' = "send" /\ input' = Eof
    BY <1>6, Zenon DEF StdinEof, TellsEof
  <2>2. cause = "none" => \A k \in Nat : input # Input(k) /\ input' # Input(k)
    BY <1>4, <2>1, EventKinds, Zenon
  <2>3. cause = "none" => InTransit'
    BY <1>0, <1>2, <2>1, <2>2, TransitKept, EventKinds, Zenon
  <2> QED
    BY <1>0, <1>1, <2>1, <2>3, EventKinds, Zenon DEF KeysInv
<1>7. CASE StdinRead
  <2>1. UNCHANGED events /\ stdin = "reading" /\ stdin' = "send"
        /\ keys' = keys + 1 /\ input' = Input(keys')
    BY <1>7, Zenon DEF StdinRead
  <2>2. keys' \in Nat /\ (\A k \in Nat : k <= keys => k < keys' /\ k <= keys')
        /\ \A k \in Nat : k <= keys' => k <= keys \/ k = keys'
    BY <1>0, <2>1
  <2>3. cause = "none" => \A k \in Nat : input # Input(k)
    BY <1>4, <2>1, EventKinds, Zenon
  <2>4. \A k \in Nat : input' = Input(k) => k = keys'
    BY <2>1, <2>2, EventKinds, Zenon
  <2>5. ASSUME cause = "none" PROVE InTransit'
    <3>1. \A k : Queued(k)' <=> Queued(k)
      BY <2>1, Zenon DEF Queued
    <3>2. typed <= keys' /\ typed < keys'
      BY <1>0, <1>2, <2>2, <2>5, Zenon DEF InTransit
    <3>3. \A k \in Nat : Queued(k) \/ event = Input(k) => k <= keys
      BY <1>2, <2>5, Zenon DEF InTransit
    <3>4. \A k \in Nat : typed < k /\ k <= keys' =>
              Queued(k) \/ event = Input(k) \/ input' = Input(k)
      BY <1>2, <2>1, <2>2, <2>3, <2>5, Zenon DEF InTransit
    <3>5. \A k \in Nat : input' = Input(k) =>
              /\ k = keys' /\ typed < k
              /\ \A l \in Nat : Queued(l) \/ event = Input(l) => l < k
      BY <2>2, <2>4, <3>2, <3>3, Zenon
    <3>6. \A k \in Nat : Queued(k) => typed < k /\ k <= keys'
      BY <1>2, <2>2, <2>5, <3>3, Zenon DEF InTransit
    <3>7. \A k \in Nat : event = Input(k) =>
              k = typed + 1 /\ k <= keys' /\ \A l \in Nat : Queued(l) => k < l
      BY <1>2, <2>2, <2>5, <3>3, Zenon DEF InTransit
    <3>8. /\ \A i, j \in 1..Len(events)' : \A k, l \in Nat :
                i < j /\ events'[i] = Input(k) /\ events'[j] = Input(l) => k < l
          /\ \A i \in 1..Len(events)' : events'[i] # Eof
      BY <1>2, <1>3, <2>1, <2>5, Zenon DEF InTransit
    <3>9. input' # None
      BY <2>1, <2>2, EventKinds, Zenon
    <3>10. event' = event /\ typed' = typed /\ stdin' = "send"
      BY <1>0, <2>1, Zenon
    <3> QED
      BY <3>1, <3>2, <3>4, <3>5, <3>6, <3>7, <3>8, <3>9, <3>10, Zenon DEF InTransit
  <2> QED
    BY <1>0, <1>1, <2>1, <2>2, <2>5, EventKinds, Zenon DEF KeysInv
<1>8. CASE StdinSend
  <2>1. UNCHANGED keys /\ stdin = "send" /\ input' = None
    BY <1>8, Zenon DEF StdinSend
  <2>2. CASE ~Receiving
    <3>1. cause # "none" /\ UNCHANGED events
      BY <1>1, <1>8, <2>2, Zenon DEF StdinSend, Queues
    <3> QED
      BY <1>0, <1>1, <2>1, <3>1, Zenon DEF KeysInv
  <2>3. CASE Receiving
    <3>1. /\ events' = Append(events, input) /\ cause = "none"
          /\ stdin' = (IF input = Eof THEN "stopped" ELSE "check")
      BY <1>8, <2>3, Zenon DEF StdinSend, Queues, KeysInv, Receiving, Polling
    <3>2. input \in AnyEvent /\ InTransit /\ \A k \in Nat : input' # Input(k)
      BY <1>0, <1>2, <2>1, <3>1, EventKinds, Zenon DEF InTransit
    <3>3. events' \in Seq(AnyEvent) /\ \A k : Queued(k)' <=> Queued(k) \/ input = Input(k)
      BY <1>0, <3>1, <3>2, QueuedLast, Zenon
    <3>4. \A i \in 1..Len(events)' :
              \/ i \in 1..Len(events) /\ events'[i] = events[i]
              \/ events'[i] = input /\ \A j \in 1..Len(events)' : ~(i < j)
      BY <1>0, <3>1, <3>2, QueuedLast, Zenon
    <3>5. \A k, l \in Nat : Queued(k) /\ input = Input(l) => k < l
      BY <3>2, Zenon DEF InTransit
    <3>6. \A i, j \in 1..Len(events)' : \A k, l \in Nat :
              i < j /\ events'[i] = Input(k) /\ events'[j] = Input(l) => k < l
      <4> SUFFICES ASSUME NEW i \in 1..Len(events)', NEW j \in 1..Len(events)',
                          NEW k \in Nat, NEW l \in Nat,
                          i < j, events'[i] = Input(k), events'[j] = Input(l)
                   PROVE  k < l
        OBVIOUS
      <4>1. i \in 1..Len(events) /\ events[i] = Input(k)
        BY <3>4, Zenon
      <4>2. CASE j \in 1..Len(events) /\ events[j] = Input(l)
        BY <3>2, <4>1, <4>2, Zenon DEF InTransit
      <4>3. CASE input = Input(l)
        BY <3>5, <4>1, <4>3, Zenon DEF Queued
      <4> QED
        BY <3>4, <4>2, <4>3, Zenon
    <3>7. \A i \in 1..Len(events)' : events'[i] = Eof =>
              stdin' = "stopped" /\ \A j \in 1..Len(events)' : ~(i < j)
      BY <1>3, <3>1, <3>4, Zenon
    <3>8. \A k \in Nat : Queued(k)' => typed < k /\ k <= keys
      <4>1. keys <= keys
        BY <1>0
      <4>2. \A k \in Nat : input = Input(k) => typed < k /\ k <= keys
        BY <3>2, <4>1, Zenon DEF InTransit
      <4> QED
        BY <3>2, <3>3, <4>2, Zenon DEF InTransit
    <3>9. \A k \in Nat : event = Input(k) =>
              k = typed + 1 /\ k <= keys /\ \A l \in Nat : Queued(l)' => k < l
      BY <3>2, <3>3, Zenon DEF InTransit
    <3>10. /\ \A k \in Nat : typed < k /\ k <= keys => Queued(k)' \/ event = Input(k)
           /\ typed <= keys
      BY <3>2, <3>3, Zenon DEF InTransit
    <3>11. stdin' # "send"
      BY <3>1, Zenon
    <3>12. InTransit'
      BY <1>0, <2>1, <3>2, <3>6, <3>7, <3>8, <3>9, <3>10, <3>11, Zenon DEF InTransit
    <3> QED
      BY <1>0, <1>1, <2>1, <3>1, <3>3, <3>12, Zenon DEF KeysInv
  <2> QED
    BY <2>2, <2>3, Zenon
<1> QED
  BY <1>5, <1>6, <1>7, <1>8, Zenon

(* The watcher queues no key.                                               *)
LEMMA KeysWatcher ==
    ASSUME KeysInv, Watcher
    PROVE  KeysInv' /\ UNCHANGED <<typed, keys, cause>>
<1> USE DEF terminalVars, driveVars
<1>0. /\ UNCHANGED <<typed, keys, cause, shell, event, input, stdin, size>>
      /\ last' \in {last, size}
  BY Zenon DEF Watcher, WatcherStarts, WatcherReadsSize, WatcherCheck, WatcherWakes,
     SeenSize, WatcherSend
<1>1. last' \in Nat /\ last \in Nat /\ events \in Seq(AnyEvent) /\ (Receiving' <=> Receiving)
  BY <1>0, Zenon DEF KeysInv, Receiving
<1>2. CASE UNCHANGED events
  <2>1. InTransit => InTransit'
    <3>1. InTransit => (input' # None <=> stdin' = "send")
      BY <1>0, Zenon DEF InTransit
    <3> QED
      BY <1>0, <1>2, <3>1, TransitKept, Zenon
  <2> QED
    BY <1>0, <1>1, <1>2, <2>1, Zenon DEF KeysInv
<1>3. CASE events' = Append(events, Resize(last))
  <2>1. Resize(last) \in AnyEvent /\ Resize(last) # Eof /\ \A k \in Nat : Resize(last) # Input(k)
    BY <1>1, EventKinds, Zenon
  <2>2. events' \in Seq(AnyEvent) /\ \A k \in Nat : Queued(k)' <=> Queued(k)
    BY <1>1, <1>3, <2>1, QueuedLast, Zenon
  <2>3. \A i \in 1..Len(events)' :
            \/ i \in 1..Len(events) /\ events'[i] = events[i]
            \/ events'[i] # Eof /\ \A k \in Nat : events'[i] # Input(k)
    BY <1>1, <1>3, <2>1, QueuedLast, Zenon
  <2>4. ASSUME InTransit PROVE InTransit'
    <3>1. \A i, j \in 1..Len(events)' : \A k, l \in Nat :
              i < j /\ events'[i] = Input(k) /\ events'[j] = Input(l) => k < l
      BY <2>3, <2>4, Zenon DEF InTransit
    <3>2. \A i \in 1..Len(events)' : events'[i] = Eof =>
              /\ stdin = "stopped"
              /\ \A j \in 1..Len(events)' : \A k \in Nat : i < j => events'[j] # Input(k)
      BY <2>3, <2>4, Zenon DEF InTransit
    <3> QED
      BY <1>0, <2>2, <2>4, <3>1, <3>2, Zenon DEF InTransit
  <2> QED
    BY <1>0, <1>1, <2>2, <2>4, Zenon DEF KeysInv
<1>4. UNCHANGED events \/ events' = Append(events, Resize(last))
  BY Zenon DEF Watcher, WatcherStarts, WatcherReadsSize, WatcherCheck, WatcherWakes,
     WatcherSend, Queues
<1> QED
  BY <1>0, <1>2, <1>3, <1>4, Zenon

(* What is typed reaches the session in order, nothing of it is skipped,    *)
(* and a shell that ends with stdin has sent all of it: for any depth of    *)
(* TerminalReader's queue and any number of reads, whatever the watcher     *)
(* queues in between and however pump's select is polled.                   *)
THEOREM KeysReachTheSession == ShellSpec => TypedIsSent
<1> DEFINE Sends == /\ typed' \in {typed, typed + 1}
                    /\ cause' = "eof" => typed' = keys'
<1>1. ShellInit => KeysInv
  <2> SUFFICES ASSUME ShellInit PROVE KeysInv
    OBVIOUS
  <2>1. /\ typed = 0 /\ keys = 0 /\ size = 0 /\ last = 0 /\ events = <<>> /\ event = None
        /\ input = None /\ shell = "start" /\ cause = "none" /\ stdin = "none"
    BY Zenon DEF ShellInit
  <2>2. 0 \in Nat /\ 0 <= 0 /\ <<>> \in Seq(AnyEvent) /\ 1..Len(<<>>) = {}
        /\ \A k \in Nat : ~(0 < k /\ k <= 0)
    OBVIOUS
  <2>3. \A k \in Nat : None # Input(k)
    BY EventKinds, Zenon
  <2>4. InTransit
    BY <2>1, <2>2, <2>3, Zenon DEF InTransit, Queued
  <2> QED
    BY <2>1, <2>2, <2>4, Zenon DEF KeysInv
<1>2. KeysInv /\ [ShellNext]_shellVars => KeysInv' /\ [Sends]_shellVars
  <2> SUFFICES ASSUME KeysInv, [ShellNext]_shellVars PROVE KeysInv' /\ [Sends]_shellVars
    OBVIOUS
  <2>1. cause = "eof" => typed = keys
    BY Zenon DEF KeysInv
  <2>2. CASE UNCHANGED shellVars
    <3>1. UNCHANGED <<typed, keys, last, events, event, input, stdin, cause, shell, size>>
      BY <2>2, Zenon DEF shellVars, terminalVars, driveVars, threadVars
    <3> QED
      BY <2>2, <3>1, KeysKept, Zenon DEF KeysInv
  <2>3. CASE Drive
    <3>1. CASE SendDone
      <4>1. cause # "eof"
        BY <3>1, Zenon DEF SendDone, KeysInv
      <4> QED
        BY <3>1, <4>1, KeysSent, Zenon
    <3>2. CASE TakeEvent \/ TakeEof
      BY <2>1, <3>2, KeysTaken, Zenon
    <3> QED
      BY <2>1, <2>3, <3>1, <3>2, KeysDrive, KeysPump, Zenon DEF Drive
  <2>4. CASE StdinCheck \/ StdinRead \/ StdinEof \/ StdinInterrupted \/ StdinSend
    BY <2>1, <2>4, KeysStdin, Zenon
  <2>5. CASE Watcher
    BY <2>1, <2>5, KeysWatcher, Zenon
  <2>6. CASE UserResizes \/ HandshakeCompletes \/ AgentOutputs \/ SessionCloses \/ StreamsEnd
    <3>1. UNCHANGED <<typed, keys, last, events, event, input, stdin, cause, shell>>
      BY <2>6, Zenon DEF UserResizes, HandshakeCompletes, AgentOutputs, SessionCloses,
         StreamsEnd, terminalVars, driveVars, threadVars
    <3>2. size' = size \/ size' = size + 1
      BY <2>6, Zenon DEF UserResizes, HandshakeCompletes, AgentOutputs, SessionCloses,
         StreamsEnd, terminalVars
    <3>3. size \in Nat
      BY Zenon DEF KeysInv
    <3>4. size' \in Nat
      BY <3>2, <3>3
    <3> QED
      BY <2>1, <3>1, <3>4, KeysKept, Zenon
  <2> QED
    BY <2>2, <2>3, <2>4, <2>5, <2>6, Zenon DEF ShellNext, Threads
<1> QED
  BY <1>1, <1>2, PTL DEF ShellSpec, TypedIsSent

(* Where drive is while the guard of the raw mode is not alive.             *)
Unguarded == {"start", "waiting", "enter", "terminate", "returned"}

(* The terminal is in the mode the shell found it in, also when that was    *)
(* raw mode, whenever the guard is not alive.                               *)
ModeRestored == shell \in Unguarded => raw = found

(* While it is alive, it remembers that mode.                               *)
ModeInv ==
    /\ found \in BOOLEAN
    /\ ModeRestored
    /\ shell \notin Unguarded => raw = TRUE /\ was_raw = found

(* A step that leaves the terminal and the guard alone keeps it, unless it  *)
(* takes drive past the guard's birth or death.                             *)
LEMMA ModeKept ==
    ASSUME ModeInv, UNCHANGED <<raw, found, was_raw>>,
           shell \in Unguarded <=> shell' \in Unguarded
    PROVE  ModeInv'
  BY Zenon DEF ModeInv, ModeRestored

(* RawModeGuard::enter and the two places where the guard is dropped.       *)
LEMMA ModeGuard ==
    ASSUME ModeInv, EnterRaw \/ SendSizeFails \/ RestoreTerminal
    PROVE  ModeInv'
<1>1. CASE EnterRaw
  <2>1. shell = "enter" /\ was_raw' = raw /\ raw' = TRUE /\ found' = found
        /\ (shell' = "size" \/ shell' = "reader")
    BY <1>1, Zenon DEF EnterRaw
  <2> QED
    BY <2>1, Zenon DEF ModeInv, ModeRestored, Unguarded
<1>2. CASE SendSizeFails \/ RestoreTerminal
  <2>1. /\ shell \notin Unguarded /\ shell' \in Unguarded
        /\ raw' = (IF was_raw THEN raw ELSE FALSE) /\ found' = found
    BY <1>2, Zenon DEF SendSizeFails, RestoreTerminal, Returns, Restored, Unguarded
  <2>2. found = TRUE \/ found = FALSE
    BY Zenon DEF ModeInv
  <2>3. raw' = found
    BY <2>1, <2>2, Zenon DEF ModeInv
  <2> QED
    BY <2>1, <2>3, Zenon DEF ModeInv, ModeRestored
<1> QED
  BY <1>1, <1>2, Zenon

(* The other steps of drive.                                                *)
LEMMA ModeDrive ==
    ASSUME ModeInv, Drive, ~(EnterRaw \/ SendSizeFails \/ RestoreTerminal)
    PROVE  ModeInv'
<1> USE DEF Unguarded, Returns, LeavePump, terminalVars
<1>1. CASE Start \/ WaitReady \/ WaitFails \/ EnterFails \/ TerminateSession
  BY <1>1, ModeKept, Zenon DEF Start, WaitReady, WaitFails, EnterFails, TerminateSession
<1>2. CASE ReadSize \/ SendSize \/ StartReader \/ SendDone \/ SendFails
  BY <1>2, ModeKept, Zenon DEF ReadSize, SendSize, StartReader, SendDone, SendFails
<1>3. CASE ShowOutput \/ ShowFails \/ OutputEnded \/ OutputIdle
  BY <1>3, ModeKept, Zenon DEF ShowOutput, ShowFails, OutputEnded, OutputIdle
<1>4. CASE TakeEvent \/ TakeEof \/ InputIdle \/ SeeClosed \/ SleepInPump
  BY <1>4, ModeKept, Zenon DEF TakeEvent, TakeEof, InputIdle, SeeClosed, SleepInPump
<1> QED
  BY <1>1, <1>2, <1>3, <1>4, Zenon DEF Drive

(* The shell leaves the terminal as it found it, on the early return of a   *)
(* failed send of the size and on every way out of pump: the guard is       *)
(* dropped before drive returns, and a terminal found in raw mode stays in  *)
(* it.                                                                      *)
THEOREM TerminalRestored == ShellSpec => []ModeRestored
<1>1. ShellInit => ModeInv
  BY Zenon DEF ShellInit, ModeInv, ModeRestored, Unguarded
<1>2. ModeInv /\ [ShellNext]_shellVars => ModeInv'
  <2> SUFFICES ASSUME ModeInv, [ShellNext]_shellVars PROVE ModeInv'
    OBVIOUS
  <2>1. CASE UNCHANGED <<raw, found, driveVars>>
    BY <2>1, ModeKept, Zenon DEF driveVars
  <2>2. CASE Drive
    BY <2>2, ModeGuard, ModeDrive, Zenon
  <2>3. CASE ~Drive
    BY <2>1, <2>3, Zenon DEF ShellNext, shellVars, Threads, StdinCheck, StdinSend,
       Watcher, WatcherStarts, WatcherReadsSize, WatcherCheck, WatcherWakes, WatcherSend,
       StdinRead, StdinEof,
       StdinInterrupted, UserResizes, HandshakeCompletes, AgentOutputs, SessionCloses,
       StreamsEnd, terminalVars
  <2> QED
    BY <2>2, <2>3, Zenon
<1>3. ModeInv => ModeRestored
  BY Zenon DEF ModeInv
<1> QED
  BY <1>1, <1>2, <1>3, PTL DEF ShellSpec
=============================================================================
