-------------------------------- MODULE Rtt --------------------------------
(***************************************************************************)
(* RttEstimate: the smoothed round-trip time and the retransmission        *)
(* timeout derived from it.                                                *)
(*                                                                         *)
(* A duration is a whole number of units; Duration's own division rounds   *)
(* down, as \div does.  The bounds of the timeout are parameters.          *)
(***************************************************************************)
EXTENDS Integers

CONSTANTS
    INITIAL_RTT, INITIAL_RTO,
    MIN_RTO, MAX_RTO,
    RttSamples   \* the round trips of the link

ASSUME RttAssumption ==
    /\ INITIAL_RTT \in Nat /\ INITIAL_RTO \in Nat
    /\ MIN_RTO \in Nat /\ MAX_RTO \in Nat
    /\ MIN_RTO <= INITIAL_RTO /\ INITIAL_RTO <= MAX_RTO
    /\ RttSamples \subseteq Nat

RTO_VARIANCE_FACTOR == 4

Estimate == [smoothed : Nat, variance : Nat, rto : Nat, samples : Nat]

DefaultEstimate ==
    [smoothed |-> INITIAL_RTT, variance |-> INITIAL_RTT \div 2,
     rto |-> INITIAL_RTO, samples |-> 0]

AbsDiff(a, b) == IF a < b THEN b - a ELSE a - b
Clamp(x) == IF x < MIN_RTO THEN MIN_RTO ELSE IF x > MAX_RTO THEN MAX_RTO ELSE x

NextVariance(e, sample) == (e.variance * 3 + AbsDiff(e.smoothed, sample)) \div 4

NextSmoothed(e, sample) == (e.smoothed * 7 + sample) \div 8

(* RttEstimate::record                                                      *)
Record(e, sample) ==
    LET first == e.samples = 0
        smoothed == IF first THEN sample ELSE NextSmoothed(e, sample)
        variance == IF first THEN sample \div 2 ELSE NextVariance(e, sample)
    IN  [smoothed |-> smoothed, variance |-> variance,
         rto |-> Clamp(smoothed + RTO_VARIANCE_FACTOR * variance),
         samples |-> e.samples + 1]

-----------------------------------------------------------------------------

(* The estimate is within the samples lo..hi it is made from: an average    *)
(* between them, a deviation of at most the largest, and a timeout that is  *)
(* within its bounds and, below the upper one, no shorter than the average. *)
Within(e, lo, hi) ==
    /\ e.samples > 0 => lo <= e.smoothed /\ e.smoothed <= hi /\ e.variance <= hi
    /\ MIN_RTO <= e.rto /\ e.rto <= MAX_RTO
    /\ e.samples > 0 => e.smoothed <= e.rto \/ e.rto = MAX_RTO
=============================================================================
