----------------------------- MODULE OutboundRtt -----------------------------
(***************************************************************************)
(* Outbound with the other half of OutgoingState: the round-trip estimate   *)
(* that acknowledge feeds and poll_retransmit takes its timeout from.       *)
(*                                                                          *)
(* Every step is a step of Outbound; the one that retires a message may     *)
(* also record how long its acknowledgement took.                           *)
(***************************************************************************)
EXTENDS Outbound, Rtt

VARIABLE rtt   \* OutgoingState.rtt, carried over channels like the buffer

rttVars == <<vars, rtt>>

RttInit == Init /\ rtt = DefaultEstimate

(* The entry that the acknowledgement at the head of the socket retires.    *)
Acked ==
    {outgoing[i] : i \in {k \in DOMAIN outgoing :
        /\ outgoing[k].seq = Head(acks)
        /\ \A j \in 1..(k - 1) : outgoing[j].seq # Head(acks)}}

(* last_sent.elapsed(): a round trip of the link; less than any of them,    *)
(* possibly, when last_sent is the time of a later copy than the one that   *)
(* is acknowledged.                                                         *)
Elapsed(entry) == IF entry.attempts = 1 THEN RttSamples ELSE RttSamples \cup {0}

(* Karn's rule: only a message that was sent once is timed.  Mutant: any.   *)
AnyAttempt(entry) == TRUE
SentOnce(entry) == entry.attempts = 1

(* OutgoingBuffer::acknowledge as a whole.                                  *)
AcknowledgeRtt ==
    /\ ReaderAck
    /\ \/ \E entry \in Acked :
            /\ SentOnce(entry)
            /\ \E sample \in Elapsed(entry) : rtt' = Record(rtt, sample)
       \/ (\A entry \in Acked : ~SentOnce(entry)) /\ UNCHANGED rtt

RttNext ==
    \/ AcknowledgeRtt
    \/ Next /\ ~ReaderAck /\ UNCHANGED rtt

RttSpec == RttInit /\ [][RttNext]_rttVars

-----------------------------------------------------------------------------

(* The timeout poll_retransmit goes by is sound at every moment, whatever   *)
(* was resent, acknowledged twice or carried over to a resumed channel.  On *)
(* a link whose round trips all lie between two values the average does     *)
(* too, and the timeout is within its limits and, below the upper one, not  *)
(* shorter than the average; and a message has given one sample at most.    *)
EstimateWithinSamples ==
    /\ \A lo, hi \in RttSamples :
         RttSamples \subseteq lo..hi => Within(rtt, lo, hi)
    /\ rtt.samples <= sequence - Len(outgoing)
=============================================================================
