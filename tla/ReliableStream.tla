--------------------------- MODULE ReliableStream ---------------------------
(***************************************************************************)
(* What one direction of a data channel promises its user: the messages    *)
(* handed to it come out at the other end in the order they went in, each  *)
(* exactly once.  Nothing is said of numbers, acknowledgements, copies,    *)
(* buffers or channels; Outbound (client to agent) and Inbound (agent to   *)
(* client) are both shown to implement this specification.                 *)
(***************************************************************************)
EXTENDS Naturals, Sequences

CONSTANT Data   \* the payloads a message may carry

VARIABLES
    submitted,  \* the payloads handed to the stream, oldest first
    delivered   \* the payloads that have come out of it, oldest first

vars == <<submitted, delivered>>

Init ==
    /\ submitted = <<>>
    /\ delivered = <<>>

Submit(d) ==
    /\ submitted' = Append(submitted, d)
    /\ UNCHANGED delivered

Deliver ==
    /\ Len(delivered) < Len(submitted)
    /\ delivered' = Append(delivered, submitted[Len(delivered) + 1])
    /\ UNCHANGED submitted

Next == Deliver \/ \E d \in Data : Submit(d)

Spec == Init /\ [][Next]_vars
=============================================================================
