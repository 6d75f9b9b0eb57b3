--------------------------- MODULE MCSessionCore ---------------------------
(* Small instances of SessionCore for TLC, with the wire format in which    *)
(* the chunks of output reach the session.                                  *)
EXTENDS SessionCore, Wire

(* What the reader emits is what was sent, and nothing else is accepted:    *)
(* ClientMessage::deserialize inverts serialize on every field and refuses  *)
(* what was cut short or altered.                                           *)
WireRoundTrip == emitted > 0 => ReadsBack
=============================================================================
