-------------------------------- MODULE Wire --------------------------------
(***************************************************************************)
(* The binary format of a data channel message (binary_protocol.rs):        *)
(* ClientMessage::serialize, deserialize and validate over bytes, with the  *)
(* field widths, the byte order and the order of the fields of the code.    *)
(*                                                                          *)
(* The names of the message types are shortened to one or two letters; the  *)
(* padding and trimming around them is the code's.                          *)
(***************************************************************************)
EXTENDS Integers, Sequences, FiniteSetsExt

CONSTANTS
    MaxPayload,   \* MAX_PAYLOAD_SIZE
    WireSamples   \* bound: the bytes, numbers and lengths tried

Byte == 0..255
HeaderLength == 116
HeaderSize == 120

(* The w bytes of d from offset o on.                                       *)
Field(d, o, w) == SubSeq(d, o + 1, o + w)

(* The last byte of a number, what is above it and above the last four, and *)
(* a number put together.                                                   *)
Last8(n) == n % 256
Rest(n) == n \div 256
Upper(n) == Rest(Rest(Rest(Rest(n))))
Join(n, byte) == n * 256 + byte

(* put_u32, put_u64 and put_i64, the most significant byte first.           *)
PutU32(n) == <<Last8(Rest(Rest(Rest(n)))), Last8(Rest(Rest(n))), Last8(Rest(n)), Last8(n)>>
PutU64(n) == PutU32(Upper(n)) \o PutU32(n)

(* get_u32, get_u64 and get_i64, which is in two's complement.              *)
GetU32(b) == Join(Join(Join(b[1], b[2]), b[3]), b[4])
GetU64(b) == Join(Join(Join(Join(GetU32(b), b[5]), b[6]), b[7]), b[8])
GetI64(b) == IF b[1] < 128 THEN GetU64(b) ELSE -1 - GetU64([i \in 1..8 |-> 255 - b[i]])

(* The numbers these hold.                                                  *)
IsU32(n) == n \in Nat /\ Upper(n) = 0
IsU64(n) == n \in Nat /\ Upper(Upper(n)) = 0
IsI64(n) == n \in Int /\ Rest(Rest(Rest(Upper(n)))) \in -128..127

ASSUME WireAssumption ==
    /\ MaxPayload \in Nat \ {0} /\ IsU32(MaxPayload + 1)
    /\ WireSamples \subseteq Nat
    /\ \A n \in WireSamples : IsI64(n)

(* SHA-256 (external): a function of the payload, which tells the sampled   *)
(* payloads apart.                                                          *)
Sha256(p) ==
    [i \in 1..32 |-> IF i = 1 THEN Last8(Len(p)) ELSE IF i <= Len(p) + 1 THEN p[i - 1] ELSE 0]

-----------------------------------------------------------------------------
(* MessageType::as_str.                                                     *)
Name ==
    [input_stream_data  |-> <<105>>, output_stream_data |-> <<111>>,
     acknowledge        |-> <<97>>,  channel_closed     |-> <<99>>,
     start_publication  |-> <<115>>, pause_publication  |-> <<112, 97>>]
MessageTypes == DOMAIN Name
Publications == {"start_publication", "pause_publication"}

(* padded_message_type.                                                     *)
Padded(type) == [i \in 1..32 |-> IF i <= Len(Name[type]) THEN Name[type][i] ELSE 32]

(* parse_message_type: trim_matches of NUL and white space, then parse.     *)
(* Mutant: white space only.                                                *)
WhiteSpace == (9..13) \cup {32}
Trimmed == {0} \cup WhiteSpace
Trim(b) ==
    LET kept == {i \in DOMAIN b : b[i] \notin Trimmed}
    IN  IF kept = {} THEN <<>> ELSE SubSeq(b, Min(kept), Max(kept))
Named(b) == {type \in MessageTypes : Name[type] = Trim(b)}

(* PayloadType::from_u32.                                                   *)
PayloadTypes == 0..12

(* The identifier travels as two longs, the less significant one first.     *)
Swapped(id) == SubSeq(id, 9, 16) \o SubSeq(id, 1, 8)

(* ClientMessage::new.                                                      *)
NewMessage(type, created, seq, id, ptype, payload) ==
    [type |-> type, schema |-> 1, created |-> created, seq |-> seq, flags |-> 0, id |-> id,
     digest |-> Sha256(payload), ptype |-> ptype, payload |-> payload]

(* serialize, up to the payload and as a whole.                             *)
Header(m) ==
    PutU32(HeaderLength) \o Padded(m.type) \o PutU32(m.schema) \o PutU64(m.created)
    \o PutU64(m.seq) \o PutU64(m.flags) \o Swapped(m.id) \o m.digest
    \o PutU32(m.ptype) \o PutU32(Len(m.payload))
Serialize(m) == Header(m) \o m.payload

(* validate.                                                                *)
Valid(m) ==
    \/ m.type \in Publications
    \/ m.seq >= 0 /\ (m.payload = <<>> \/ Sha256(m.payload) = m.digest)

(* The length PayloadLength declares is one the code accepts.               *)
Fits(d) ==
    LET n == GetU32(Field(d, 116, 4)) IN n <= MaxPayload /\ n <= Len(d) - HeaderSize

(* The fields behind a header that declares a known type and length.        *)
Decoded(d) ==
    LET n == GetU32(Field(d, 116, 4))
        id == Field(d, 64, 16)
    IN  [type |-> CHOOSE t \in MessageTypes : t \in Named(Field(d, 4, 32)),
         schema |-> GetU32(Field(d, 36, 4)), created |-> GetU64(Field(d, 40, 8)),
         seq |-> GetI64(Field(d, 48, 8)), flags |-> GetU64(Field(d, 56, 8)),
         id |-> Field(id, 8, 8) \o Field(id, 0, 8), digest |-> Field(d, 80, 32),
         ptype |-> GetU32(Field(d, 112, 4)), payload |-> Field(d, HeaderSize, n)]

(* deserialize: the message, or nothing when it is refused.                 *)
Deserialize(d) ==
    IF /\ Len(d) >= HeaderSize
       /\ GetU32(Field(d, 0, 4)) = HeaderLength
       /\ Named(Field(d, 4, 32)) # {}
       /\ GetU32(Field(d, 112, 4)) \in PayloadTypes
       /\ Fits(d)
       /\ Valid(Decoded(d))
    THEN <<Decoded(d)>> ELSE <<>>

-----------------------------------------------------------------------------
(* Properties, over the sampled messages                                    *)

SampleIds == {[i \in 1..16 |-> i], [i \in 1..16 |-> 255 - i]}
SamplePayloads == {<<>>} \cup {<<b>> : b \in WireSamples \cap Byte}
                  \cup {[i \in 1..MaxPayload |-> b] : b \in WireSamples \cap Byte}
SampleMessages ==
    {NewMessage(type, n, seq, id, ptype, payload) :
        type \in MessageTypes, n \in WireSamples, seq \in WireSamples \cup {-1},
        id \in SampleIds, ptype \in {0, 12}, payload \in SamplePayloads}

(* The type field padded with NUL, as some builds of the agent pad it.      *)
NulPadded(d) == [i \in DOMAIN d |-> IF i \in 5..36 /\ d[i] = 32 THEN 0 ELSE d[i]]

(* Both ends read what the other wrote: a message with a valid number comes *)
(* out of deserialize as it went into serialize, every field of it and with *)
(* either padding of the type, and whatever follows the declared payload is *)
(* left alone.  A message that was cut short, whose payload was altered,    *)
(* whose number is negative or that carries more than MAX_PAYLOAD_SIZE is   *)
(* refused, so what is delivered is what was sent.                          *)
ReadsBack ==
    \A m \in SampleMessages :
        LET d == Serialize(m)
            big == [m EXCEPT !.payload = [i \in 1..(MaxPayload + 1) |-> 0]]
        IN  /\ m.seq >= 0 \/ m.type \in Publications =>
                 \A received \in {d, NulPadded(d), Append(d, 1)} : Deserialize(received) = <<m>>
            /\ \A n \in {0, HeaderLength, HeaderSize - 1, Len(d) - 1} :
                 Deserialize(SubSeq(d, 1, n)) = <<>>
            /\ Deserialize(Serialize([big EXCEPT !.digest = Sha256(big.payload)])) = <<>>
            /\ m.type \notin Publications =>
                 /\ m.seq < 0 => Deserialize(d) = <<>>
                 /\ \A i \in (HeaderSize + 1)..Len(d) :
                      LET altered == [d EXCEPT ![i] = (@ + 1) % 256]
                      IN  Sha256(Field(altered, HeaderSize, Len(m.payload))) # m.digest =>
                            Deserialize(altered) = <<>>
=============================================================================
