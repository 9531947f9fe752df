-------------------------------- MODULE Packet --------------------------------
(***************************************************************************)
(* Packets before COBS (protocol.rs): their fields in big-endian order,    *)
(* the CRC-32 that seals them, and parse, which undoes it and rejects what *)
(* is damaged or is no packet.                                             *)
(*                                                                         *)
(* A byte, a word or a double word is the set of its one-bits, bit 0 being *)
(* the lowest, so that 64-bit and 32-bit values have their real width.     *)
(***************************************************************************)
EXTENDS Integers, FiniteSetsExt, SequencesExt

CONSTANTS
  Sessions,      \* u64 session identifiers
  Seqs,          \* u32 sequence numbers
  Payloads,      \* payloads of DATA packets
  Bodies,        \* what else may be sealed with a correct checksum
  MaxFlips       \* bound: bits damaged in one packet

ASSUME PacketAssumption ==
  /\ Sessions \subseteq SUBSET (0 .. 63)
  /\ Seqs \subseteq SUBSET (0 .. 31)
  /\ Payloads \subseteq Seq(SUBSET (0 .. 7)) \ {<<>>}   \* see poll_write
  /\ Bodies \subseteq Seq(SUBSET (0 .. 7))
  /\ MaxFlips \in Nat

KIND_DATA == {0}
KIND_ACK == {1}

HEADER_LEN == 1 + 8 + 4
CRC_LEN == 4
OVERHEAD == HEADER_LEN + CRC_LEN

VARIABLES
  sent,          \* the packet that was encoded, or Nothing
  decoded,       \* the sealed bytes
  flips,         \* damaged bits, counted from the front
  received       \* what parse makes of decoded

vars == <<sent, decoded, flips, received>>

Nothing == [kind |-> "Nothing"]
Data(session, seq, payload) ==
  [kind |-> "Data", session |-> session, seq |-> seq, payload |-> payload]
Ack(session, seq) == [kind |-> "Ack", session |-> session, seq |-> seq]

-----------------------------------------------------------------------------
(* Words. *)

ByteBits == 0 .. 7
WordBits == 0 .. 31
Shr(word, n) == {i - n : i \in {j \in word : j >= n}}

to_be_bytes(value, len) ==
  [k \in 1 .. len |-> {i \in ByteBits : i + 8 * (len - k) \in value}]
from_be_bytes(bytes) ==
  UNION {{i + 8 * (Len(bytes) - k) : i \in bytes[k]} : k \in DOMAIN bytes}

-----------------------------------------------------------------------------
(* The checksum. *)

\* 0xEDB88320
Polynomial == {31, 30, 29, 27, 26, 24, 23, 21, 20, 19, 15, 9, 8, 5}

Divide(crc) == IF 0 \in crc THEN SymDiff(Shr(crc, 1), Polynomial)
                            ELSE Shr(crc, 1)

\* The entry of a byte after some of its bits.
Entry(byte, bits) ==
  LET crc[bit \in 0 .. bits] == IF bit = 0 THEN byte ELSE Divide(crc[bit - 1])
  IN  crc[bits]

\* Mutant: the loop over the bits of an entry ends early.
CRC_TABLE_short == [byte \in SUBSET ByteBits |-> Entry(byte, 7)]

CRC_TABLE == [byte \in SUBSET ByteBits |-> Entry(byte, 8)]

Absorb(crc, byte) ==
  SymDiff(CRC_TABLE[SymDiff(crc \cap ByteBits, byte)], Shr(crc, 8))

Fold(data) ==
  LET crc[k \in 0 .. Len(data)] ==
        IF k = 0 THEN WordBits ELSE Absorb(crc[k - 1], data[k])
  IN  crc[Len(data)]

\* Mutant: only the header is covered.
crc32_header(data) ==
  WordBits \ Fold(SubSeq(data, 1, IF Len(data) > HEADER_LEN THEN HEADER_LEN
                                                           ELSE Len(data)))

crc32(data) == WordBits \ Fold(data)

-----------------------------------------------------------------------------
(* Encoding and parsing. *)

\* Mutant: the session is written in little-endian order.
header_little(kind, session, seq) ==
  <<kind>> \o Reverse(to_be_bytes(session, 8)) \o to_be_bytes(seq, 4)

header(kind, session, seq) ==
  <<kind>> \o to_be_bytes(session, 8) \o to_be_bytes(seq, 4)

seal(body) == body \o to_be_bytes(crc32(body), CRC_LEN)

encode_data(session, seq, payload) ==
  seal(header(KIND_DATA, session, seq) \o payload)
encode_ack(session, seq) == seal(header(KIND_ACK, session, seq))

\* Mutant: whatever follows the header of an acknowledgment is ignored.
Accept_loose(kind, session, seq, payload) ==
  CASE kind = KIND_DATA /\ payload # <<>> -> Data(session, seq, payload)
    [] kind = KIND_ACK -> Ack(session, seq)
    [] OTHER -> Nothing

\* The last match of parse.
Accept(kind, session, seq, payload) ==
  CASE kind = KIND_DATA /\ payload # <<>> -> Data(session, seq, payload)
    [] kind = KIND_ACK /\ payload = <<>>  -> Ack(session, seq)
    [] OTHER -> Nothing

parse(bytes) ==
  LET cut  == Len(bytes) - CRC_LEN
      body == SubSeq(bytes, 1, cut)
  IN  IF \/ Len(bytes) < OVERHEAD
         \/ crc32(body) # from_be_bytes(SubSeq(bytes, cut + 1, Len(bytes)))
      THEN Nothing
      ELSE Accept(body[1], from_be_bytes(SubSeq(body, 2, 9)),
                  from_be_bytes(SubSeq(body, 10, HEADER_LEN)),
                  SubSeq(body, HEADER_LEN + 1, cut))

-----------------------------------------------------------------------------
(* One packet is encoded, damaged under way, and parsed. *)

Init == sent = Nothing /\ decoded = <<>> /\ flips = {} /\ received = Nothing

Arrive(bytes) == decoded' = bytes /\ received' = parse(bytes)

EncodeData ==
  /\ decoded = <<>>
  /\ \E session \in Sessions, seq \in Seqs, payload \in Payloads :
        /\ sent' = Data(session, seq, payload)
        /\ Arrive(encode_data(session, seq, payload))
  /\ UNCHANGED flips

EncodeAck ==
  /\ decoded = <<>>
  /\ \E session \in Sessions, seq \in Seqs :
        /\ sent' = Ack(session, seq)
        /\ Arrive(encode_ack(session, seq))
  /\ UNCHANGED flips

\* Other software seals bytes that need not be a packet.
SealOther ==
  /\ decoded = <<>>
  /\ \E body \in Bodies : Arrive(seal(body))
  /\ UNCHANGED <<sent, flips>>

\* The link inverts a bit behind those of the packet it has inverted so far.
Flip ==
  /\ sent # Nothing
  /\ Cardinality(flips) < MaxFlips
  /\ \E bit \in 0 .. 8 * Len(decoded) - 1 :
        /\ \A earlier \in flips : earlier < bit
        /\ flips' = flips \cup {bit}
        /\ Arrive([decoded EXCEPT ![bit \div 8 + 1] = SymDiff(@, {bit % 8})])
  /\ UNCHANGED sent

Next == EncodeData \/ EncodeAck \/ SealOther \/ Flip

Spec == Init /\ [][Next]_vars

-----------------------------------------------------------------------------
(* Properties *)

\* The peer understands what was encoded: every bit of the session, the
\* sequence number and the payload comes back.
Understood == sent # Nothing /\ flips = {} => received = sent

\* "Corrupted or malformed frame: discarded": no damage to one or two bits,
\* wherever they are, the checksum included, gets past parse.
DamageIsSeen == flips # {} => received = Nothing

\* parse takes nothing but what encode_data and encode_ack produce: no DATA
\* without payload, no ACK with one, no other kind, nothing cut short.
CanonicalOnly ==
  CASE received.kind = "Data" ->
         /\ received.payload # <<>>
         /\ decoded = encode_data(received.session, received.seq,
                                  received.payload)
    [] received.kind = "Ack" ->
         decoded = encode_ack(received.session, received.seq)
    [] OTHER -> TRUE

\* CRC-32/ISO-HDLC takes in a byte one bit after the other, lowest first.
Serial(crc, byte) ==
  LET reg[k \in 0 .. 8] ==
        IF k = 0 THEN crc
        ELSE LET prev == reg[k - 1]
                 low  == (0 \in prev) # (k - 1 \in byte)
             IN  SymDiff(Shr(prev, 1), IF low THEN Polynomial ELSE {})
  IN  reg[8]

\* "123456789" and its checksum 0xCBF43926, as in the crate's tests.
Digits == <<{0, 4, 5}, {1, 4, 5}, {0, 1, 4, 5}, {2, 4, 5}, {0, 2, 4, 5},
            {1, 2, 4, 5}, {0, 1, 2, 4, 5}, {3, 4, 5}, {0, 3, 4, 5}>>
CheckValue == {31, 30, 27, 25, 24, 23, 22, 21, 20, 18, 13, 12, 11, 8, 5, 2, 1}

\* The table does to the register what the polynomial does to it bit by bit,
\* whatever has been taken in and whatever comes next, and the whole gives the
\* value that identifies the algorithm.
CheckValueMatches == crc32(Digits) = CheckValue /\ crc32(<<>>) = {}
ChecksumIsCrc32 ==
  /\ CheckValueMatches
  /\ LET crc == Fold(decoded)
     IN  \A byte \in {{}, {0, 3, 4, 7}} : Absorb(crc, byte) = Serial(crc, byte)
=============================================================================
