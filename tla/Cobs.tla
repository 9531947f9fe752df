-------------------------------- MODULE Cobs --------------------------------
(***************************************************************************)
(* The COBS codec (sync.rs, codec/decode.rs): the loop of                  *)
(* encode_from_slice_including_sentinels, one step per source byte, and    *)
(* the loop of decode_slice over the frame, one step per encoded byte.     *)
(* Sequences count from 1, so code_idx is one more than in the code.       *)
(***************************************************************************)
EXTENDS CobsBounds, Sequences

CONSTANTS
  Capacities,      \* sizes of the destination slices
  MaxSource        \* bound: source bytes of one encoding or decoding

Byte == 0 .. MaxCode

ASSUME CapacitiesAssumption == Capacities \subseteq Nat /\ MaxSource \in Nat

VARIABLES
  phase,           \* "encode", "OutOfBounds", "decode" or "done"
  capacity,        \* length of the destination, of either loop
  source,          \* the bytes encoded so far
  body,            \* SliceOutput: the encoded body written so far
  code_idx, code, needs_code_placeholder,
  frame,           \* the input of decode_slice
  idx,             \* encoded bytes processed
  started, next_sentinel_idx, current_block_is_full,
  decoded,         \* decoded bytes written so far
  result           \* what decode_slice returned, "None" before that

encodeVars == <<source, body, code_idx, code, needs_code_placeholder>>
decodeVars == <<idx, started, next_sentinel_idx, current_block_is_full,
                decoded, result>>
vars == <<phase, capacity, encodeVars, frame, decodeVars>>

InitDecoder ==
  /\ idx = 0
  /\ started = FALSE
  /\ next_sentinel_idx = 0
  /\ current_block_is_full = FALSE
  /\ decoded = <<>>
  /\ result = "None"

\* The opening delimiter takes one byte of the destination, the placeholder of
\* the first code another.
Init ==
  /\ capacity \in Capacities
  /\ phase = IF capacity < 2 THEN "OutOfBounds" ELSE "encode"
  /\ source = <<>>
  /\ body = <<0>>
  /\ code_idx = 1
  /\ code = 1
  /\ needs_code_placeholder = FALSE
  /\ frame = <<>>
  /\ InitDecoder

-----------------------------------------------------------------------------
(* encode_from_slice_including_sentinels *)

\* The body with the placeholder a full block left for its successor.
Opened == IF needs_code_placeholder THEN Append(body, 0) ELSE body

\* The body lies between the delimiters, the first of which is written.
Encoded(bytes) ==
  /\ body' = bytes
  /\ phase' = IF Len(bytes) <= capacity - 1 THEN "encode" ELSE "OutOfBounds"

EncodeKeeps == UNCHANGED <<capacity, frame, decodeVars>>

EncodeZero ==
  /\ phase = "encode"
  /\ Len(source) < MaxSource
  /\ source' = Append(source, 0)
  /\ Encoded(Append([Opened EXCEPT ![code_idx] = code], 0))
  /\ code_idx' = Len(Opened) + 1
  /\ code' = 1
  /\ needs_code_placeholder' = FALSE
  /\ EncodeKeeps

\* Mutant: a block is full one byte too late.
BlockFull_late == code = MaxCode

\* The byte completes a block of BlockLen bytes.
BlockFull == code + 1 = MaxCode

EncodeByte(byte) ==
  /\ phase = "encode"
  /\ Len(source) < MaxSource
  /\ ~ BlockFull
  /\ source' = Append(source, byte)
  /\ Encoded(Append(Opened, byte))
  /\ code' = code + 1
  /\ needs_code_placeholder' = FALSE
  /\ UNCHANGED code_idx
  /\ EncodeKeeps

\* The code of a full block is known; its successor gets a code only if
\* another byte follows.
EncodeFull(byte) ==
  /\ phase = "encode"
  /\ Len(source) < MaxSource
  /\ BlockFull
  /\ source' = Append(source, byte)
  /\ Encoded(Append([Opened EXCEPT ![code_idx] = code + 1], byte))
  /\ code_idx' = Len(Opened) + 2
  /\ code' = 1
  /\ needs_code_placeholder' = TRUE
  /\ EncodeKeeps

\* Mutant: the last code is not written.
Closed_open == body

\* The body once the last code is in place.
Closed == IF needs_code_placeholder THEN body
          ELSE [body EXCEPT ![code_idx] = code]

\* The source ends; the closing delimiter needs room too.
EncodeEnd ==
  /\ phase = "encode"
  /\ body' = Closed
  /\ IF Len(body) < capacity - 1
     THEN phase' = "decode" /\ frame' = <<0>> \o Closed \o <<0>>
     ELSE phase' = "OutOfBounds" /\ UNCHANGED frame
  /\ UNCHANGED <<capacity, source, code_idx, code, needs_code_placeholder,
                 decodeVars>>

-----------------------------------------------------------------------------
(* decode_slice and DecoderState::push *)

\* The byte the loop looks at.
More(byte) == phase = "decode" /\ idx < Len(frame) /\ byte = frame[idx + 1]

DecodeKeeps == UNCHANGED <<capacity, encodeVars, frame>>

\* Zeros ahead of the frame.
SkipPadding ==
  /\ More(0)
  /\ ~ started
  /\ idx' = idx + 1
  /\ UNCHANGED <<phase, started, next_sentinel_idx, current_block_is_full,
                 decoded, result>>
  /\ DecodeKeeps

\* The loop stores a value, or returns if the destination is full.
Store(value) ==
  /\ started' = TRUE
  /\ IF Len(decoded) < capacity
     THEN /\ decoded' = Append(decoded, value)
          /\ idx' = idx + 1
          /\ UNCHANGED <<phase, result>>
     ELSE /\ phase' = "done"
          /\ result' = "Destination"
          /\ UNCHANGED <<decoded, idx>>

\* Mutant: a full block is followed by an implied zero like any other.
ImpliesZero_always == next_sentinel_idx = 1

\* The block before this code byte stands for a zero after its bytes.
ImpliesZero == next_sentinel_idx = 1 /\ ~ current_block_is_full

\* A code byte: PushResult::Skip or PushResult::WriteSentinel.
PushCode(byte) ==
  /\ More(byte)
  /\ byte # 0
  /\ next_sentinel_idx <= 1
  /\ current_block_is_full' = (byte = MaxCode)
  /\ next_sentinel_idx' = byte
  /\ IF ImpliesZero
     THEN Store(0)
     ELSE /\ started' = TRUE
          /\ idx' = idx + 1
          /\ UNCHANGED <<phase, decoded, result>>
  /\ DecodeKeeps

\* PushResult::AddSingle.
PushData(byte) ==
  /\ More(byte)
  /\ byte # 0
  /\ next_sentinel_idx > 1
  /\ next_sentinel_idx' = next_sentinel_idx - 1
  /\ Store(byte)
  /\ UNCHANGED current_block_is_full
  /\ DecodeKeeps

\* Mutant: a delimiter inside a block ends the frame like any other.
InBlock_never == FALSE

\* Bytes of the current block are missing.
InBlock == next_sentinel_idx > 1

\* PushResult::EndOfFrame or PushResult::InvalidFrame.
PushDelimiter ==
  /\ More(0)
  /\ started
  /\ next_sentinel_idx' = 0
  /\ idx' = idx + 1
  /\ result' = IF InBlock THEN "InvalidFrame" ELSE "Ok"
  /\ phase' = "done"
  /\ UNCHANGED <<started, current_block_is_full, decoded>>
  /\ DecodeKeeps

\* The source ends without a delimiter.
EndOfSource ==
  /\ phase = "decode"
  /\ idx = Len(frame)
  /\ result' = IF InBlock THEN "UnexpectedSourceEof"
               ELSE IF started THEN "Ok" ELSE "EmptyFrame"
  /\ phase' = "done"
  /\ UNCHANGED <<idx, started, next_sentinel_idx, current_block_is_full, decoded>>
  /\ DecodeKeeps

-----------------------------------------------------------------------------
Next ==
  \/ EncodeZero
  \/ \E byte \in Byte \ {0} : EncodeByte(byte) \/ EncodeFull(byte)
  \/ EncodeEnd
  \/ SkipPadding
  \/ \E byte \in Byte : PushCode(byte) \/ PushData(byte)
  \/ PushDelimiter
  \/ EndOfSource

\* decode_slice is given any input at all, not the encoder's; body stays empty.
DecodeInit ==
  /\ capacity \in Capacities
  /\ phase = "decode"
  /\ source = <<>>
  /\ body = <<>>
  /\ code_idx = 0
  /\ code = 1
  /\ needs_code_placeholder = FALSE
  /\ \E n \in 0 .. MaxSource : frame \in [1 .. n -> Byte]
  /\ InitDecoder

Spec == (Init \/ DecodeInit) /\ [][Next]_vars

-----------------------------------------------------------------------------
(* Properties *)

Results == {"None", "Ok", "InvalidFrame", "UnexpectedSourceEof", "EmptyFrame",
            "Destination"}

\* The u8 fields stay in range: no increment overflows, and every set hits a
\* byte already appended.
CodecTypeOK ==
  /\ phase \in {"encode", "OutOfBounds", "decode", "done"}
  /\ capacity \in Nat
  /\ source \in Seq(Byte)
  /\ body \in Seq(Byte)
  /\ code \in 1 .. BlockLen
  /\ needs_code_placeholder \in BOOLEAN
  /\ code_idx = IF needs_code_placeholder THEN Len(body) + 1
                ELSE Len(body) + 1 - code
  /\ frame \in Seq(Byte)
  /\ idx \in 0 .. Len(frame)
  /\ started \in BOOLEAN
  /\ next_sentinel_idx \in Byte
  /\ current_block_is_full \in BOOLEAN
  /\ decoded \in Seq(Byte)
  /\ result \in Results

\* encode_from_slice: "A destination of max_encoding_length(source.len()) bytes
\* is always sufficient", two more with delimiters.
RoomSuffices ==
  phase = "OutOfBounds" => capacity < max_encoding_length(Len(source)) + 2

\* A complete body has no zero in it, whatever the source: delimiters are
\* unambiguous.
BodyHasNoZero ==
  phase \in {"decode", "done"} =>
    \A i \in 1 .. Len(body) : body[i] # 0

\* Decoding what was encoded gives the source back and consumes exactly the
\* frame, at every position of zeros and of full blocks.
RoundTrip ==
  phase = "done" /\ body # <<>> =>
    result = "Ok" /\ decoded = source /\ idx = Len(frame)

\* The frame proper: from the first nonzero byte up to the next zero or the end.
Nonzero(i) == frame[i] # 0
BodyStart == CHOOSE i \in 1 .. Len(frame) :
               Nonzero(i) /\ \A j \in 1 .. i - 1 : ~ Nonzero(j)
BodyEnd == CHOOSE i \in BodyStart .. Len(frame) :
             /\ \A j \in BodyStart .. i : Nonzero(j)
             /\ i = Len(frame) \/ ~ Nonzero(i + 1)

\* COBS as it is defined: the body is a sequence of blocks, each a code and
\* code - 1 bytes, with a zero after each one but the last and the full ones.
\* From(s)[i] is what the blocks from position i on stand for.
From(s) ==
  LET from[i \in 1 .. Len(s) + 1] ==
        IF i > Len(s) THEN [whole |-> TRUE, payload |-> <<>>]
        ELSE IF i + s[i] > Len(s) + 1 THEN [whole |-> FALSE, payload |-> <<>>]
        ELSE LET rest == from[i + s[i]]
                 zero == IF s[i] = MaxCode \/ i + s[i] > Len(s)
                         THEN <<>> ELSE <<0>>
             IN  [whole |-> rest.whole,
                  payload |-> SubSeq(s, i + 1, (i + s[i]) - 1) \o zero \o rest.payload]
  IN  from
Reference(s) == From(s)[1]

\* decode_slice finds the first frame of any input, and returns Ok exactly for
\* bodies made of whole blocks, with the payload these stand for.
DecodeAgrees ==
  phase = "done" =>
    IF \A i \in 1 .. Len(frame) : ~ Nonzero(i)
    THEN result = "EmptyFrame"
    ELSE LET reference == Reference(SubSeq(frame, BodyStart, BodyEnd))
             delimited == BodyEnd < Len(frame)
         IN  CASE result = "Ok" ->
                    /\ reference.whole
                    /\ decoded = reference.payload
                    /\ idx = IF delimited THEN BodyEnd + 1 ELSE BodyEnd
               [] result = "InvalidFrame" ->
                    ~ reference.whole /\ delimited /\ idx = BodyEnd + 1
               [] result = "UnexpectedSourceEof" ->
                    ~ reference.whole /\ ~ delimited
               [] result = "Destination" ->
                    reference.whole => Len(reference.payload) > capacity
               [] OTHER -> FALSE
=============================================================================
