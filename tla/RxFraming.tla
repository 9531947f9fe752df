------------------------------ MODULE RxFraming ------------------------------
(***************************************************************************)
(* How Reliable cuts its input into frames (poll_input and process_input   *)
(* of connection.rs), byte by byte.  The transport fills the free part of  *)
(* rx_buf with a chunk of any length; process_input then takes one         *)
(* delimited run after the other from the front of the buffer, and throws  *)
(* away a run that fills the buffer, up to its delimiter.  The link may    *)
(* deliver any bytes at all.                                               *)
(***************************************************************************)
EXTENDS Integers, Sequences, FiniteSets

CONSTANTS
  N,             \* size of rx_buf
  Byte,          \* bytes on the link, the delimiter 0 among them
  MaxStream      \* bound: bytes read

ASSUME FramingAssumption == N \in Nat \ {0} /\ 0 \in Byte /\ MaxStream \in Nat

VARIABLES
  pc,            \* "poll": before the transport's poll_read; "scan": in the
                 \* loop of process_input
  rx_buf,        \* rx_buf[..rx_len]
  rx_discarding,
  \* history
  stream,        \* bytes read
  frames         \* runs handed to process_frame

rxVars == <<pc, rx_buf, rx_discarding, stream, frames>>

Init ==
  /\ pc = "poll"
  /\ rx_buf = <<>>
  /\ rx_discarding = FALSE
  /\ stream = <<>>
  /\ frames = <<>>

\* Mutant: the transport is given the whole buffer's length.
Read_unclamped(chunk) ==
  /\ pc = "poll"
  /\ Len(chunk) \in 1 .. N
  /\ rx_buf' = rx_buf \o chunk
  /\ stream' = stream \o chunk
  /\ pc' = "scan"
  /\ UNCHANGED <<rx_discarding, frames>>

\* poll_input: the transport fills some of the free slice, at least one byte.
\* An empty slice would leave it nothing but Ready(Ok(0)), the end of file.
Read(chunk) ==
  /\ pc = "poll"
  /\ Len(chunk) \in 1 .. N - Len(rx_buf)
  /\ rx_buf' = rx_buf \o chunk
  /\ stream' = stream \o chunk
  /\ pc' = "scan"
  /\ UNCHANGED <<rx_discarding, frames>>

\* iter().position(|&byte| byte == 0), counted from one.
Delimited == \E i \in 1 .. Len(rx_buf) : rx_buf[i] = 0
End == CHOOSE i \in 1 .. Len(rx_buf) :
          rx_buf[i] = 0 /\ \A j \in 1 .. i - 1 : rx_buf[j] # 0

\* Mutant: only a run that is already being discarded is thrown away.
Oversized_never == rx_discarding

\* Nothing that is in the buffer will be part of a frame.
Oversized == rx_discarding \/ Len(rx_buf) = N

\* No delimiter: wait for more input, or make room for it.
Wait ==
  /\ pc = "scan"
  /\ ~ Delimited
  /\ rx_discarding' = Oversized
  /\ rx_buf' = IF Oversized THEN <<>> ELSE rx_buf
  /\ pc' = "poll"
  /\ UNCHANGED <<stream, frames>>

\* Mutant: an oversized run keeps its last piece, which is taken for a frame.
TakeRun_tail ==
  /\ pc = "scan"
  /\ Delimited
  /\ frames' = IF End = 1 THEN frames
                          ELSE Append(frames, SubSeq(rx_buf, 1, End - 1))
  /\ rx_discarding' = FALSE
  /\ rx_buf' = SubSeq(rx_buf, End + 1, Len(rx_buf))
  /\ UNCHANGED <<pc, stream>>

\* Mutant: what follows the delimiter of a discarded run is discarded as well.
TakeRun_all ==
  /\ pc = "scan"
  /\ Delimited
  /\ frames' = IF rx_discarding \/ End = 1
               THEN frames ELSE Append(frames, SubSeq(rx_buf, 1, End - 1))
  /\ rx_discarding' = FALSE
  /\ rx_buf' = IF rx_discarding THEN <<>>
                                ELSE SubSeq(rx_buf, End + 1, Len(rx_buf))
  /\ UNCHANGED <<pc, stream>>

\* Mutant: process_input returns after one frame, the rest waits for a read.
TakeRun_one ==
  /\ pc = "scan"
  /\ Delimited
  /\ frames' = IF rx_discarding \/ End = 1
               THEN frames ELSE Append(frames, SubSeq(rx_buf, 1, End - 1))
  /\ rx_discarding' = FALSE
  /\ rx_buf' = SubSeq(rx_buf, End + 1, Len(rx_buf))
  /\ pc' = "poll"
  /\ UNCHANGED stream

\* One turn of the loop: the run up to the first delimiter leaves the buffer.
\* It is the end of an oversized run, or empty, or a frame.
TakeRun ==
  /\ pc = "scan"
  /\ Delimited
  /\ frames' = IF rx_discarding \/ End = 1
               THEN frames ELSE Append(frames, SubSeq(rx_buf, 1, End - 1))
  /\ rx_discarding' = FALSE
  /\ rx_buf' = SubSeq(rx_buf, End + 1, Len(rx_buf))
  /\ UNCHANGED <<pc, stream>>

Chunks == UNION {[1 .. n -> Byte] : n \in 1 .. N}

Next ==
  \/ \E chunk \in Chunks : Len(stream \o chunk) <= MaxStream /\ Read(chunk)
  \/ Wait
  \/ TakeRun

Spec == Init /\ [][Next]_rxVars

-----------------------------------------------------------------------------
(* Properties *)

FramingTypeOK ==
  /\ pc \in {"poll", "scan"}
  /\ rx_buf \in Seq(Byte)
  /\ Len(rx_buf) <= N
  /\ rx_discarding \in BOOLEAN
  /\ stream \in Seq(Byte)
  /\ frames \in Seq(Seq(Byte))

\* poll_input never offers the transport an empty slice, whatever bytes have
\* arrived in whatever chunks: its Ready(Ok(0)) would be taken for the end of
\* the stream and fail the connection.
RoomToRead == pc = "poll" => Len(rx_buf) < N

-----------------------------------------------------------------------------
(* The frames of an input, by a definition that knows all of it and no reads. *)

\* Where the run that ends before position i of the input s begins.
RunStart(s, i) ==
  CHOOSE b \in 1 .. i : /\ b = 1 \/ s[b - 1] = 0
                        /\ \A j \in b .. i - 1 : s[j] # 0

RunBefore(s, i) == SubSeq(s, RunStart(s, i), i - 1)

\* The delimiters that end a run of a length that can be a frame's.
FrameEnds(s) == {i \in DOMAIN s : s[i] = 0 /\ Len(RunBefore(s, i)) \in 1 .. N - 1}

\* Between reads process_input remembers the unfinished run, and only that:
\* all of it while it may become a frame, otherwise that it is too long.
OnlyTailKept ==
  pc = "poll" =>
    LET tail == RunBefore(stream, Len(stream) + 1)
    IN  /\ rx_discarding <=> Len(tail) >= N
        /\ rx_buf = IF rx_discarding THEN <<>> ELSE tail

-----------------------------------------------------------------------------
(* The frames of the input, as the sequence that process_frame should see. *)

\* How many frames have ended by position i.
EndsBy(s, i) == Cardinality({j \in FrameEnds(s) : j <= i})

\* Where the k-th frame ends.
EndOf(s, k) == CHOOSE i \in FrameEnds(s) : EndsBy(s, i) = k

FramesOf(s) ==
  [k \in 1 .. Cardinality(FrameEnds(s)) |-> RunBefore(s, EndOf(s, k))]

\* The frames processed are the delimited runs of the whole input that fit the
\* buffer with their delimiter, one by one and in order: however the input was cut
\* into reads, and whatever oversized runs lie between them.  process_input returns,
\* and another read is made, only when it has got to the last of them.
Reader == INSTANCE FrameReader WITH
            reading <- (pc = "poll"),
            arrived <- FramesOf(stream),
            processed <- frames

ImplementsFrameReader == Reader!Spec
=============================================================================
