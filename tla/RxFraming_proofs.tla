--------------------------- MODULE RxFraming_proofs ---------------------------
(***************************************************************************)
(* Theorems about RxFraming and LateAck: whatever arrives, in whatever     *)
(* pieces, a read has room, the frames are those of the whole input, and   *)
(* an acknowledgment that is ready in time counts.                         *)
(***************************************************************************)
EXTENDS LateAck, TLAPS, WellFoundedInduction, FiniteSetTheorems

\* What process_frame decodes holds no delimiter of its own and leaves room in
\* the buffer for the one it is passed with.
FramesFit ==
  \A k \in 1 .. Len(frames) :
    /\ Len(frames[k]) \in 1 .. N - 1
    /\ \A i \in 1 .. Len(frames[k]) : frames[k][i] # 0

IInv == FramingTypeOK /\ RoomToRead /\ FramesFit

\* A nonempty set of numbers has a least one.
LEMMA Least ==
  ASSUME NEW T \in SUBSET Nat, T # {}
  PROVE  \E m \in T : \A n \in T : m <= n
<1> DEFINE Less == OpToRel(<, Nat)
<1>1. \A x, y \in Nat : x < y => <<x, y>> \in Less
  BY DEF OpToRel
<1>2. \E m \in T : \A n \in T : <<n, m>> \notin Less
  <2> HIDE DEF Less
  <2>1. IsWellFoundedOn(Less, Nat)
    BY NatLessThanWellFounded DEF Less
  <2> QED BY <2>1, WFMin
<1>3. PICK m \in T : \A n \in T : <<n, m>> \notin Less
  BY <1>2
<1>4. ASSUME NEW n \in T PROVE m <= n
  <2> HIDE DEF Less
  <2>1. m \in Nat /\ n \in Nat /\ <<n, m>> \notin Less
    BY <1>3
  <2>2. ~ (n < m)
    BY <1>1, <2>1
  <2> QED BY <2>1, <2>2
<1> QED BY <1>4

\* The position process_input finds is that of the first delimiter.
LEMMA FirstDelimiter ==
  ASSUME NEW S, rx_buf \in Seq(S), Delimited
  PROVE  /\ End \in 1 .. Len(rx_buf)
         /\ rx_buf[End] = 0
         /\ \A j \in 1 .. End - 1 : rx_buf[j] # 0
<1> DEFINE T == {i \in 1 .. Len(rx_buf) : rx_buf[i] = 0}
<1>1. T \in SUBSET Nat /\ T # {}
  BY DEF Delimited
<1>2. PICK m \in T : \A n \in T : m <= n
  <2> HIDE DEF T
  <2> QED BY <1>1, Least
<1>3. m \in 1 .. Len(rx_buf) /\ rx_buf[m] = 0 /\ \A j \in 1 .. m - 1 : rx_buf[j] # 0
  BY <1>2
<1>4. \E i \in 1 .. Len(rx_buf) :
        rx_buf[i] = 0 /\ \A j \in 1 .. i - 1 : rx_buf[j] # 0
  BY <1>3
<1> QED BY <1>4 DEF End

LEMMA InitIInv == Init => IInv
<1> SUFFICES ASSUME Init PROVE IInv
  OBVIOUS
<1>1. rx_buf = <<>> /\ stream = <<>> /\ frames = <<>> /\ Len(<<>>) = 0
  BY DEF Init
<1>2. rx_discarding \in BOOLEAN /\ pc \in {"poll", "scan"}
  BY DEF Init
<1>3. FramingTypeOK /\ RoomToRead
  BY <1>1, <1>2, FramingAssumption
  DEF FramingTypeOK, RoomToRead, FramingAssumption
<1>4. FramesFit
  BY <1>1 DEF FramesFit
<1> QED BY <1>3, <1>4 DEF IInv

\* poll_input writes no further than the buffer reaches.
LEMMA ReadKeeps == ASSUME IInv, NEW chunk \in Seq(Byte), Read(chunk) PROVE IInv'
<1>1. FramingTypeOK'
  <2>1. Len(rx_buf \o chunk) = Len(rx_buf) + Len(chunk)
    BY DEF IInv, FramingTypeOK
  <2> QED BY <2>1, FramingAssumption
          DEF Read, IInv, FramingTypeOK, FramingAssumption
<1>2. RoomToRead' /\ FramesFit'
  BY DEF Read, IInv, RoomToRead, FramesFit
<1> QED BY <1>1, <1>2 DEF IInv

\* A buffer without delimiter is not full when process_input returns.
LEMMA WaitKeeps == ASSUME IInv, Wait PROVE IInv'
<1> USE FramingAssumption DEF FramingAssumption
<1>1. FramingTypeOK' /\ RoomToRead'
  BY DEF Wait, IInv, FramingTypeOK, RoomToRead, Oversized
<1>2. FramesFit'
  BY DEF Wait, IInv, FramesFit
<1> QED BY <1>1, <1>2 DEF IInv

\* The run before the first delimiter is shorter than the buffer and holds no
\* delimiter.
LEMMA TakeRunKeeps == ASSUME IInv, TakeRun PROVE IInv'
<1> DEFINE run == SubSeq(rx_buf, 1, End - 1)
<1> USE FramingAssumption DEF FramingAssumption
<1>1. /\ End \in 1 .. Len(rx_buf)
      /\ \A j \in 1 .. End - 1 : rx_buf[j] # 0
      /\ Len(rx_buf) \in Nat /\ Len(rx_buf) <= N
  BY FirstDelimiter DEF TakeRun, IInv, FramingTypeOK
<1>2. /\ run \in Seq(Byte)
      /\ Len(run) = End - 1
      /\ \A i \in 1 .. Len(run) : run[i] # 0
  BY <1>1 DEF IInv, FramingTypeOK
<1>3. /\ SubSeq(rx_buf, End + 1, Len(rx_buf)) \in Seq(Byte)
      /\ Len(SubSeq(rx_buf, End + 1, Len(rx_buf))) <= N
  BY <1>1 DEF IInv, FramingTypeOK
<1>4. frames' = frames \/ (End # 1 /\ frames' = Append(frames, run))
  BY DEF TakeRun
<1>5. frames' \in Seq(Seq(Byte)) /\ FramesFit'
  <2>1. CASE frames' = frames
    BY <2>1 DEF IInv, FramingTypeOK, FramesFit
  <2>2. CASE End # 1 /\ frames' = Append(frames, run)
    <3> HIDE DEF run
    <3>1. Len(run) \in 1 .. N - 1
      BY <1>1, <1>2, <2>2
    <3>2. frames \in Seq(Seq(Byte)) /\ frames' \in Seq(Seq(Byte))
      BY <1>2, <2>2 DEF IInv, FramingTypeOK
    <3>3. \A k \in 1 .. Len(frames') :
            \/ frames'[k] = run
            \/ k \in 1 .. Len(frames) /\ frames'[k] = frames[k]
      BY <1>2, <2>2, <3>2
    <3> QED BY <1>2, <3>1, <3>2, <3>3 DEF IInv, FramesFit
  <2> QED BY <1>4, <2>1, <2>2
<1>6. FramingTypeOK' /\ RoomToRead'
  BY <1>3, <1>5 DEF TakeRun, IInv, FramingTypeOK, RoomToRead
<1> QED BY <1>5, <1>6 DEF IInv

LEMMA NextIInv == IInv /\ [Next]_rxVars => IInv'
<1> SUFFICES ASSUME IInv, [Next]_rxVars PROVE IInv'
  OBVIOUS
<1>1. ASSUME NEW chunk \in Chunks, Read(chunk) PROVE IInv'
  <2>1. chunk \in Seq(Byte)
    BY FramingAssumption DEF Chunks, FramingAssumption
  <2> QED BY <1>1, <2>1, ReadKeeps
<1>2. CASE UNCHANGED rxVars
  BY <1>2 DEF rxVars, IInv, FramingTypeOK, RoomToRead, FramesFit
<1> QED BY <1>1, <1>2, WaitKeeps, TakeRunKeeps DEF Next

\* poll_read is never given an empty slice.
THEOREM NeverTakenForEof == Spec => []RoomToRead
<1>1. IInv => RoomToRead
  BY DEF IInv
<1> QED BY <1>1, InitIInv, NextIInv, PTL DEF Spec

\* What process_frame is handed has no delimiter inside and fits.
THEOREM FramesAlwaysFit == Spec => []FramesFit
<1>1. IInv => FramesFit
  BY DEF IInv
<1> QED BY <1>1, InitIInv, NextIInv, PTL DEF Spec

-----------------------------------------------------------------------------
(* The runs of an input *)

\* The run before a position begins after the last delimiter.
LEMMA RunStartIs ==
  ASSUME NEW S, NEW s \in Seq(S), NEW i \in 1 .. Len(s) + 1
  PROVE  /\ RunStart(s, i) \in 1 .. i
         /\ RunStart(s, i) = 1 \/ s[RunStart(s, i) - 1] = 0
         /\ \A j \in RunStart(s, i) .. i - 1 : s[j] # 0
<1> DEFINE T == {k \in 0 .. i - 1 : i - k = 1 \/ s[i - k - 1] = 0}
<1>1. T \in SUBSET Nat /\ i - 1 \in T
  OBVIOUS
<1>2. PICK m \in T : \A k \in T : m <= k
  <2> HIDE DEF T
  <2> QED BY <1>1, Least
<1>3. m \in 0 .. i - 1 /\ (i - m = 1 \/ s[i - m - 1] = 0)
  BY <1>2
<1>4. ASSUME NEW j \in i - m .. i - 1 PROVE s[j] # 0
  <2>1. i - 1 - j \in 0 .. i - 1 /\ i - (i - 1 - j) - 1 = j
    BY <1>3
  <2>2. s[j] = 0 => i - 1 - j \in T
    BY <2>1
  <2>3. i - 1 - j < m /\ m \in Nat /\ i - 1 - j \in Nat
    BY <1>3, <2>1
  <2> HIDE DEF T
  <2>4. i - 1 - j \notin T
    BY <1>2, <2>3
  <2> QED BY <2>2, <2>4
<1>5. i - m \in 1 .. i
  BY <1>3
<1>6. \E b \in 1 .. i : /\ b = 1 \/ s[b - 1] = 0
                        /\ \A j \in b .. i - 1 : s[j] # 0
  BY <1>3, <1>4, <1>5
<1> QED BY <1>6 DEF RunStart

\* The same, for what follows a position.
LEMMA RunStartAfter ==
  ASSUME NEW S, NEW s \in Seq(S), NEW n \in 0 .. Len(s)
  PROVE  /\ RunStart(s, n + 1) \in 1 .. n + 1
         /\ RunStart(s, n + 1) = 1 \/ s[RunStart(s, n + 1) - 1] = 0
         /\ \A j \in RunStart(s, n + 1) .. n : s[j] # 0
<1>1. n + 1 \in 1 .. Len(s) + 1 /\ n + 1 - 1 = n
  OBVIOUS
<1> DEFINE i == n + 1
<1>2. i \in 1 .. Len(s) + 1 /\ i - 1 = n
  BY <1>1
<1> HIDE DEF i
<1>3. /\ RunStart(s, i) \in 1 .. i
      /\ RunStart(s, i) = 1 \/ s[RunStart(s, i) - 1] = 0
      /\ \A j \in RunStart(s, i) .. n : s[j] # 0
  BY <1>2, RunStartIs
<1> QED BY <1>3 DEF i

\* No other place is one.
LEMMA RunStartOnly ==
  ASSUME NEW S, NEW s \in Seq(S), NEW i \in 1 .. Len(s) + 1, NEW b \in 1 .. i,
         b = 1 \/ s[b - 1] = 0,
         \A j \in b .. i - 1 : s[j] # 0
  PROVE  b = RunStart(s, i)
<1> DEFINE c == RunStart(s, i)
<1>1. c \in 1 .. i /\ (c = 1 \/ s[c - 1] = 0) /\ \A j \in c .. i - 1 : s[j] # 0
  BY RunStartIs
<1> HIDE DEF c
<1>2. ~ (b < c)
  <2>1. b < c => c - 1 \in b .. i - 1 /\ s[c - 1] = 0
    BY <1>1
  <2> QED BY <2>1
<1>3. ~ (c < b)
  <2>1. c < b => b - 1 \in c .. i - 1 /\ s[b - 1] = 0
    BY <1>1
  <2> QED BY <1>1, <2>1
<1>4. b = c
  BY <1>1, <1>2, <1>3
<1> QED BY <1>4 DEF c

\* Its length.
LEMMA RunLength ==
  ASSUME NEW S, NEW s \in Seq(S), NEW i \in 1 .. Len(s) + 1
  PROVE  RunBefore(s, i) \in Seq(S) /\ Len(RunBefore(s, i)) = i - RunStart(s, i)
<1>1. RunStart(s, i) \in 1 .. i
  BY RunStartIs
<1> QED BY <1>1 DEF RunBefore

\* More input changes no run that has ended.
LEMMA RunKept ==
  ASSUME NEW S, NEW s \in Seq(S), NEW c \in Seq(S), NEW i \in 1 .. Len(s) + 1
  PROVE  /\ RunStart(s \o c, i) = RunStart(s, i)
         /\ RunBefore(s \o c, i) = RunBefore(s, i)
<1> DEFINE t == s \o c
           b == RunStart(s, i)
<1>1. t \in Seq(S) /\ Len(t) = Len(s) + Len(c) /\ \A j \in 1 .. Len(s) : t[j] = s[j]
  OBVIOUS
<1>2. b \in 1 .. i /\ (b = 1 \/ s[b - 1] = 0) /\ \A j \in b .. i - 1 : s[j] # 0
  BY RunStartIs
<1> HIDE DEF t, b
<1>3. i \in 1 .. Len(t) + 1
  BY <1>1
<1>4. (b = 1 \/ t[b - 1] = 0) /\ \A j \in b .. i - 1 : t[j] # 0
  <2>1. b \in Int /\ i \in Int /\ i <= Len(s) + 1 /\ 1 <= b /\ b <= i /\ Len(s) \in Nat
    BY <1>2
  <2>2. b # 1 => b - 1 \in 1 .. Len(s)
    BY <2>1
  <2>3. \A j \in b .. i - 1 : j \in 1 .. Len(s)
    BY <2>1
  <2> QED BY <1>1, <1>2, <2>2, <2>3
<1>5. b = RunStart(t, i)
  BY <1>1, <1>2, <1>3, <1>4, RunStartOnly
<1>6. SubSeq(t, b, i - 1) = SubSeq(s, b, i - 1)
  <2>1. \A j \in 1 .. i - b : t[b + j - 1] = s[b + j - 1]
    BY <1>1, <1>2
  <2>2. SubSeq(t, b, i - 1) = [j \in 1 .. i - b |-> t[b + j - 1]]
    BY <1>1, <1>2
  <2>3. SubSeq(s, b, i - 1) = [j \in 1 .. i - b |-> s[b + j - 1]]
    BY <1>1, <1>2
  <2> QED BY <2>1, <2>2, <2>3
<1> QED BY <1>5, <1>6 DEF RunBefore, b, t

\* The ends of frames up to a position.
EndsUpTo(s, n) == {i \in FrameEnds(s) : i <= n}

LEMMA EndsKept ==
  ASSUME NEW S, NEW s \in Seq(S), NEW c \in Seq(S), NEW n \in 0 .. Len(s)
  PROVE  EndsUpTo(s \o c, n) = EndsUpTo(s, n)
<1>1. s \o c \in Seq(S) /\ Len(s \o c) = Len(s) + Len(c)
      /\ \A j \in 1 .. Len(s) : (s \o c)[j] = s[j]
  OBVIOUS
<1>2. \A i \in 1 .. Len(s) : RunBefore(s \o c, i) = RunBefore(s, i)
  BY RunKept
<1>3. \A i \in 1 .. Len(s) : i \in FrameEnds(s \o c) <=> i \in FrameEnds(s)
  BY <1>1, <1>2 DEF FrameEnds
<1>4. \A i \in EndsUpTo(s \o c, n) \cup EndsUpTo(s, n) : i \in 1 .. Len(s)
  BY <1>1 DEF EndsUpTo, FrameEnds
<1> QED BY <1>3, <1>4 DEF EndsUpTo

\* They are finitely many, and each end adds one.
LEMMA EndsFinite ==
  ASSUME NEW S, NEW s \in Seq(S), NEW n \in Int
  PROVE  IsFiniteSet(EndsUpTo(s, n))
<1>1. IsFiniteSet(1 .. Len(s))
  BY FS_Interval
<1>2. EndsUpTo(s, n) \subseteq 1 .. Len(s)
  BY DEF EndsUpTo, FrameEnds
<1> QED BY <1>1, <1>2, FS_Subset

LEMMA EndsNone ==
  ASSUME NEW S, NEW s \in Seq(S), NEW m \in Nat, NEW n \in Nat, m <= n,
         \A i \in m + 1 .. n : i \notin FrameEnds(s)
  PROVE  EndsUpTo(s, n) = EndsUpTo(s, m)
<1>1. \A i \in FrameEnds(s) : i \in Int
  BY DEF FrameEnds
<1> QED BY <1>1 DEF EndsUpTo

LEMMA EndsOneMore ==
  ASSUME NEW S, NEW s \in Seq(S), NEW m \in Nat, NEW n \in Nat, m < n,
         n \in FrameEnds(s), \A i \in m + 1 .. n - 1 : i \notin FrameEnds(s)
  PROVE  /\ EndsUpTo(s, n) = EndsUpTo(s, m) \cup {n}
         /\ n \notin EndsUpTo(s, m)
         /\ Cardinality(EndsUpTo(s, n)) = Cardinality(EndsUpTo(s, m)) + 1
<1>1. \A i \in FrameEnds(s) : i \in Int
  BY DEF FrameEnds
<1>2. EndsUpTo(s, n) = EndsUpTo(s, m) \cup {n} /\ n \notin EndsUpTo(s, m)
  <2>1. n \notin EndsUpTo(s, m) /\ n \in EndsUpTo(s, n)
    BY DEF EndsUpTo
  <2>2. ASSUME NEW i \in EndsUpTo(s, m) PROVE i \in EndsUpTo(s, n)
    <3>1. i \in FrameEnds(s) /\ i \in Int /\ i <= m
      BY <1>1 DEF EndsUpTo
    <3>2. i <= n
      BY <3>1
    <3> QED BY <3>1, <3>2 DEF EndsUpTo
  <2>3. ASSUME NEW i \in EndsUpTo(s, n), i # n PROVE i \in EndsUpTo(s, m)
    <3>1. i \in FrameEnds(s) /\ i \in Int /\ i <= n /\ i # n
      BY <1>1, <2>3 DEF EndsUpTo
    <3>2. i \notin m + 1 .. n - 1
      BY <3>1
    <3>3. i <= m
      BY <3>1, <3>2
    <3> QED BY <3>1, <3>3 DEF EndsUpTo
  <2> QED BY <2>1, <2>2, <2>3
<1>3. IsFiniteSet(EndsUpTo(s, m))
  BY EndsFinite
<1> QED BY <1>2, <1>3, FS_AddElement

-----------------------------------------------------------------------------
(* The frames of the input.  The strengthening says what the loop of           *)
(* process_input has done with the input up to where rx_buf begins.            *)

\* The frames found are the delimited runs of the whole input that fit the
\* buffer with their delimiter, in order: however the input was cut into
\* reads, and whatever oversized runs lie between them.
FramesOfStream ==
  pc = "poll" =>
    LET ends == FrameEnds(stream)
    IN  /\ Len(frames) = Cardinality(ends)
        /\ \A i \in ends :
             frames[Cardinality({j \in ends : j <= i})] = RunBefore(stream, i)

\* The input that has left rx_buf.
taken == Len(stream) - Len(rx_buf)

\* rx_buf is the rest of the input.  A run has just ended before it, unless the
\* run in hand is already too long; between reads it holds no delimiter.
Kept ==
  /\ Len(rx_buf) <= Len(stream)
  /\ \A i \in 1 .. Len(rx_buf) : rx_buf[i] = stream[taken + i]
  /\ IF rx_discarding THEN taken + 1 - RunStart(stream, taken + 1) >= N
                      ELSE RunStart(stream, taken + 1) = taken + 1
  /\ pc = "poll" => /\ \A i \in 1 .. Len(rx_buf) : rx_buf[i] # 0
                    /\ rx_discarding => rx_buf = <<>>

\* The frames are those that end in the input taken.
Found ==
  /\ Len(frames) = Cardinality(EndsUpTo(stream, taken))
  /\ \A i \in EndsUpTo(stream, taken) :
        frames[Cardinality(EndsUpTo(stream, i))] = RunBefore(stream, i)

StreamInv == IInv /\ Kept /\ Found

LEMMA InitStream == Init => StreamInv
<1> SUFFICES ASSUME Init PROVE StreamInv
  OBVIOUS
<1>1. /\ rx_buf = <<>> /\ stream = <<>> /\ frames = <<>> /\ rx_discarding = FALSE
      /\ stream \in Seq(Byte) /\ Len(rx_buf) = 0 /\ Len(stream) = 0 /\ Len(frames) = 0
  BY DEF Init
<1>2. taken = 0 /\ taken + 1 = 1
  BY <1>1 DEF taken
<1>3. RunStart(stream, 1) \in 1 .. 1
  <2>1. 1 \in 1 .. Len(stream) + 1
    BY <1>1
  <2> QED BY <1>1, <2>1, RunStartIs
<1>4. Kept
  BY <1>1, <1>2, <1>3 DEF Kept
<1>5. EndsUpTo(stream, taken) = {}
  BY <1>1 DEF EndsUpTo, FrameEnds
<1>6. Found
  BY <1>1, <1>5, FS_EmptySet DEF Found
<1> QED BY <1>4, <1>6, InitIInv DEF StreamInv

\* A read adds to the input behind what was taken.
LEMMA ReadKeepsStream ==
  ASSUME StreamInv, NEW chunk \in Seq(Byte), Read(chunk)
  PROVE  Kept' /\ Found'
<1>1. /\ rx_buf \in Seq(Byte) /\ stream \in Seq(Byte)
      /\ rx_buf' = rx_buf \o chunk /\ stream' = stream \o chunk
      /\ pc' = "scan" /\ rx_discarding' = rx_discarding /\ frames' = frames
  BY DEF StreamInv, IInv, FramingTypeOK, Read
<1>2. /\ Len(rx_buf') = Len(rx_buf) + Len(chunk)
      /\ Len(stream') = Len(stream) + Len(chunk)
      /\ Len(rx_buf) \in Nat /\ Len(stream) \in Nat /\ Len(chunk) \in Nat
      /\ Len(rx_buf) <= Len(stream)
  BY <1>1 DEF StreamInv, Kept
<1>3. taken' = taken /\ taken \in 0 .. Len(stream) /\ taken + Len(rx_buf) = Len(stream)
  BY <1>2 DEF taken
<1>4. RunStart(stream', taken + 1) = RunStart(stream, taken + 1)
  <2>1. taken + 1 \in 1 .. Len(stream) + 1
    BY <1>2, <1>3
  <2> QED BY <1>1, <2>1, RunKept
<1>5. ASSUME NEW i \in 1 .. Len(rx_buf') PROVE rx_buf'[i] = stream'[taken + i]
  <2>1. CASE i <= Len(rx_buf)
    <3>1. rx_buf'[i] = rx_buf[i] /\ rx_buf[i] = stream[taken + i]
      BY <1>1, <1>2, <2>1 DEF StreamInv, Kept
    <3>2. taken + i \in 1 .. Len(stream)
      BY <1>2, <1>3, <2>1
    <3> QED BY <1>1, <3>1, <3>2
  <2>2. CASE ~ (i <= Len(rx_buf))
    <3> DEFINE k == taken + i
    <3>1. /\ k \in Len(stream) + 1 .. Len(stream) + Len(chunk)
          /\ k - Len(stream) = i - Len(rx_buf)
      BY <1>2, <1>3, <2>2
    <3>2. rx_buf'[i] = chunk[i - Len(rx_buf)]
      BY <1>1, <1>2, <2>2
    <3> HIDE DEF k
    <3>3. stream'[k] = chunk[k - Len(stream)]
      BY <1>1, <3>1
    <3> QED BY <3>1, <3>2, <3>3 DEF k
  <2> QED BY <2>1, <2>2
<1>6. Kept'
  BY <1>1, <1>2, <1>3, <1>4, <1>5 DEF StreamInv, Kept
<1>7. Found'
  <2>1. EndsUpTo(stream', taken) = EndsUpTo(stream, taken)
    BY <1>1, <1>3, EndsKept
  <2>2. ASSUME NEW i \in EndsUpTo(stream, taken)
        PROVE  /\ EndsUpTo(stream', i) = EndsUpTo(stream, i)
               /\ RunBefore(stream', i) = RunBefore(stream, i)
    <3>1. i \in 1 .. Len(stream)
      BY <1>1 DEF EndsUpTo, FrameEnds
    <3> QED BY <1>1, <3>1, EndsKept, RunKept
  <2> QED BY <1>1, <1>3, <2>1, <2>2 DEF StreamInv, Found
<1> QED BY <1>6, <1>7

\* A run that never ends is dropped: nothing in it ended a frame.
LEMMA WaitKeepsStream == ASSUME StreamInv, Wait PROVE Kept' /\ Found'
<1>1. /\ rx_buf \in Seq(Byte) /\ stream \in Seq(Byte) /\ N \in Nat \ {0}
      /\ stream' = stream /\ frames' = frames /\ pc' = "poll"
      /\ rx_discarding' = Oversized /\ rx_discarding \in BOOLEAN
  BY FramingAssumption DEF StreamInv, IInv, FramingTypeOK, Wait, FramingAssumption
<1>2. /\ Len(rx_buf) \in Nat /\ Len(stream) \in Nat /\ taken \in 0 .. Len(stream)
      /\ taken + Len(rx_buf) = Len(stream)
  BY <1>1 DEF StreamInv, Kept, taken
<1>3. \A i \in 1 .. Len(rx_buf) : rx_buf[i] # 0
  BY DEF Wait, Delimited
<1>4. CASE ~ Oversized
  <2>1. rx_buf' = rx_buf /\ rx_discarding' = rx_discarding /\ ~ rx_discarding
    BY <1>1, <1>4 DEF Wait, Oversized
  <2>2. taken' = taken
    BY <1>1, <2>1 DEF taken
  <2> QED BY <1>1, <1>3, <2>1, <2>2 DEF StreamInv, Kept, Found
<1>5. CASE Oversized
  <2>1. rx_buf' = <<>> /\ Len(rx_buf') = 0 /\ rx_discarding' /\ Len(stream') = Len(stream)
    BY <1>1, <1>5 DEF Wait
  <2>2. taken' = Len(stream)
    BY <1>2, <2>1 DEF taken
  <2> DEFINE b == RunStart(stream, taken + 1)
  <2>3. /\ b \in 1 .. taken + 1 /\ (b = 1 \/ stream[b - 1] = 0)
        /\ \A j \in b .. taken : stream[j] # 0
    BY <1>1, <1>2, RunStartAfter
  <2>4. \A j \in taken + 1 .. Len(stream) : stream[j] # 0
    <3>1. \A j \in taken + 1 .. Len(stream) :
            j - taken \in 1 .. Len(rx_buf) /\ taken + (j - taken) = j
      BY <1>2
    <3> QED BY <1>3, <3>1 DEF StreamInv, Kept
  <2>5. taken + 1 - b >= N \/ (b = taken + 1 /\ Len(rx_buf) = N)
    BY <1>1, <1>5 DEF StreamInv, Kept, Oversized
  <2> HIDE DEF b
  <2>6. b = RunStart(stream, Len(stream) + 1)
    <3>1. b \in 1 .. Len(stream) + 1 /\ Len(stream) + 1 \in 1 .. Len(stream) + 1
      BY <1>2, <2>3
    <3>2. \A j \in b .. Len(stream) + 1 - 1 : stream[j] # 0
      <4>1. \A j \in b .. Len(stream) + 1 - 1 :
              j \in b .. taken \/ j \in taken + 1 .. Len(stream)
        BY <1>2, <2>3
      <4> QED BY <2>3, <2>4, <4>1
    <3> QED BY <1>1, <2>3, <3>1, <3>2, RunStartOnly
  <2>7. Len(stream) + 1 - b >= N
    BY <1>1, <1>2, <2>3, <2>5
  <2>8. Kept'
    BY <1>1, <1>2, <2>1, <2>2, <2>6, <2>7 DEF Kept
  <2>9. EndsUpTo(stream, Len(stream)) = EndsUpTo(stream, taken)
    <3>1. \A i \in taken + 1 .. Len(stream) : i \notin FrameEnds(stream)
      BY <2>4 DEF FrameEnds
    <3> QED BY <1>1, <1>2, <3>1, EndsNone
  <2>10. Found'
    BY <1>1, <2>2, <2>9 DEF StreamInv, Found
  <2> QED BY <2>8, <2>10
<1> QED BY <1>4, <1>5

\* Where TakeRun leaves the input: the delimiter it found is the next in the
\* input, and the run it ends is the one in hand.
LEMMA TakenRun ==
  ASSUME StreamInv, TakeRun, NEW e, e = taken + End, NEW b, b = RunStart(stream, taken + 1)
  PROVE  /\ e \in taken + 1 .. Len(stream) /\ taken' = e /\ taken \in Nat
         /\ stream[e] = 0
         /\ \A j \in taken + 1 .. e - 1 : stream[j] # 0
         /\ b \in 1 .. taken + 1 /\ b = RunStart(stream, e)
         /\ \A i \in 1 .. Len(rx_buf') : rx_buf'[i] = stream[e + i]
         /\ \A i \in 1 .. End : rx_buf[i] = stream[taken + i]
         /\ End \in 1 .. Len(rx_buf) /\ Len(rx_buf) \in Nat
<1>1. /\ rx_buf \in Seq(Byte) /\ stream \in Seq(Byte) /\ Delimited
      /\ stream' = stream /\ rx_buf' = SubSeq(rx_buf, End + 1, Len(rx_buf))
  BY DEF StreamInv, IInv, FramingTypeOK, TakeRun
<1>2. /\ Len(rx_buf) \in Nat /\ Len(stream) \in Nat /\ taken \in 0 .. Len(stream)
      /\ taken + Len(rx_buf) = Len(stream)
      /\ \A i \in 1 .. Len(rx_buf) : rx_buf[i] = stream[taken + i]
  BY <1>1 DEF StreamInv, Kept, taken
<1>3. /\ End \in 1 .. Len(rx_buf) /\ rx_buf[End] = 0
      /\ \A j \in 1 .. End - 1 : rx_buf[j] # 0
  BY <1>1, FirstDelimiter
<1>4. e \in taken + 1 .. Len(stream) /\ stream[e] = 0
  BY <1>2, <1>3
<1>5. Len(rx_buf') = Len(rx_buf) - End /\ taken' = e
  <2>1. Len(rx_buf') = Len(rx_buf) - End
    BY <1>1, <1>2, <1>3
  <2>2. taken' = Len(stream') - Len(rx_buf') /\ stream' = stream
    BY <1>1 DEF taken
  <2> QED BY <1>2, <1>3, <2>1, <2>2
<1>6. ASSUME NEW j \in taken + 1 .. e - 1 PROVE stream[j] # 0
  <2> DEFINE k == j - taken
  <2>1. k \in 1 .. End - 1 /\ k \in 1 .. Len(rx_buf) /\ j = taken + k
    BY <1>2, <1>3
  <2> HIDE DEF k
  <2> QED BY <1>2, <1>3, <2>1
<1>7. /\ b \in 1 .. taken + 1 /\ (b = 1 \/ stream[b - 1] = 0)
      /\ \A j \in b .. taken : stream[j] # 0
  BY <1>1, <1>2, RunStartAfter
<1>8. b = RunStart(stream, e)
  <2>1. e \in 1 .. Len(stream) + 1 /\ b \in 1 .. e
    BY <1>2, <1>4, <1>7
  <2>2. ASSUME NEW j \in b .. e - 1 PROVE stream[j] # 0
    <3>1. j \in b .. taken \/ j \in taken + 1 .. e - 1
      BY <1>2, <1>7, <2>1
    <3> QED BY <1>6, <1>7, <3>1
  <2> QED BY <1>1, <1>7, <2>1, <2>2, RunStartOnly
<1>9. ASSUME NEW i \in 1 .. Len(rx_buf') PROVE rx_buf'[i] = stream[e + i]
  <2> DEFINE k == End + i
  <2>1. k \in 1 .. Len(rx_buf) /\ taken + k = e + i /\ rx_buf'[i] = rx_buf[k]
    BY <1>1, <1>2, <1>3, <1>5
  <2> HIDE DEF k
  <2>2. rx_buf[k] = stream[taken + k]
    BY <1>2, <2>1
  <2> QED BY <2>1, <2>2
<1> QED BY <1>2, <1>3, <1>4, <1>5, <1>6, <1>7, <1>8, <1>9

\* Counted up to an end of a frame, the ends are as many as its number.
LEMMA EndsNumber ==
  ASSUME NEW S, NEW s \in Seq(S), NEW n \in Nat, NEW i \in EndsUpTo(s, n)
  PROVE  Cardinality(EndsUpTo(s, i)) \in 1 .. Cardinality(EndsUpTo(s, n))
<1>1. i \in Int /\ i \in FrameEnds(s) /\ i <= n
  BY DEF EndsUpTo, FrameEnds
<1>2. EndsUpTo(s, i) \subseteq EndsUpTo(s, n) /\ i \in EndsUpTo(s, i)
  <2>1. i \in EndsUpTo(s, i)
    BY <1>1 DEF EndsUpTo
  <2>2. ASSUME NEW j \in EndsUpTo(s, i) PROVE j \in EndsUpTo(s, n)
    <3>1. j \in FrameEnds(s) /\ j \in Int /\ j <= i
      BY DEF EndsUpTo, FrameEnds
    <3>2. j <= n
      BY <1>1, <3>1
    <3> QED BY <3>1, <3>2 DEF EndsUpTo
  <2> QED BY <2>1, <2>2
<1>3. IsFiniteSet(EndsUpTo(s, n)) /\ IsFiniteSet(EndsUpTo(s, i))
  BY <1>1, EndsFinite
<1>4. /\ Cardinality(EndsUpTo(s, i)) <= Cardinality(EndsUpTo(s, n))
      /\ Cardinality(EndsUpTo(s, i)) \in Nat /\ Cardinality(EndsUpTo(s, n)) \in Nat
      /\ Cardinality(EndsUpTo(s, i)) # 0
  BY <1>2, <1>3, FS_Subset, FS_CardinalityType, FS_EmptySet
<1> QED BY <1>4

\* The run taken is the next frame of the input exactly if it can be one.
LEMMA TakeRunKeepsStream == ASSUME StreamInv, TakeRun PROVE Kept' /\ Found'
<1> DEFINE e == taken + End
           b == RunStart(stream, taken + 1)
<1>1. /\ rx_buf \in Seq(Byte) /\ stream \in Seq(Byte) /\ frames \in Seq(Seq(Byte))
      /\ N \in Nat /\ Len(rx_buf) <= N
      /\ stream' = stream /\ rx_discarding' = FALSE /\ pc' = "scan"
      /\ Len(stream) \in Nat
  BY FramingAssumption DEF StreamInv, IInv, FramingTypeOK, TakeRun, FramingAssumption
<1>2. /\ e \in taken + 1 .. Len(stream) /\ taken' = e /\ taken \in Nat
      /\ stream[e] = 0
      /\ \A j \in taken + 1 .. e - 1 : stream[j] # 0
      /\ b \in 1 .. taken + 1 /\ b = RunStart(stream, e)
      /\ \A i \in 1 .. Len(rx_buf') : rx_buf'[i] = stream[e + i]
      /\ \A i \in 1 .. End : rx_buf[i] = stream[taken + i]
      /\ End \in 1 .. Len(rx_buf) /\ Len(rx_buf) \in Nat
  <2> HIDE DEF e, b
  <2>1. e = taken + End /\ b = RunStart(stream, taken + 1)
    BY DEF e, b
  <2> QED BY <2>1, TakenRun
<1>3. e = taken + End
  OBVIOUS
<1>4. IF rx_discarding THEN taken + 1 - b >= N ELSE b = taken + 1
  BY DEF StreamInv, Kept
<1> HIDE DEF e, b
<1>5. Kept'
  <2>1. Len(rx_buf') = Len(rx_buf) - End
    BY <1>1, <1>2 DEF TakeRun
  <2>2. Len(rx_buf') <= Len(stream')
    BY <1>1, <1>2, <2>1 DEF StreamInv, Kept
  <2>3. RunStart(stream', taken' + 1) = taken' + 1
    <3> DEFINE i == e + 1
    <3>1. /\ i \in 1 .. Len(stream) + 1 /\ i \in 1 .. i /\ i - 1 = e
          /\ \A j \in i .. i - 1 : stream[j] # 0
      BY <1>1, <1>2
    <3> HIDE DEF i
    <3>2. i = RunStart(stream, i)
      BY <1>1, <1>2, <3>1, RunStartOnly
    <3> QED BY <1>1, <1>2, <3>2 DEF i
  <2> QED BY <1>1, <1>2, <2>2, <2>3 DEF Kept
<1>6. Len(RunBefore(stream, e)) = e - b /\ e - b = (taken + 1 - b) + (End - 1)
  <2>1. e \in 1 .. Len(stream) + 1
    BY <1>1, <1>2
  <2>2. Len(RunBefore(stream, e)) = e - b
    BY <1>1, <1>2, <2>1, RunLength
  <2>3. e - b = (taken + 1 - b) + (End - 1)
    BY <1>2, <1>3
  <2> QED BY <2>2, <2>3
<1>7. \A i \in taken + 1 .. e - 1 : i \notin FrameEnds(stream)
  BY <1>2 DEF FrameEnds
<1>8. e \in FrameEnds(stream) <=> ~ rx_discarding /\ End # 1
  <2>1. e \in DOMAIN stream
    BY <1>1, <1>2
  <2>2. CASE rx_discarding
    <3>1. e - b \notin 1 .. N - 1
      BY <1>1, <1>2, <1>3, <1>4, <2>2
    <3> QED BY <1>6, <2>2, <3>1 DEF FrameEnds
  <2>3. CASE ~ rx_discarding
    <3>1. e - b = End - 1
      BY <1>2, <1>3, <1>4, <2>3
    <3>2. e - b \in 1 .. N - 1 <=> End # 1
      BY <1>1, <1>2, <3>1
    <3> QED BY <1>2, <1>6, <2>1, <2>3, <3>2 DEF FrameEnds
  <2> QED BY <2>2, <2>3
<1>9. CASE rx_discarding \/ End = 1
  <2>1. frames' = frames
    BY <1>9 DEF TakeRun
  <2>2. EndsUpTo(stream, e) = EndsUpTo(stream, taken)
    <3>1. \A i \in taken + 1 .. e : i \notin FrameEnds(stream)
      <4>1. \A i \in taken + 1 .. e : i = e \/ i \in taken + 1 .. e - 1
        BY <1>2
      <4> QED BY <1>7, <1>8, <1>9, <4>1
    <3>2. e \in Nat /\ taken <= e
      BY <1>1, <1>2
    <3> QED BY <1>1, <1>2, <3>1, <3>2, EndsNone
  <2>3. Found'
    BY <1>1, <1>2, <2>1, <2>2 DEF StreamInv, Found
  <2> QED BY <1>5, <2>3
<1>10. CASE ~ (rx_discarding \/ End = 1)
  <2> DEFINE run == SubSeq(rx_buf, 1, End - 1)
  <2>1. frames' = Append(frames, run) /\ b = taken + 1
    BY <1>4, <1>10 DEF TakeRun
  <2>2. run \in Seq(Byte) /\ run = RunBefore(stream, e)
    <3>1. run = [i \in 1 .. End - 1 |-> rx_buf[i]] /\ run \in Seq(Byte)
      BY <1>1, <1>2
    <3>2. \A i \in 1 .. End - 1 : rx_buf[i] = stream[b + i - 1]
      <4>1. \A i \in 1 .. End - 1 : i \in 1 .. End /\ b + i - 1 = taken + i
        BY <1>2, <2>1
      <4> QED BY <1>2, <4>1
    <3>3. RunBefore(stream, e) = SubSeq(stream, b, e - 1)
      BY <1>2 DEF RunBefore
    <3>4. SubSeq(stream, b, e - 1) = [i \in 1 .. End - 1 |-> stream[b + i - 1]]
      <4>1. /\ e - 1 \in Int /\ b \in Int /\ e - 1 - b + 1 = End - 1
            /\ 1 <= b /\ e - 1 <= Len(stream)
        BY <1>1, <1>2, <1>3, <2>1
      <4>2. SubSeq(stream, b, e - 1) = [i \in 1 .. e - 1 - b + 1 |-> stream[b + i - 1]]
        BY <1>1, <4>1
      <4> QED BY <4>1, <4>2
    <3> HIDE DEF run
    <3> QED BY <3>1, <3>2, <3>3, <3>4
  <2>3. /\ EndsUpTo(stream, e) = EndsUpTo(stream, taken) \cup {e}
        /\ Cardinality(EndsUpTo(stream, e)) = Cardinality(EndsUpTo(stream, taken)) + 1
    <3>1. e \in Nat /\ taken < e
      BY <1>1, <1>2
    <3> QED BY <1>1, <1>2, <1>7, <1>8, <1>10, <3>1, EndsOneMore
  <2> HIDE DEF run
  <2>4. /\ Len(frames') = Len(frames) + 1
        /\ frames'[Len(frames) + 1] = run
        /\ \A k \in 1 .. Len(frames) : frames'[k] = frames[k]
    BY <1>1, <2>1, <2>2
  <2>5. Len(frames) = Cardinality(EndsUpTo(stream, taken))
    BY DEF StreamInv, Found
  <2>6. ASSUME NEW i \in EndsUpTo(stream, e)
        PROVE  frames'[Cardinality(EndsUpTo(stream, i))] = RunBefore(stream, i)
    <3>1. CASE i = e
      BY <2>2, <2>3, <2>4, <2>5, <3>1
    <3>2. CASE i \in EndsUpTo(stream, taken)
      <4>1. Cardinality(EndsUpTo(stream, i)) \in 1 .. Len(frames)
        BY <1>1, <1>2, <2>5, <3>2, EndsNumber
      <4>2. frames[Cardinality(EndsUpTo(stream, i))] = RunBefore(stream, i)
        BY <3>2 DEF StreamInv, Found
      <4> QED BY <2>4, <4>1, <4>2
    <3> QED BY <2>3, <3>1, <3>2
  <2>7. Found'
    BY <1>1, <1>2, <2>3, <2>4, <2>5, <2>6 DEF Found
  <2> QED BY <1>5, <2>7
<1> QED BY <1>9, <1>10

LEMMA NextStream == StreamInv /\ [Next]_rxVars => StreamInv'
<1> SUFFICES ASSUME StreamInv, [Next]_rxVars PROVE StreamInv'
  OBVIOUS
<1>1. IInv'
  BY NextIInv DEF StreamInv
<1>2. ASSUME NEW chunk \in Chunks, Read(chunk) PROVE Kept' /\ Found'
  <2>1. chunk \in Seq(Byte)
    BY FramingAssumption DEF Chunks, FramingAssumption
  <2> QED BY <1>2, <2>1, ReadKeepsStream
<1>3. CASE UNCHANGED rxVars
  <2>1. taken' = taken
    BY <1>3 DEF rxVars, taken
  <2> QED BY <1>1, <1>3, <2>1 DEF rxVars, StreamInv, Kept, Found
<1> QED BY <1>1, <1>2, <1>3, WaitKeepsStream, TakeRunKeepsStream DEF Next, StreamInv

\* Between reads nothing of the input is left to find.
LEMMA WholeStreamFound == StreamInv => FramesOfStream
<1> SUFFICES ASSUME StreamInv, pc = "poll"
             PROVE  /\ Len(frames) = Cardinality(FrameEnds(stream))
                    /\ \A i \in FrameEnds(stream) :
                         frames[Cardinality({j \in FrameEnds(stream) : j <= i})]
                           = RunBefore(stream, i)
  BY DEF FramesOfStream
<1>1. /\ stream \in Seq(Byte) /\ Len(stream) \in Nat
      /\ taken \in Nat /\ taken <= Len(stream) /\ taken + Len(rx_buf) = Len(stream)
  BY DEF StreamInv, IInv, FramingTypeOK, Kept, taken
<1>2. ASSUME NEW j \in taken + 1 .. Len(stream) PROVE j \notin FrameEnds(stream)
  <2> DEFINE k == j - taken
  <2>1. k \in 1 .. Len(rx_buf) /\ j = taken + k
    BY <1>1
  <2> HIDE DEF k
  <2>2. stream[j] # 0
    BY <2>1 DEF StreamInv, Kept
  <2> QED BY <2>2 DEF FrameEnds
<1>3. EndsUpTo(stream, Len(stream)) = EndsUpTo(stream, taken)
  BY <1>1, <1>2, EndsNone
<1>4. EndsUpTo(stream, Len(stream)) = FrameEnds(stream)
  BY <1>1 DEF EndsUpTo, FrameEnds
<1>5. \A i : {j \in FrameEnds(stream) : j <= i} = EndsUpTo(stream, i)
  BY DEF EndsUpTo
<1> QED BY <1>3, <1>4, <1>5 DEF StreamInv, Found

\* What is left is the unfinished run.
LEMMA WholeTailKept == StreamInv => OnlyTailKept
<1> SUFFICES ASSUME StreamInv, pc = "poll"
             PROVE  /\ rx_discarding <=> Len(RunBefore(stream, Len(stream) + 1)) >= N
                    /\ rx_buf = IF rx_discarding THEN <<>>
                                ELSE RunBefore(stream, Len(stream) + 1)
  BY DEF OnlyTailKept
<1> DEFINE b == RunStart(stream, taken + 1)
           i == Len(stream) + 1
<1>1. /\ stream \in Seq(Byte) /\ rx_buf \in Seq(Byte) /\ rx_discarding \in BOOLEAN
      /\ Len(stream) \in Nat /\ Len(rx_buf) \in Nat
      /\ taken \in 0 .. Len(stream) /\ taken + Len(rx_buf) = Len(stream)
      /\ N \in Nat /\ Len(rx_buf) < N
  BY FramingAssumption
  DEF StreamInv, IInv, FramingTypeOK, RoomToRead, Kept, taken, FramingAssumption
<1>2. /\ b \in 1 .. taken + 1 /\ (b = 1 \/ stream[b - 1] = 0)
      /\ \A j \in b .. taken : stream[j] # 0
  BY <1>1, RunStartAfter
<1>3. /\ \A j \in 1 .. Len(rx_buf) : rx_buf[j] = stream[taken + j] /\ rx_buf[j] # 0
      /\ IF rx_discarding THEN taken + 1 - b >= N ELSE b = taken + 1
      /\ rx_discarding => rx_buf = <<>>
  BY DEF StreamInv, Kept
<1> HIDE DEF b
<1>4. b \in 1 .. i /\ i \in 1 .. Len(stream) + 1 /\ i - 1 = Len(stream)
  BY <1>1, <1>2
<1> HIDE DEF i
<1>5. ASSUME NEW j \in b .. i - 1 PROVE stream[j] # 0
  <2>1. CASE j <= taken
    BY <1>2, <2>1
  <2>2. CASE ~ (j <= taken)
    <3> DEFINE k == j - taken
    <3>1. k \in 1 .. Len(rx_buf) /\ j = taken + k
      BY <1>1, <1>2, <1>4, <2>2
    <3> HIDE DEF k
    <3> QED BY <1>3, <3>1
  <2> QED BY <2>1, <2>2
<1>6. b = RunStart(stream, i)
  BY <1>1, <1>2, <1>4, <1>5, RunStartOnly
<1>7. Len(RunBefore(stream, i)) = i - b /\ RunBefore(stream, i) = SubSeq(stream, b, i - 1)
  BY <1>1, <1>4, <1>6, RunLength DEF RunBefore
<1>8. CASE rx_discarding
  <2>1. i - b >= N
    BY <1>1, <1>2, <1>3, <1>8 DEF i
  <2> QED BY <1>3, <1>7, <1>8, <2>1 DEF i
<1>9. CASE ~ rx_discarding
  <2>1. b = taken + 1 /\ i - b = Len(rx_buf) /\ ~ (i - b >= N)
    BY <1>1, <1>3, <1>9 DEF i
  <2>2. RunBefore(stream, i) = rx_buf
    <3>1. i - 1 - b + 1 = Len(rx_buf)
      BY <1>1, <1>4, <2>1
    <3>2. SubSeq(stream, b, i - 1) = [j \in 1 .. i - 1 - b + 1 |-> stream[b + j - 1]]
      BY <1>1, <1>4
    <3>3. \A j \in 1 .. Len(rx_buf) : rx_buf[j] = stream[b + j - 1]
      <4>1. \A j \in 1 .. Len(rx_buf) : b + j - 1 = taken + j
        BY <1>1, <2>1
      <4> QED BY <1>3, <4>1
    <3>4. rx_buf = [j \in 1 .. Len(rx_buf) |-> rx_buf[j]]
      BY <1>1
    <3> QED BY <1>7, <3>1, <3>2, <3>3, <3>4
  <2> QED BY <1>7, <1>9, <2>1, <2>2 DEF i
<1> QED BY <1>8, <1>9

\* rx_buf, rx_discarding and the frames stay what they are.
THEOREM FramingTypes == Spec => []FramingTypeOK
<1>1. IInv => FramingTypeOK
  BY DEF IInv
<1> QED BY <1>1, InitIInv, NextIInv, PTL DEF Spec

\* process_frame is handed the delimited runs of the whole input that fit the
\* buffer, all of them, in order, however the input was cut into reads.
THEOREM FramesAreThoseOfTheInput == Spec => []FramesOfStream
BY InitStream, NextStream, WholeStreamFound, PTL DEF Spec

\* process_input keeps the unfinished run as long as it may become a frame, and
\* otherwise remembers that it is too long.
THEOREM TailIsKept == Spec => []OnlyTailKept
BY InitStream, NextStream, WholeTailKept, PTL DEF Spec

-----------------------------------------------------------------------------
(* The frames as a sequence: RxFraming implements FrameReader *)

\* All ends, and how many of them there are by some position.
LEMMA EndsAll ==
  ASSUME NEW S, NEW s \in Seq(S)
  PROVE  /\ EndsUpTo(s, Len(s)) = FrameEnds(s)
         /\ \A i : EndsBy(s, i) = Cardinality(EndsUpTo(s, i))
         /\ Cardinality(FrameEnds(s)) \in Nat
<1>1. EndsUpTo(s, Len(s)) = FrameEnds(s)
  BY DEF EndsUpTo, FrameEnds
<1>2. \A i : EndsBy(s, i) = Cardinality(EndsUpTo(s, i))
  BY DEF EndsBy, EndsUpTo
<1>3. IsFiniteSet(EndsUpTo(s, Len(s)))
  BY EndsFinite
<1> QED BY <1>1, <1>2, <1>3, FS_CardinalityType

\* No two frames have the same number.
LEMMA EndsApart ==
  ASSUME NEW S, NEW s \in Seq(S), NEW i \in FrameEnds(s), NEW j \in FrameEnds(s),
         Cardinality(EndsUpTo(s, i)) = Cardinality(EndsUpTo(s, j))
  PROVE  i = j
<1>1. i \in Int /\ j \in Int
  BY DEF FrameEnds
<1>2. ASSUME NEW a \in FrameEnds(s), NEW b \in FrameEnds(s), a \in Int, b \in Int,
             a < b, Cardinality(EndsUpTo(s, a)) = Cardinality(EndsUpTo(s, b))
      PROVE  FALSE
  <2>1. EndsUpTo(s, a) \in SUBSET EndsUpTo(s, b)
    <3>1. ASSUME NEW x \in EndsUpTo(s, a) PROVE x \in EndsUpTo(s, b)
      <4>1. x \in FrameEnds(s) /\ x \in Int /\ x <= a
        BY DEF EndsUpTo, FrameEnds
      <4>2. x <= b
        BY <1>2, <4>1
      <4> QED BY <4>1, <4>2 DEF EndsUpTo
    <3> QED BY <3>1
  <2>2. b \in EndsUpTo(s, b)
    BY <1>2 DEF EndsUpTo
  <2>3. b \notin EndsUpTo(s, a)
    BY <1>2 DEF EndsUpTo
  <2>4. IsFiniteSet(EndsUpTo(s, b))
    BY <1>2, EndsFinite
  <2>5. EndsUpTo(s, b) = EndsUpTo(s, a)
    BY <1>2, <2>1, <2>4, FS_Subset
  <2> QED BY <2>2, <2>3, <2>5
<1>3. ~ (i < j) /\ ~ (j < i)
  BY <1>1, <1>2
<1> QED BY <1>1, <1>3

\* The numbers of the frames that end by position n.
Numbered(s, n) ==
  \A k \in 1 .. Cardinality(EndsUpTo(s, n)) :
    \E i \in EndsUpTo(s, n) : Cardinality(EndsUpTo(s, i)) = k

\* They leave none out: a first position where they did would be that of an end,
\* and that end has the number left out.
LEMMA EndsCounted ==
  ASSUME NEW S, NEW s \in Seq(S), NEW n \in 0 .. Len(s)
  PROVE  Numbered(s, n)
<1> DEFINE T == {m \in 0 .. Len(s) : ~ Numbered(s, m)}
<1>1. SUFFICES ASSUME T # {} PROVE FALSE
  OBVIOUS
<1>2. PICK m \in T : \A x \in T : m <= x
  <2>1. T \in SUBSET Nat
    OBVIOUS
  <2> HIDE DEF T
  <2> QED BY <1>1, <2>1, Least
<1>3. m \in 0 .. Len(s) /\ ~ Numbered(s, m)
  BY <1>2
<1>4. \A x \in 0 .. Len(s) : x < m => Numbered(s, x)
  <2>1. \A x \in 0 .. Len(s) : x < m => x \notin T
    BY <1>2, <1>3
  <2> QED BY <2>1
<1> HIDE DEF T
<1>5. CASE m = 0
  <2>1. EndsUpTo(s, m) = {}
    BY <1>5 DEF EndsUpTo, FrameEnds
  <2>2. Cardinality(EndsUpTo(s, m)) = 0
    BY <2>1, FS_EmptySet
  <2> QED BY <1>3, <2>2 DEF Numbered
<1>6. CASE m # 0
  <2> DEFINE l == m - 1
  <2>1. l \in 0 .. Len(s) /\ l \in Nat /\ m \in Nat /\ l < m /\ m = l + 1
    BY <1>3, <1>6
  <2> HIDE DEF l
  <2>2. Numbered(s, l)
    BY <1>4, <2>1
  <2>3. CASE m \notin FrameEnds(s)
    <3>1. \A i \in l + 1 .. m : i \notin FrameEnds(s)
      BY <2>1, <2>3
    <3>2. EndsUpTo(s, m) = EndsUpTo(s, l)
      BY <2>1, <3>1, EndsNone
    <3> QED BY <1>3, <2>2, <3>2 DEF Numbered
  <2>4. CASE m \in FrameEnds(s)
    <3>1. \A i \in l + 1 .. m - 1 : i \notin FrameEnds(s)
      BY <2>1
    <3>2. /\ EndsUpTo(s, m) = EndsUpTo(s, l) \cup {m}
          /\ Cardinality(EndsUpTo(s, m)) = Cardinality(EndsUpTo(s, l)) + 1
      BY <2>1, <2>4, <3>1, EndsOneMore
    <3>3. Cardinality(EndsUpTo(s, l)) \in Nat
      BY <2>1, EndsFinite, FS_CardinalityType
    <3>4. ASSUME NEW k \in 1 .. Cardinality(EndsUpTo(s, m))
          PROVE  \E i \in EndsUpTo(s, m) : Cardinality(EndsUpTo(s, i)) = k
      <4>1. CASE k = Cardinality(EndsUpTo(s, m))
        BY <3>2, <4>1
      <4>2. CASE k # Cardinality(EndsUpTo(s, m))
        <5>1. k \in 1 .. Cardinality(EndsUpTo(s, l))
          BY <3>2, <3>3, <4>2
        <5>2. PICK i \in EndsUpTo(s, l) : Cardinality(EndsUpTo(s, i)) = k
          BY <2>2, <5>1 DEF Numbered
        <5> QED BY <3>2, <5>2
      <4> QED BY <4>1, <4>2
    <3> QED BY <1>3, <3>4 DEF Numbered
  <2> QED BY <2>3, <2>4
<1> QED BY <1>5, <1>6

\* FramesOf has the run that ends at i under the number of i, and nothing else.
LEMMA FramesOfIs ==
  ASSUME NEW S, NEW s \in Seq(S)
  PROVE  /\ FramesOf(s) = [k \in 1 .. Cardinality(FrameEnds(s)) |-> FramesOf(s)[k]]
         /\ Len(FramesOf(s)) = Cardinality(FrameEnds(s))
         /\ Len(FramesOf(s)) \in Nat
         /\ \A i \in FrameEnds(s) :
              /\ Cardinality(EndsUpTo(s, i)) \in 1 .. Len(FramesOf(s))
              /\ FramesOf(s)[Cardinality(EndsUpTo(s, i))] = RunBefore(s, i)
<1> DEFINE n == Cardinality(FrameEnds(s))
<1>1. n \in Nat /\ EndsUpTo(s, Len(s)) = FrameEnds(s) /\ Len(s) \in Nat
  BY EndsAll
<1>2. FramesOf(s) = [k \in 1 .. n |-> RunBefore(s, EndOf(s, k))]
  BY DEF FramesOf
<1> HIDE DEF n
<1>3. Len(FramesOf(s)) = n
  BY <1>1, <1>2
<1>4. ASSUME NEW i \in FrameEnds(s)
      PROVE  /\ Cardinality(EndsUpTo(s, i)) \in 1 .. n
             /\ FramesOf(s)[Cardinality(EndsUpTo(s, i))] = RunBefore(s, i)
  <2> DEFINE k == Cardinality(EndsUpTo(s, i))
  <2>1. k \in 1 .. n
    BY <1>1, EndsNumber DEF n
  <2>2. EndOf(s, k) \in FrameEnds(s) /\ Cardinality(EndsUpTo(s, EndOf(s, k))) = k
    <3>1. \E j \in FrameEnds(s) : EndsBy(s, j) = k
      BY EndsAll
    <3>2. EndOf(s, k) \in FrameEnds(s) /\ EndsBy(s, EndOf(s, k)) = k
      BY <3>1 DEF EndOf
    <3> QED BY <3>2, EndsAll
  <2>3. EndOf(s, k) = i
    BY <2>2, EndsApart
  <2> HIDE DEF k
  <2>4. FramesOf(s)[k] = RunBefore(s, i)
    BY <1>2, <2>1, <2>3
  <2> QED BY <2>1, <2>4 DEF k
<1>5. FramesOf(s) = [k \in 1 .. n |-> FramesOf(s)[k]]
  BY <1>2
<1> QED BY <1>1, <1>3, <1>4, <1>5 DEF n

\* More input adds frames and changes none.
LEMMA FramesAdded ==
  ASSUME NEW S, NEW s \in Seq(S), NEW c \in Seq(S)
  PROVE  /\ Len(FramesOf(s)) <= Len(FramesOf(s \o c))
         /\ \A k \in 1 .. Len(FramesOf(s)) : FramesOf(s \o c)[k] = FramesOf(s)[k]
<1> DEFINE t == s \o c
<1>1. t \in Seq(S) /\ Len(t) = Len(s) + Len(c) /\ Len(s) \in Nat /\ Len(c) \in Nat
  OBVIOUS
<1>2. \A m \in 0 .. Len(s) : EndsUpTo(t, m) = EndsUpTo(s, m)
  BY EndsKept
<1>3. \A i \in 1 .. Len(s) : RunBefore(t, i) = RunBefore(s, i)
  BY RunKept
<1> HIDE DEF t
<1>4. FrameEnds(s) = EndsUpTo(t, Len(s)) /\ FrameEnds(s) = EndsUpTo(s, Len(s))
  BY <1>1, <1>2, EndsAll
<1>5. FrameEnds(s) \in SUBSET FrameEnds(t)
  BY <1>4 DEF EndsUpTo
<1>6. Len(FramesOf(s)) <= Len(FramesOf(t))
  <2>1. IsFiniteSet(FrameEnds(t))
    BY <1>1, EndsAll, EndsFinite
  <2>2. Cardinality(FrameEnds(s)) <= Cardinality(FrameEnds(t))
    BY <1>5, <2>1, FS_Subset
  <2> QED BY <1>1, <2>2, FramesOfIs
<1>7. ASSUME NEW k \in 1 .. Len(FramesOf(s)) PROVE FramesOf(t)[k] = FramesOf(s)[k]
  <2>1. Len(FramesOf(s)) = Cardinality(EndsUpTo(s, Len(s)))
    BY <1>4, FramesOfIs
  <2>2. Len(s) \in 0 .. Len(s)
    BY <1>1
  <2>3. PICK i \in EndsUpTo(s, Len(s)) : Cardinality(EndsUpTo(s, i)) = k
    BY <2>1, <2>2, EndsCounted DEF Numbered
  <2>4. i \in FrameEnds(s) /\ i \in FrameEnds(t) /\ i \in 1 .. Len(s)
    BY <1>4, <1>5, <2>3 DEF FrameEnds
  <2>5. EndsUpTo(t, i) = EndsUpTo(s, i) /\ RunBefore(t, i) = RunBefore(s, i)
    BY <1>1, <1>2, <1>3, <2>4
  <2>6. FramesOf(s)[k] = RunBefore(s, i)
    BY <2>3, <2>4, FramesOfIs
  <2>7. FramesOf(t)[k] = RunBefore(t, i)
    BY <1>1, <2>3, <2>4, <2>5, FramesOfIs
  <2> QED BY <2>5, <2>6, <2>7
<1> QED BY <1>6, <1>7 DEF t

\* The frames processed are the first of the input's.
Prefixed ==
  /\ FramesOf(stream) = [k \in 1 .. Len(FramesOf(stream)) |-> FramesOf(stream)[k]]
  /\ Len(FramesOf(stream)) \in Nat
  /\ Len(frames) <= Len(FramesOf(stream))
  /\ \A k \in 1 .. Len(frames) : frames[k] = FramesOf(stream)[k]
  /\ pc = "poll" => frames = FramesOf(stream)

LEMMA ProcessedInOrder == StreamInv => Prefixed
<1> SUFFICES ASSUME StreamInv PROVE Prefixed
  OBVIOUS
<1>1. /\ stream \in Seq(Byte) /\ frames \in Seq(Seq(Byte)) /\ Len(frames) \in Nat
      /\ Len(stream) \in Nat /\ taken \in 0 .. Len(stream)
  BY DEF StreamInv, IInv, FramingTypeOK, Kept, taken
<1>2. /\ FramesOf(stream) = [k \in 1 .. Len(FramesOf(stream)) |-> FramesOf(stream)[k]]
      /\ Len(FramesOf(stream)) = Cardinality(FrameEnds(stream))
      /\ Len(FramesOf(stream)) \in Nat
  BY <1>1, FramesOfIs
<1>3. Len(frames) = Cardinality(EndsUpTo(stream, taken))
  BY DEF StreamInv, Found
<1>4. Len(frames) <= Len(FramesOf(stream))
  <2>1. IsFiniteSet(FrameEnds(stream))
    BY <1>1, EndsAll, EndsFinite
  <2>2. EndsUpTo(stream, taken) \in SUBSET FrameEnds(stream)
    BY DEF EndsUpTo
  <2>3. Cardinality(EndsUpTo(stream, taken)) <= Cardinality(FrameEnds(stream))
    BY <2>1, <2>2, FS_Subset
  <2> QED BY <1>2, <1>3, <2>3
<1>5. ASSUME NEW k \in 1 .. Len(frames) PROVE frames[k] = FramesOf(stream)[k]
  <2>1. PICK i \in EndsUpTo(stream, taken) : Cardinality(EndsUpTo(stream, i)) = k
    BY <1>1, <1>3, EndsCounted DEF Numbered
  <2>2. i \in FrameEnds(stream)
    BY <2>1 DEF EndsUpTo
  <2>3. frames[k] = RunBefore(stream, i)
    BY <2>1 DEF StreamInv, Found
  <2>4. FramesOf(stream)[k] = RunBefore(stream, i)
    BY <1>1, <2>1, <2>2, FramesOfIs
  <2> QED BY <2>3, <2>4
<1>6. ASSUME pc = "poll" PROVE frames = FramesOf(stream)
  <2>1. Len(frames) = Cardinality(FrameEnds(stream))
    BY <1>6, WholeStreamFound DEF FramesOfStream
  <2>2. frames = [k \in 1 .. Len(frames) |-> frames[k]]
    BY <1>1
  <2>3. Len(frames) = Len(FramesOf(stream))
    BY <1>2, <2>1
  <2>4. frames = [k \in 1 .. Len(FramesOf(stream)) |-> FramesOf(stream)[k]]
    BY <1>5, <2>2, <2>3
  <2> QED BY <1>2, <2>4
<1> QED BY <1>2, <1>4, <1>5, <1>6 DEF Prefixed

\* poll_input is a Read.
LEMMA ReadIsRead ==
  ASSUME StreamInv, NEW chunk \in Seq(Byte), Read(chunk)
  PROVE  Reader!Read
<1>1. /\ stream \in Seq(Byte) /\ stream' = stream \o chunk
      /\ pc = "poll" /\ pc' = "scan" /\ frames' = frames
  BY DEF StreamInv, IInv, FramingTypeOK, Read
<1>2. /\ Len(FramesOf(stream)) <= Len(FramesOf(stream'))
      /\ \A k \in 1 .. Len(FramesOf(stream)) :
           FramesOf(stream')[k] = FramesOf(stream)[k]
  BY <1>1, FramesAdded
<1> QED BY <1>1, <1>2 DEF Reader!Read

\* A turn of the loop of process_input is a Process, unless the run it takes is
\* no frame.
LEMMA TakeRunIsProcess ==
  ASSUME StreamInv, Prefixed, Prefixed', TakeRun
  PROVE  Reader!Process \/ UNCHANGED <<pc, stream, frames>>
<1>1. /\ stream' = stream /\ pc = "scan" /\ pc' = "scan"
      /\ rx_buf \in Seq(Byte) /\ frames \in Seq(Seq(Byte))
  BY DEF TakeRun, StreamInv, IInv, FramingTypeOK
<1>2. CASE rx_discarding \/ End = 1
  BY <1>1, <1>2 DEF TakeRun
<1>3. CASE ~ (rx_discarding \/ End = 1)
  <2> DEFINE run == SubSeq(rx_buf, 1, End - 1)
  <2>1. frames' = Append(frames, run)
    BY <1>3 DEF TakeRun
  <2>2. run \in Seq(Byte)
    <3>1. End \in 1 .. Len(rx_buf) /\ Len(rx_buf) \in Nat
      BY <1>1, FirstDelimiter DEF TakeRun
    <3> QED BY <1>1, <3>1
  <2> HIDE DEF run
  <2>3. /\ Len(frames) \in Nat /\ Len(frames') = Len(frames) + 1
        /\ frames'[Len(frames) + 1] = run
    BY <1>1, <2>1, <2>2
  <2>4. /\ Len(frames') <= Len(FramesOf(stream')) /\ Len(FramesOf(stream)) \in Nat
        /\ \A k \in 1 .. Len(frames') : frames'[k] = FramesOf(stream')[k]
    BY DEF Prefixed
  <2>5. Len(frames) < Len(FramesOf(stream)) /\ run = FramesOf(stream)[Len(frames) + 1]
    BY <1>1, <2>3, <2>4
  <2> QED BY <1>1, <2>1, <2>5 DEF Reader!Process
<1> QED BY <1>2, <1>3

\* The end of the loop is a Return.
LEMMA WaitIsReturn ==
  ASSUME Prefixed', Wait
  PROVE  Reader!Return
<1>1. pc = "scan" /\ pc' = "poll" /\ stream' = stream /\ frames' = frames
  BY DEF Wait
<1>2. frames' = FramesOf(stream')
  BY <1>1 DEF Prefixed
<1>3. frames = FramesOf(stream) /\ FramesOf(stream') = FramesOf(stream)
  BY <1>1, <1>2
<1> QED BY <1>1, <1>3 DEF Reader!Return

\* Every step is one of the abstract reader, or leaves what it sees unchanged.
LEMMA ReaderStep ==
  ASSUME StreamInv, Prefixed, Prefixed', [Next]_rxVars
  PROVE  [Reader!Next]_(Reader!readerVars)
<1>1. ASSUME NEW chunk \in Chunks, Read(chunk) PROVE Reader!Next
  <2>1. chunk \in Seq(Byte)
    BY FramingAssumption DEF Chunks, FramingAssumption
  <2> QED BY <1>1, <2>1, ReadIsRead DEF Reader!Next
<1>2. CASE UNCHANGED <<pc, stream, frames>>
  BY <1>2 DEF Reader!readerVars
<1>3. CASE Wait
  BY <1>3, WaitIsReturn DEF Reader!Next
<1>4. CASE TakeRun
  BY <1>2, <1>4, TakeRunIsProcess DEF Reader!Next
<1>5. CASE UNCHANGED rxVars
  BY <1>2, <1>5 DEF rxVars
<1> QED BY <1>1, <1>3, <1>4, <1>5 DEF Next

\* The receive buffer is what the protocol takes it for: a reader of frames, one
\* by one and in order, that reads again only when it has processed them all.
THEOREM FramingRefines == Spec => ImplementsFrameReader
<1>1. Init => Reader!Init
  <2> SUFFICES ASSUME Init PROVE Reader!Init
    OBVIOUS
  <2>1. StreamInv /\ pc = "poll" /\ frames = <<>>
    BY InitStream DEF Init
  <2>2. frames = FramesOf(stream)
    BY <2>1, ProcessedInOrder DEF Prefixed
  <2> QED BY <2>1, <2>2 DEF Reader!Init
<1> QED BY <1>1, InitStream, NextStream, ProcessedInOrder, ReaderStep, PTL
        DEF Spec, ImplementsFrameReader, Reader!Spec

-----------------------------------------------------------------------------
(* The late acknowledgment (LateAck) *)

\* The bytes ahead of process_input: those in rx_buf and those still in the
\* transport.
Ahead == Len(rx_buf) + Len(ready)
At(j) == IF j <= Len(rx_buf) THEN rx_buf[j] ELSE ready[j - Len(rx_buf)]

\* What may still be read before the verdict.
Allowance == IF final_input = None THEN FinalInput ELSE final_input

\* The acknowledgment lies behind q bytes, and its last byte within the
\* allowance; -1: its opening delimiter has been taken.
AckBehind(q) ==
  /\ q >= -1
  /\ q + AckLen <= Ahead
  /\ q + AckLen - Len(rx_buf) <= Allowance
  /\ IF q = -1 THEN ~ rx_discarding ELSE At(q + 1) = 0
  /\ \A i \in 2 .. AckLen - 1 : At(q + i) = AckByte
  /\ At(q + AckLen) = 0

LateTypes ==
  /\ pc \in {"poll", "scan"}
  /\ step \in {"input", "timer"}
  /\ tx \in {"Waiting", "Idle", "Queued"}
  /\ rx_buf \in Seq(Int)
  /\ ready \in Seq(Int)
  /\ frames \in Seq(Seq(Int))
  /\ final_input \in Nat \cup {None}

\* Between reads rx_buf holds no delimiter; a read made progress; poll_input
\* answers Blocked only when nothing was ready.
Turns ==
  /\ pc = "poll" => \A i \in 1 .. Len(rx_buf) : rx_buf[i] # 0
  /\ pc = "scan" => step = "input" /\ input = "Progress"
  /\ step = "timer" /\ input = "Blocked" /\ final_input # None => ready = <<>>

AckAhead == acked /\ tx = "Waiting" => \E q \in Int : AckBehind(q)

LateInv == LateTypes /\ Turns /\ AckAhead /\ LateAckCounts

\* A sequence put behind another.
LEMMA Joined ==
  ASSUME NEW S, NEW a \in Seq(S), NEW b \in Seq(S)
  PROVE  /\ a \o b \in Seq(S) /\ Len(a \o b) = Len(a) + Len(b)
         /\ Len(a) \in Nat /\ Len(b) \in Nat
         /\ \A i \in 1 .. Len(a) : (a \o b)[i] = a[i]
         /\ \A i \in 1 .. Len(a) + Len(b) :
              (a \o b)[i] = IF i <= Len(a) THEN a[i] ELSE b[i - Len(a)]
OBVIOUS

\* One more element.
LEMMA Appended ==
  ASSUME NEW S, NEW f \in Seq(S), NEW r \in S
  PROVE  Append(f, r) \in Seq(S)
OBVIOUS

\* The constants.
LEMMA LateSizes ==
  /\ N \in Nat /\ AckLen \in Nat /\ 3 <= AckLen /\ AckLen <= N
  /\ FinalInput \in Nat /\ FinalInput = N + AckLen /\ 0 < FinalInput
  /\ FinalInput # None /\ None = -1
BY FramingAssumption, AckAssumption
DEF FramingAssumption, AckAssumption, FinalInput, None

\* What may lie before the acknowledgment fits the allowance.
LEMMA TailFits ==
  ASSUME NEW tail \in Tails
  PROVE  tail \in Seq(Int) /\ Len(tail) <= N
<1>1. tail = <<>> \/ tail \in {Fill(n, Other) \o <<0>> : n \in 0 .. N - 2}
        \/ tail \in {<<0>> \o Fill(n, Other) \o <<0>> : n \in 1 .. N - 2}
  BY DEF Tails
<1>2. \A n \in Nat : Fill(n, Other) \in Seq(Int) /\ Len(Fill(n, Other)) = n
  BY DEF Fill, Other
<1>3. CASE tail = <<>>
  BY <1>3, LateSizes
<1>4. CASE tail \in {Fill(n, Other) \o <<0>> : n \in 0 .. N - 2}
  <2>0. PICK n \in 0 .. N - 2 : tail = Fill(n, Other) \o <<0>>
    BY <1>4
  <2> DEFINE f == Fill(n, Other)
  <2>1. n \in Nat /\ f \in Seq(Int) /\ Len(f) = n
    BY <1>2
  <2>2. tail = f \o <<0>> /\ <<0>> \in Seq(Int) /\ Len(<<0>>) = 1
    BY <2>0
  <2> HIDE DEF f
  <2>3. tail \in Seq(Int) /\ Len(tail) = n + 1
    BY <2>1, <2>2
  <2> QED BY <2>3, LateSizes
<1>5. CASE tail \in {<<0>> \o Fill(n, Other) \o <<0>> : n \in 1 .. N - 2}
  <2>0. PICK n \in 1 .. N - 2 : tail = <<0>> \o Fill(n, Other) \o <<0>>
    BY <1>5
  <2> DEFINE f == Fill(n, Other)
             g == <<0>> \o f
  <2>1. n \in Nat /\ f \in Seq(Int) /\ Len(f) = n
    BY <1>2
  <2>2. tail = g \o <<0>> /\ <<0>> \in Seq(Int) /\ Len(<<0>>) = 1
    BY <2>0
  <2> HIDE DEF f
  <2>3. g \in Seq(Int) /\ Len(g) = n + 1
    BY <2>1, <2>2
  <2> HIDE DEF g
  <2>4. tail \in Seq(Int) /\ Len(tail) = n + 2
    BY <2>1, <2>2, <2>3
  <2> QED BY <2>4, LateSizes
<1> QED BY <1>1, <1>3, <1>4, <1>5

\* The bytes of an ACK frame.
LEMMA AckBytes ==
  /\ AckFrame \in Seq(Int) /\ Len(AckFrame) = AckLen
  /\ AckFrame[1] = 0 /\ AckFrame[AckLen] = 0
  /\ \A i \in 2 .. AckLen - 1 : AckFrame[i] = AckByte
<1> DEFINE g == <<0>> \o AckBody
<1>1. /\ AckBody \in Seq(Int) /\ Len(AckBody) = AckLen - 2
      /\ \A i \in 1 .. AckLen - 2 : AckBody[i] = AckByte
  BY LateSizes DEF AckBody, Fill, AckByte
<1>2. /\ g \in Seq(Int) /\ Len(g) = AckLen - 1 /\ g[1] = 0
      /\ \A i \in 2 .. AckLen - 1 : g[i] = AckByte
  <2>1. <<0>> \in Seq(Int) /\ Len(<<0>>) = 1 /\ <<0>>[1] = 0
    OBVIOUS
  <2>2. g \in Seq(Int) /\ Len(g) = AckLen - 1 /\ g[1] = 0
    BY <1>1, <2>1, LateSizes
  <2>3. ASSUME NEW i \in 2 .. AckLen - 1 PROVE g[i] = AckByte
    <3>1. i - 1 \in 1 .. AckLen - 2
      BY LateSizes
    <3>2. g[i] = AckBody[i - 1]
      BY <1>1, <2>1, LateSizes
    <3> QED BY <1>1, <3>1, <3>2
  <2> QED BY <2>2, <2>3
<1>3. AckFrame = g \o <<0>> /\ <<0>> \in Seq(Int) /\ Len(<<0>>) = 1 /\ <<0>>[1] = 0
  BY DEF AckFrame
<1> HIDE DEF g
<1>4. AckFrame \in Seq(Int) /\ Len(AckFrame) = AckLen
  BY <1>2, <1>3, LateSizes
<1>5. AckFrame[1] = 0 /\ AckFrame[AckLen] = 0
  BY <1>2, <1>3, LateSizes
<1>6. \A i \in 2 .. AckLen - 1 : AckFrame[i] = AckByte
  BY <1>2, <1>3, LateSizes
<1> QED BY <1>4, <1>5, <1>6

LEMMA InitLate == LateInit => LateInv
<1> SUFFICES ASSUME LateInit PROVE LateInv
  OBVIOUS
<1>1. /\ rx_discarding \in BOOLEAN /\ frames = <<>> /\ pc = "poll" /\ step = "timer"
      /\ input = "Blocked" /\ tx = "Waiting" /\ final_input = None
  BY DEF LateInit
<1>2. PICK n \in Nat : rx_buf = Fill(n, Other)
  BY LateSizes DEF LateInit
<1>3. rx_buf \in Seq(Int) /\ \A i \in 1 .. Len(rx_buf) : rx_buf[i] # 0
  BY <1>2 DEF Fill, Other
<1> DEFINE mid == IF acked THEN AckFrame ELSE <<>>
<1>4. PICK tail \in Tails, k \in Behind : ready = tail \o mid \o Fill(k, Other)
  BY DEF LateInit
<1>5. tail \in Seq(Int) /\ Len(tail) <= N
  BY TailFits
<1>6. mid \in Seq(Int)
  BY AckBytes
<1> DEFINE rest == Fill(k, Other)
<1>7. rest \in Seq(Int)
  BY AckAssumption DEF AckAssumption, Fill, Other
<1> HIDE DEF rest
<1>8. ready = (tail \o mid) \o rest
  BY <1>4 DEF rest
<1>9. ready \in Seq(Int)
  BY <1>5, <1>6, <1>7, <1>8
<1>10. LateTypes
  BY <1>1, <1>3, <1>9 DEF LateTypes
<1>11. Turns /\ LateAckCounts
  BY <1>1, <1>3 DEF Turns, LateAckCounts
<1>12. ASSUME acked PROVE \E q \in Int : AckBehind(q)
  <2> DEFINE q == Len(rx_buf) + Len(tail)
  <2>1. mid = AckFrame
    BY <1>12
  <2> HIDE DEF mid
  <2>2. /\ Len(ready) = Len(tail) + AckLen + Len(rest)
        /\ Len(rx_buf) \in Nat /\ Len(tail) \in Nat /\ Len(rest) \in Nat
    <3> DEFINE t == tail \o mid
    <3>1. t \in Seq(Int) /\ Len(t) = Len(tail) + Len(mid) /\ Len(mid) = AckLen
      BY <1>5, <1>6, <2>1, AckBytes, Joined
    <3>2. ready = t \o rest
      BY <1>8
    <3> HIDE DEF t
    <3>3. Len(ready) = Len(t) + Len(rest)
      BY <1>7, <3>1, <3>2, Joined
    <3>4. Len(rx_buf) \in Nat /\ Len(tail) \in Nat /\ Len(rest) \in Nat
      BY <1>3, <1>5, <1>7
    <3> QED BY <3>1, <3>3, <3>4, LateSizes
  <2>3. ASSUME NEW i \in 1 .. AckLen PROVE At(q + i) = AckFrame[i]
    <3> DEFINE t == tail \o mid
    <3>1. t \in Seq(Int) /\ Len(t) = Len(tail) + AckLen
      BY <1>5, <1>6, <2>1, AckBytes, LateSizes
    <3>2. t[Len(tail) + i] = AckFrame[i]
      BY <1>5, <1>6, <2>1, <2>2, AckBytes, LateSizes
    <3> HIDE DEF t
    <3>3. ready = t \o rest
      BY <1>8 DEF t
    <3>4. ready[Len(tail) + i] = t[Len(tail) + i]
      <4> DEFINE j == Len(tail) + i
      <4>1. j \in 1 .. Len(t)
        BY <2>2, <3>1, LateSizes
      <4> HIDE DEF j
      <4>2. ready[j] = t[j]
        BY <1>7, <3>1, <3>3, <4>1
      <4> QED BY <4>2 DEF j
    <3>5. ~ (q + i <= Len(rx_buf)) /\ q + i - Len(rx_buf) = Len(tail) + i
      BY <2>2, LateSizes
    <3> QED BY <3>2, <3>4, <3>5 DEF At
  <2>4. /\ q \in Int /\ q >= -1 /\ q # -1 /\ q + AckLen <= Ahead
        /\ q + AckLen - Len(rx_buf) <= Allowance
    BY <1>1, <1>5, <2>2, LateSizes DEF Ahead, Allowance
  <2> HIDE DEF q
  <2>5. 1 \in 1 .. AckLen /\ AckLen \in 1 .. AckLen
        /\ \A i \in 2 .. AckLen - 1 : i \in 1 .. AckLen
    BY LateSizes
  <2>6. AckBehind(q)
    BY <2>3, <2>4, <2>5, AckBytes DEF AckBehind
  <2> QED BY <2>4, <2>6
<1> QED BY <1>10, <1>11, <1>12 DEF LateInv, AckAhead

\* A read moves bytes from the transport to the end of rx_buf, and takes no
\* more of the allowance than it brings the acknowledgment closer.
LEMMA LateReadKeeps == ASSUME LateInv, LateRead PROVE LateInv'
<1>1. PICK n \in 1 .. Len(ready) :
        /\ Read(SubSeq(ready, 1, n))
        /\ ready' = SubSeq(ready, n + 1, Len(ready))
        /\ final_input' = CASE final_input = None -> None
                            [] final_input > n    -> final_input - n
                            [] OTHER              -> 0
  BY DEF LateRead
<1>2. /\ step' = "input" /\ input' = "Progress" /\ acked' = acked /\ tx' = tx
      /\ pc' = "scan" /\ rx_discarding' = rx_discarding /\ frames' = frames
      /\ rx_buf' = rx_buf \o SubSeq(ready, 1, n)
  BY <1>1 DEF LateRead, Read
<1>3. rx_buf \in Seq(Int) /\ ready \in Seq(Int) /\ final_input \in Nat \cup {None}
      /\ tx \in {"Waiting", "Idle", "Queued"} /\ frames \in Seq(Seq(Int))
  BY DEF LateInv, LateTypes
<1> DEFINE c == SubSeq(ready, 1, n)
<1>4. c \in Seq(Int) /\ Len(c) = n /\ \A i \in 1 .. n : c[i] = ready[i]
  BY <1>3
<1>5. n \in Nat /\ Len(ready) \in Nat /\ Len(rx_buf) \in Nat /\ n <= Len(ready) /\ 1 <= n
  BY <1>3
<1>6. /\ ready' \in Seq(Int) /\ Len(ready') = Len(ready) - n
      /\ \A i \in 1 .. Len(ready) - n : ready'[i] = ready[n + i]
  BY <1>1, <1>3, <1>5
<1>7. rx_buf' = rx_buf \o c
  BY <1>2
<1> HIDE DEF c
<1>8. /\ rx_buf' \in Seq(Int) /\ Len(rx_buf') = Len(rx_buf) + n
      /\ \A i \in 1 .. Len(rx_buf) : rx_buf'[i] = rx_buf[i]
      /\ \A i \in Len(rx_buf) + 1 .. Len(rx_buf) + n : rx_buf'[i] = c[i - Len(rx_buf)]
  <2>1. rx_buf' \in Seq(Int) /\ Len(rx_buf') = Len(rx_buf) + n
    BY <1>3, <1>4, <1>7, Joined
  <2>2. \A i \in 1 .. Len(rx_buf) : rx_buf'[i] = rx_buf[i]
    BY <1>3, <1>4, <1>7, Joined
  <2>3. \A i \in Len(rx_buf) + 1 .. Len(rx_buf) + n : rx_buf'[i] = c[i - Len(rx_buf)]
    <3>1. \A i \in 1 .. Len(rx_buf) + Len(c) :
            rx_buf'[i] = IF i <= Len(rx_buf) THEN rx_buf[i] ELSE c[i - Len(rx_buf)]
      BY <1>3, <1>4, <1>7, Joined
    <3>2. \A i \in Len(rx_buf) + 1 .. Len(rx_buf) + n :
            i \in 1 .. Len(rx_buf) + Len(c) /\ ~ (i <= Len(rx_buf))
      BY <1>4, <1>5
    <3> QED BY <3>1, <3>2
  <2> QED BY <2>1, <2>2, <2>3
<1>9. /\ final_input' \in Nat \cup {None}
      /\ Allowance \in Nat /\ Allowance' \in Nat /\ Allowance - n <= Allowance'
  <2>1. CASE final_input = None
    BY <1>1, <1>5, <2>1, LateSizes DEF Allowance
  <2>2. CASE final_input # None /\ final_input > n
    BY <1>1, <1>3, <1>5, <2>2, LateSizes DEF Allowance
  <2>3. CASE final_input # None /\ ~ (final_input > n)
    BY <1>1, <1>3, <1>5, <2>3, LateSizes DEF Allowance
  <2> QED BY <2>1, <2>2, <2>3
<1>10. LateTypes'
  BY <1>2, <1>3, <1>6, <1>8, <1>9 DEF LateTypes
<1>11. Turns' /\ LateAckCounts'
  BY <1>2 DEF LateInv, Turns, LateAckCounts
<1>12. Ahead' = Ahead /\ Ahead \in Nat /\ Ahead = Len(rx_buf) + Len(ready)
  BY <1>5, <1>6, <1>8 DEF Ahead
<1>13. ASSUME NEW j \in 1 .. Ahead PROVE At(j)' = At(j)
  <2>1. CASE j <= Len(rx_buf)
    BY <1>5, <1>8, <2>1 DEF At
  <2>2. CASE ~ (j <= Len(rx_buf)) /\ j <= Len(rx_buf) + n
    <3> DEFINE k == j - Len(rx_buf)
    <3>1. k \in 1 .. n /\ j \in Len(rx_buf) + 1 .. Len(rx_buf) + n /\ j <= Len(rx_buf')
      BY <1>5, <1>8, <2>2
    <3>2. At(j)' = rx_buf'[j] /\ At(j) = ready[k]
      BY <2>2, <3>1 DEF At
    <3>3. rx_buf'[j] = c[k]
      BY <1>8, <3>1
    <3> HIDE DEF k
    <3> QED BY <1>4, <3>1, <3>2, <3>3
  <2>3. CASE ~ (j <= Len(rx_buf) + n)
    <3> DEFINE k == j - (Len(rx_buf) + n)
               m == j - Len(rx_buf)
    <3>1. /\ k \in 1 .. Len(ready) - n /\ m = n + k
          /\ ~ (j <= Len(rx_buf')) /\ ~ (j <= Len(rx_buf))
          /\ j - Len(rx_buf') = k
      BY <1>5, <1>8, <1>12, <2>3
    <3>2. At(j)' = ready'[k] /\ At(j) = ready[m]
      BY <3>1 DEF At
    <3> HIDE DEF k, m
    <3> QED BY <1>6, <3>1, <3>2
  <2> QED BY <2>1, <2>2, <2>3
<1>14. ASSUME NEW q \in Int, AckBehind(q) PROVE AckBehind(q)'
  <2>1. /\ q >= -1 /\ q + AckLen <= Ahead'
        /\ q + AckLen - Len(rx_buf') <= Allowance'
    BY <1>5, <1>8, <1>9, <1>12, <1>14, LateSizes DEF AckBehind
  <2>2. \A i \in 2 .. AckLen : q + i \in 1 .. Ahead
    BY <1>12, <1>14, LateSizes DEF AckBehind
  <2>3. q # -1 => q + 1 \in 1 .. Ahead
    BY <1>12, <1>14, LateSizes DEF AckBehind
  <2>4. AckLen \in 2 .. AckLen /\ \A i \in 2 .. AckLen - 1 : i \in 2 .. AckLen
    BY LateSizes
  <2>5. \A i \in 2 .. AckLen - 1 : At(q + i)' = AckByte
    BY <1>13, <1>14, <2>2, <2>4 DEF AckBehind
  <2>6. At(q + AckLen)' = 0
    BY <1>13, <1>14, <2>2, <2>4 DEF AckBehind
  <2>7. IF q = -1 THEN ~ rx_discarding' ELSE At(q + 1)' = 0
    BY <1>2, <1>13, <1>14, <2>3 DEF AckBehind
  <2> QED BY <2>1, <2>5, <2>6, <2>7 DEF AckBehind
<1>15. AckAhead'
  BY <1>2, <1>14 DEF LateInv, AckAhead
<1> QED BY <1>10, <1>11, <1>15 DEF LateInv

\* process_frame finds the acknowledgment, or the run taken lies before it.
LEMMA LateTakeKeeps == ASSUME LateInv, LateTake PROVE LateInv'
<1>1. /\ rx_buf \in Seq(Int) /\ ready \in Seq(Int) /\ frames \in Seq(Seq(Int))
      /\ final_input \in Nat \cup {None} /\ tx \in {"Waiting", "Idle", "Queued"}
      /\ Len(rx_buf) \in Nat /\ Len(ready) \in Nat
  BY DEF LateInv, LateTypes
<1>2. /\ pc = "scan" /\ pc' = "scan" /\ Delimited /\ rx_discarding' = FALSE
      /\ rx_buf' = SubSeq(rx_buf, End + 1, Len(rx_buf))
      /\ ready' = ready /\ acked' = acked /\ step' = step /\ input' = input
  BY DEF LateTake, TakeRun
<1>3. step = "input" /\ input = "Progress"
  BY <1>2 DEF LateInv, Turns
<1>4. /\ End \in 1 .. Len(rx_buf) /\ rx_buf[End] = 0
      /\ \A j \in 1 .. End - 1 : rx_buf[j] # 0
  BY <1>1, <1>2, FirstDelimiter
<1>5. /\ rx_buf' \in Seq(Int) /\ Len(rx_buf') = Len(rx_buf) - End
      /\ \A i \in 1 .. Len(rx_buf) - End : rx_buf'[i] = rx_buf[End + i]
  BY <1>1, <1>2, <1>4
<1> DEFINE run == SubSeq(rx_buf, 1, End - 1)
<1>6. /\ run \in Seq(Int) /\ Len(run) = End - 1
      /\ \A i \in 1 .. End - 1 : run[i] = rx_buf[i]
  BY <1>1, <1>4
<1>7. /\ rx_discarding \/ End = 1 => frames' = frames
      /\ ~ (rx_discarding \/ End = 1) => frames' = Append(frames, run)
  BY DEF LateTake, TakeRun
<1> HIDE DEF run
<1>8. frames' \in Seq(Seq(Int))
  <2>1. CASE rx_discarding \/ End = 1
    BY <1>1, <1>7, <2>1
  <2>2. CASE ~ (rx_discarding \/ End = 1)
    BY <1>1, <1>6, <1>7, <2>2, Appended
  <2> QED BY <2>1, <2>2
<1>9. \/ tx' = "Idle" /\ final_input' = None
      \/ /\ tx' = tx /\ final_input' = final_input
         /\ ~ (frames' # frames /\ frames'[Len(frames')] = AckBody /\ tx # "Idle")
  BY DEF LateTake
<1>10. LateTypes'
  BY <1>1, <1>2, <1>3, <1>5, <1>8, <1>9 DEF LateTypes
<1>11. Turns' /\ LateAckCounts'
  BY <1>2, <1>3, <1>9 DEF LateInv, Turns, LateAckCounts
<1>12. ASSUME tx' = "Waiting", acked, NEW q \in Int, AckBehind(q),
              NEW e \in Nat, e = End
       PROVE  AckBehind(q - e)'
  <2>1. /\ tx = "Waiting" /\ final_input' = final_input
        /\ ~ (frames' # frames /\ frames'[Len(frames')] = AckBody)
    BY <1>9, <1>12
  <2>2. /\ q >= -1 /\ q + AckLen <= Ahead /\ q + AckLen - Len(rx_buf) <= Allowance
        /\ IF q = -1 THEN ~ rx_discarding ELSE At(q + 1) = 0
        /\ \A i \in 2 .. AckLen - 1 : At(q + i) = AckByte
        /\ At(q + AckLen) = 0
    BY <1>12 DEF AckBehind
  <2>3. q # -1
    <3> SUFFICES ASSUME q = -1 PROVE FALSE
      OBVIOUS
    <3>1. \A i \in 1 .. AckLen - 2 : At(i) = AckByte
      <4>1. \A i \in 1 .. AckLen - 2 : i + 1 \in 2 .. AckLen - 1 /\ q + (i + 1) = i
        BY LateSizes
      <4> QED BY <2>2, <4>1
    <3>2. At(AckLen - 1) = 0
      <4>1. q + AckLen = AckLen - 1
        BY LateSizes
      <4> QED BY <2>2, <4>1
    <3>3. End >= AckLen - 1
      <4>1. End \in 1 .. AckLen - 2 => At(End) = rx_buf[End] /\ At(End) = AckByte
        BY <1>1, <1>4, <3>1 DEF At
      <4> QED BY <1>1, <1>4, <4>1, LateSizes DEF AckByte
    <3>4. End = AckLen - 1
      <4>1. AckLen - 1 \in 1 .. Len(rx_buf)
        BY <1>1, <1>4, <3>3, LateSizes
      <4>2. rx_buf[AckLen - 1] = 0
        BY <3>2, <4>1 DEF At
      <4>3. AckLen - 1 \notin 1 .. End - 1
        BY <1>4, <4>2
      <4> QED BY <1>1, <1>4, <3>3, <4>1, <4>3, LateSizes
    <3>5. run = AckBody
      <4>1. run = [i \in 1 .. AckLen - 2 |-> run[i]]
        BY <1>6, <3>4, LateSizes
      <4>2. \A i \in 1 .. AckLen - 2 : run[i] = AckByte
        <5>1. ASSUME NEW i \in 1 .. AckLen - 2 PROVE run[i] = AckByte
          <6>1. i \in 1 .. End - 1 /\ i <= Len(rx_buf)
            BY <1>1, <1>4, <3>4, LateSizes
          <6> QED BY <1>6, <3>1, <6>1 DEF At
        <5> QED BY <5>1
      <4> QED BY <4>1, <4>2 DEF AckBody, Fill
    <3>6. frames' = Append(frames, run)
      BY <1>7, <2>2, <3>4, LateSizes
    <3>7. frames' # frames /\ frames'[Len(frames')] = run
      <4>1. Len(frames') = Len(frames) + 1 /\ frames'[Len(frames) + 1] = run
        BY <1>1, <1>6, <3>6
      <4> QED BY <1>1, <4>1
    <3> QED BY <2>1, <3>5, <3>7
  <2>4. End <= q + 1
    <3>1. CASE q + 1 <= Len(rx_buf)
      <4> DEFINE k == q + 1
      <4>1. k \in 1 .. Len(rx_buf) /\ rx_buf[k] = 0
        BY <1>1, <2>2, <2>3, <3>1 DEF At
      <4> HIDE DEF k
      <4>2. k \notin 1 .. End - 1
        BY <1>4, <4>1
      <4>3. End <= k
        BY <1>1, <1>4, <4>1, <4>2
      <4> QED BY <4>3 DEF k
    <3>2. CASE ~ (q + 1 <= Len(rx_buf))
      BY <1>1, <1>4, <3>2
    <3> QED BY <3>1, <3>2
  <2>5. /\ e \in 1 .. Len(rx_buf) /\ e <= q + 1 /\ Len(rx_buf') = Len(rx_buf) - e
         /\ \A i \in 1 .. Len(rx_buf) - e : rx_buf'[i] = rx_buf[e + i]
    BY <1>4, <1>5, <1>12, <2>4
  <2>6. ASSUME NEW j \in Int, j > e PROVE At(j - e)' = At(j)
    <3> DEFINE k == j - e
    <3>1. k \in Int /\ 1 <= k /\ j = e + k
      BY <1>1, <2>5, <2>6
    <3>2. At(k)' = IF k <= Len(rx_buf') THEN rx_buf'[k] ELSE ready[k - Len(rx_buf')]
      BY <1>2 DEF At
    <3> HIDE DEF k
    <3>3. CASE j <= Len(rx_buf)
      <4>1. k \in 1 .. Len(rx_buf) - e /\ k <= Len(rx_buf')
        BY <1>1, <2>5, <3>1, <3>3
      <4>2. At(k)' = rx_buf[j]
        BY <2>5, <3>1, <3>2, <4>1
      <4> QED BY <3>3, <4>2 DEF At, k
    <3>4. CASE ~ (j <= Len(rx_buf))
      <4>1. ~ (k <= Len(rx_buf')) /\ k - Len(rx_buf') = j - Len(rx_buf)
        BY <1>1, <2>5, <3>1, <3>4
      <4>2. At(k)' = ready[j - Len(rx_buf)]
        BY <3>2, <4>1
      <4> QED BY <3>4, <4>2 DEF At, k
    <3> QED BY <3>3, <3>4
  <2>7. /\ q - e \in Int /\ q - e >= -1
        /\ q - e + AckLen <= Ahead'
        /\ q - e + AckLen - Len(rx_buf') <= Allowance'
    <3>1. Allowance' = Allowance /\ Allowance \in Nat
      BY <1>1, <2>1, LateSizes DEF Allowance
    <3>2. Ahead = Len(rx_buf) + Len(ready) /\ Ahead' = Ahead - e
      <4>1. Ahead' = Len(rx_buf') + Len(ready)
        BY <1>2 DEF Ahead
      <4> QED BY <1>1, <2>5, <4>1 DEF Ahead
    <3> QED BY <1>1, <2>2, <2>5, <3>1, <3>2, LateSizes
  <2>8. IF q - e = -1 THEN ~ rx_discarding' ELSE At(q - e + 1)' = 0
    <3>1. CASE q - e = -1
      BY <1>2, <3>1
    <3>2. CASE q - e # -1
      <4> DEFINE j == q + 1
      <4>1. j \in Int /\ j > e /\ q - e + 1 = j - e
        BY <2>5, <3>2
      <4>2. At(j) = 0
        BY <2>2, <2>3
      <4> HIDE DEF j
      <4> QED BY <2>6, <3>2, <4>1, <4>2
    <3> QED BY <3>1, <3>2
  <2>9. ASSUME NEW i \in 2 .. AckLen PROVE At(q - e + i)' = At(q + i)
    <3> DEFINE j == q + i
    <3>1. j \in Int /\ j > e /\ q - e + i = j - e
      BY <2>5, LateSizes
    <3>2. At(j - e)' = At(j)
      <4> HIDE DEF j
      <4> QED BY <2>6, <3>1
    <3> QED BY <3>1, <3>2
  <2>10. AckLen \in 2 .. AckLen /\ \A i \in 2 .. AckLen - 1 : i \in 2 .. AckLen
    BY LateSizes
  <2> QED BY <2>2, <2>7, <2>8, <2>9, <2>10 DEF AckBehind
<1>13. AckAhead'
  <2> SUFFICES ASSUME acked', tx' = "Waiting" PROVE \E q \in Int : AckBehind(q)'
    BY DEF AckAhead
  <2>1. acked /\ tx = "Waiting"
    BY <1>2, <1>9
  <2>2. PICK q \in Int : AckBehind(q)
    BY <2>1 DEF LateInv, AckAhead
  <2>3. PICK e \in Nat : e = End
    BY <1>4
  <2>4. AckBehind(q - e)' /\ q - e \in Int
    BY <1>12, <2>1, <2>2, <2>3
  <2> QED BY <2>4
<1> QED BY <1>10, <1>11, <1>13 DEF LateInv

\* What process_input drops holds nothing of an acknowledgment still awaited.
LEMMA LateWaitKeeps == ASSUME LateInv, LateWait PROVE LateInv'
<1>1. /\ rx_buf \in Seq(Int) /\ ready \in Seq(Int) /\ frames \in Seq(Seq(Int))
      /\ final_input \in Nat \cup {None} /\ tx \in {"Waiting", "Idle", "Queued"}
      /\ Len(rx_buf) \in Nat /\ Len(ready) \in Nat
  BY DEF LateInv, LateTypes
<1>2. /\ pc = "scan" /\ pc' = "poll" /\ ~ Delimited /\ rx_discarding' = Oversized
      /\ rx_buf' = IF Oversized THEN <<>> ELSE rx_buf
      /\ step' = "timer" /\ frames' = frames
      /\ ready' = ready /\ acked' = acked /\ input' = input /\ tx' = tx
      /\ final_input' = final_input
  BY DEF LateWait, Wait
<1>3. input = "Progress"
  BY <1>2 DEF LateInv, Turns
<1>4. \A i \in 1 .. Len(rx_buf) : rx_buf[i] # 0
  BY <1>2 DEF Delimited
<1>5. LateTypes'
  BY <1>1, <1>2 DEF LateTypes
<1>6. Turns' /\ LateAckCounts'
  BY <1>2, <1>3, <1>4 DEF LateInv, Turns, LateAckCounts
<1>7. CASE ~ Oversized
  <2>1. rx_buf' = rx_buf /\ rx_discarding' = FALSE
    BY <1>2, <1>7
  <2>2. \A q \in Int : AckBehind(q) => AckBehind(q)'
    BY <1>2, <2>1 DEF AckBehind, Ahead, At, Allowance
  <2>3. AckAhead'
    BY <1>2, <2>2 DEF LateInv, AckAhead
  <2> QED BY <1>5, <1>6, <2>3 DEF LateInv
<1>8. CASE Oversized
  <2>1. rx_buf' = <<>> /\ Len(rx_buf') = 0
    BY <1>2, <1>8
  <2>2. ASSUME NEW q \in Int, AckBehind(q), NEW n \in Nat, n = Len(rx_buf)
        PROVE  AckBehind(q - n)'
    <3>1. /\ q >= -1 /\ q + AckLen <= Ahead /\ q + AckLen - Len(rx_buf) <= Allowance
          /\ IF q = -1 THEN ~ rx_discarding ELSE At(q + 1) = 0
          /\ \A i \in 2 .. AckLen - 1 : At(q + i) = AckByte
          /\ At(q + AckLen) = 0
      BY <2>2 DEF AckBehind
    <3>2. q # -1
      <4> SUFFICES ASSUME q = -1 PROVE FALSE
        OBVIOUS
      <4>1. n = N
        BY <1>8, <2>2, <3>1 DEF Oversized
      <4> DEFINE j == q + AckLen
      <4>2. j \in 1 .. Len(rx_buf)
        BY <2>2, <4>1, LateSizes
      <4>3. At(j) = 0
        BY <3>1
      <4> HIDE DEF j
      <4>4. rx_buf[j] = 0
        BY <4>2, <4>3 DEF At
      <4> QED BY <1>4, <4>2, <4>4
    <3>3. n <= q
      <4> SUFFICES ASSUME ~ (n <= q) PROVE FALSE
        OBVIOUS
      <4> DEFINE j == q + 1
      <4>1. j \in 1 .. Len(rx_buf) /\ At(j) = 0
        BY <2>2, <3>1, <3>2
      <4> HIDE DEF j
      <4>2. rx_buf[j] = 0
        BY <4>1 DEF At
      <4> QED BY <1>4, <4>1, <4>2
    <3>4. ASSUME NEW j \in Int, j > n PROVE At(j - n)' = At(j)
      <4>1. At(j - n)' = IF j - n <= Len(rx_buf') THEN rx_buf'[j - n]
                                                    ELSE ready[j - n - Len(rx_buf')]
        BY <1>2 DEF At
      <4>2. ~ (j - n <= Len(rx_buf')) /\ j - n - Len(rx_buf') = j - Len(rx_buf)
            /\ ~ (j <= Len(rx_buf))
        BY <2>1, <2>2, <3>4
      <4> QED BY <4>1, <4>2 DEF At
    <3>5. /\ q - n \in Int /\ q - n >= -1 /\ q - n # -1
          /\ q - n + AckLen <= Ahead'
          /\ q - n + AckLen - Len(rx_buf') <= Allowance'
      <4>1. Allowance' = Allowance /\ Allowance \in Nat
        BY <1>1, <1>2, LateSizes DEF Allowance
      <4>2. Ahead = n + Len(ready) /\ Ahead' = Len(ready)
        <5>1. Ahead' = Len(rx_buf') + Len(ready)
          BY <1>2 DEF Ahead
        <5> QED BY <1>1, <2>1, <2>2, <5>1 DEF Ahead
      <4> QED BY <1>1, <2>1, <2>2, <3>1, <3>3, <4>1, <4>2, LateSizes
    <3>6. ASSUME NEW i \in 1 .. AckLen PROVE At(q - n + i)' = At(q + i)
      <4> DEFINE j == q + i
      <4>1. j \in Int /\ j > n /\ q - n + i = j - n
        BY <3>3, LateSizes
      <4>2. At(j - n)' = At(j)
        <5> HIDE DEF j
        <5> QED BY <3>4, <4>1
      <4> QED BY <4>1, <4>2
    <3>7. /\ 1 \in 1 .. AckLen /\ AckLen \in 1 .. AckLen
          /\ \A i \in 2 .. AckLen - 1 : i \in 1 .. AckLen
      BY LateSizes
    <3> QED BY <3>1, <3>2, <3>5, <3>6, <3>7 DEF AckBehind
  <2>3. AckAhead'
    <3> SUFFICES ASSUME acked', tx' = "Waiting" PROVE \E q \in Int : AckBehind(q)'
      BY DEF AckAhead
    <3>1. PICK q \in Int : AckBehind(q)
      BY <1>2 DEF LateInv, AckAhead
    <3>2. PICK n \in Nat : n = Len(rx_buf)
      BY <1>1
    <3>3. AckBehind(q - n)' /\ q - n \in Int
      BY <2>2, <3>1, <3>2
    <3> QED BY <3>3
  <2> QED BY <1>5, <1>6, <2>3 DEF LateInv
<1> QED BY <1>7, <1>8

\* The other steps move no byte.
LEMMA AckBehindKept ==
  ASSUME LateInv, tx' = tx, acked' = acked, UNCHANGED rxVars, ready' = ready,
         Allowance' = Allowance
  PROVE  AckAhead'
<1>1. \A q \in Int : AckBehind(q) => AckBehind(q)'
  BY DEF AckBehind, Ahead, At, rxVars
<1> QED BY <1>1 DEF LateInv, AckAhead

\* When nothing is ready, or the allowance is spent, an awaited acknowledgment
\* would be in rx_buf, and process_input leaves no delimiter there.
LEMMA VerdictKeeps == ASSUME LateInv, Verdict PROVE LateInv'
<1>1. /\ rx_buf \in Seq(Int) /\ ready \in Seq(Int)
      /\ Len(rx_buf) \in Nat /\ Len(ready) \in Nat
  BY DEF LateInv, LateTypes
<1>2. /\ step = "timer" /\ tx = "Waiting" /\ final_input # None /\ Over
      /\ tx' = "Queued" /\ final_input' = None /\ step' = "input"
      /\ UNCHANGED <<ready, acked, input>> /\ UNCHANGED rxVars
  BY DEF Verdict
<1>3. pc = "poll" /\ \A i \in 1 .. Len(rx_buf) : rx_buf[i] # 0
  BY <1>2 DEF LateInv, LateTypes, Turns
<1>4. ~ acked
  <2> SUFFICES ASSUME acked PROVE FALSE
    OBVIOUS
  <2>1. PICK q \in Int : AckBehind(q)
    BY <1>2 DEF LateInv, AckAhead
  <2> DEFINE j == q + AckLen
  <2>2. /\ q >= -1 /\ j <= Ahead /\ j - Len(rx_buf) <= final_input /\ At(j) = 0
    <3>1. Allowance = final_input
      BY <1>2 DEF Allowance
    <3> HIDE DEF j
    <3>2. /\ q >= -1 /\ q + AckLen <= Ahead
          /\ q + AckLen - Len(rx_buf) <= Allowance /\ At(q + AckLen) = 0
      BY <2>1 DEF AckBehind
    <3>3. At(j) = 0 /\ j <= Ahead /\ j - Len(rx_buf) <= Allowance
      BY <1>1, <3>2, LateSizes DEF j
    <3> QED BY <3>1, <3>2, <3>3
  <2>3. j \in Int /\ 1 <= j
    BY <2>2, LateSizes
  <2> HIDE DEF j
  <2>4. j <= Len(rx_buf)
    <3>1. CASE input = "Blocked"
      <4>1. ready = <<>> /\ Len(ready) = 0
        BY <1>2, <3>1 DEF LateInv, Turns
      <4> QED BY <1>1, <2>2, <2>3, <4>1 DEF Ahead
    <3>2. CASE final_input = 0
      BY <1>1, <2>2, <2>3, <3>2
    <3> QED BY <1>2, <3>1, <3>2 DEF Over
  <2>5. rx_buf[j] = 0
    BY <2>2, <2>4 DEF At
  <2> QED BY <1>1, <1>3, <2>3, <2>4, <2>5
<1> QED BY <1>2, <1>4, LateSizes
        DEF LateInv, LateTypes, Turns, AckAhead, LateAckCounts, rxVars

LEMMA NextLate == LateInv /\ [LateNext]_lateVars => LateInv'
<1> SUFFICES ASSUME LateInv, [LateNext]_lateVars PROVE LateInv'
  OBVIOUS
<1>1. CASE Blocked
  <2>1. /\ pc = "poll" /\ ready = <<>> /\ input' = "Blocked" /\ step' = "timer"
        /\ UNCHANGED <<ready, acked, tx, final_input>> /\ UNCHANGED rxVars
    BY <1>1 DEF Blocked
  <2>2. AckAhead'
    BY <2>1, AckBehindKept DEF Allowance
  <2> QED BY <2>1, <2>2
          DEF LateInv, LateTypes, Turns, LateAckCounts, rxVars
<1>2. CASE Yield
  <2>1. /\ pc = "poll" /\ input' = "Yield" /\ step' = "timer"
        /\ UNCHANGED <<ready, acked, tx, final_input>> /\ UNCHANGED rxVars
    BY <1>2 DEF Yield
  <2>2. AckAhead'
    BY <2>1, AckBehindKept DEF Allowance
  <2> QED BY <2>1, <2>2
          DEF LateInv, LateTypes, Turns, LateAckCounts, rxVars
<1>3. CASE Expire
  <2>1. /\ step = "timer" /\ final_input = None /\ final_input' = FinalInput
        /\ step' = "input" /\ UNCHANGED <<ready, acked, input, tx>>
        /\ UNCHANGED rxVars
    BY <1>3 DEF Expire
  <2>2. Allowance' = Allowance
    BY <2>1, LateSizes DEF Allowance
  <2>3. AckAhead'
    BY <2>1, <2>2, AckBehindKept
  <2> QED BY <2>1, <2>3, LateSizes
          DEF LateInv, LateTypes, Turns, LateAckCounts, rxVars
<1>4. CASE Pass
  <2>1. /\ step = "timer" /\ step' = "input"
        /\ tx # "Waiting" \/ (final_input # None /\ ~ Over)
        /\ UNCHANGED <<ready, acked, input, tx, final_input>> /\ UNCHANGED rxVars
    BY <1>4 DEF Pass
  <2>2. AckAhead'
    BY <2>1, AckBehindKept DEF Allowance
  <2> QED BY <2>1, <2>2
          DEF LateInv, LateTypes, Turns, LateAckCounts, rxVars
<1>5. CASE UNCHANGED lateVars
  <2>1. UNCHANGED <<ready, acked, step, input, tx, final_input>> /\ UNCHANGED rxVars
    BY <1>5 DEF lateVars
  <2>2. AckAhead'
    BY <2>1, AckBehindKept DEF Allowance
  <2> QED BY <2>1, <2>2
          DEF LateInv, LateTypes, Turns, LateAckCounts, rxVars
<1> QED BY <1>1, <1>2, <1>3, <1>4, <1>5,
           LateReadKeeps, LateTakeKeeps, LateWaitKeeps, VerdictKeeps DEF LateNext

\* What has been read since the deadline was noticed, and what that has left of
\* the allowance; a read that found nothing ready has yet to be answered.
ReadSince == Len(stream) - since
Spent ==
  /\ stream \in Seq(Int)
  /\ since \in 0 .. Len(stream)
  /\ tx = "Waiting" /\ final_input # None =>
       final_input = IF ReadSince < FinalInput THEN FinalInput - ReadSince ELSE 0
  /\ tx = "Waiting" /\ step = "input" => final_input # None
  /\ tx = "Waiting" /\ dry => step = "timer" /\ input = "Blocked"
  /\ NoEndlessAllowance

LEMMA InitSpent == LateInit => Spent
<1> SUFFICES ASSUME LateInit PROVE Spent
  OBVIOUS
<1>1. stream \in Seq(Int) /\ since = Len(stream)
  BY InitLate DEF LateInit, LateInv, LateTypes
<1>2. step = "timer" /\ final_input = None /\ ~ dry
  BY DEF LateInit
<1> QED BY <1>1, <1>2 DEF Spent, NoEndlessAllowance

\* poll_input counts what it reads against the allowance.
LEMMA ReadSpends == ASSUME LateInv, Spent, LateRead PROVE Spent'
<1>1. PICK n \in 1 .. Len(ready) :
        /\ Read(SubSeq(ready, 1, n))
        /\ final_input' = CASE final_input = None -> None
                            [] final_input > n    -> final_input - n
                            [] OTHER              -> 0
  BY DEF LateRead
<1>2. /\ step = "input" /\ step' = "input" /\ pc' = "scan" /\ tx' = tx
      /\ since' = since /\ dry' = dry /\ stream' = stream \o SubSeq(ready, 1, n)
  BY <1>1 DEF LateRead, Read, lateHist
<1>3. ready \in Seq(Int) /\ stream \in Seq(Int) /\ since \in 0 .. Len(stream)
  BY DEF LateInv, LateTypes, Spent
<1>4. stream' \in Seq(Int) /\ Len(stream') = Len(stream) + n /\ Len(stream) \in Nat
  BY <1>2, <1>3
<1>5. since' \in 0 .. Len(stream')
  BY <1>2, <1>3, <1>4
<1>6. CASE tx = "Waiting"
  <2>1. /\ final_input # None /\ ~ dry
        /\ final_input = IF ReadSince < FinalInput THEN FinalInput - ReadSince ELSE 0
    BY <1>2, <1>6 DEF Spent
  <2>2. /\ FinalInput \in Nat /\ n \in Nat /\ ReadSince \in Nat
        /\ ReadSince' = ReadSince + n
    BY <1>2, <1>3, <1>4, LateSizes DEF ReadSince
  <2>3. /\ final_input' # None
        /\ final_input' = IF ReadSince' < FinalInput THEN FinalInput - ReadSince' ELSE 0
    BY <1>1, <2>1, <2>2 DEF None
  <2>4. FinalInput' = FinalInput
    BY DEF FinalInput
  <2> QED BY <1>2, <1>4, <1>5, <2>1, <2>3, <2>4 DEF Spent, NoEndlessAllowance
<1>7. CASE tx # "Waiting"
  BY <1>2, <1>4, <1>5, <1>7 DEF Spent, NoEndlessAllowance
<1> QED BY <1>6, <1>7

\* poll_timer answers as soon as the allowance is spent or the input blocks.
LEMMA NextSpent == LateInv /\ Spent /\ [LateNext]_lateVars => Spent'
<1> SUFFICES ASSUME LateInv, Spent, [LateNext]_lateVars PROVE Spent'
  OBVIOUS
<1>1. stream \in Seq(Int) /\ since \in 0 .. Len(stream) /\ Len(stream) \in Nat
  BY DEF Spent
<1>2. CASE LateTake
  <2>1. /\ UNCHANGED <<stream, since, dry, step, input>>
        /\ pc = "scan" /\ pc' = "scan"
        /\ tx' = "Idle" \/ UNCHANGED <<tx, final_input>>
    BY <1>2 DEF LateTake, TakeRun, lateHist
  <2> QED BY <2>1 DEF Spent, NoEndlessAllowance, ReadSince, FinalInput
<1>3. CASE LateWait
  <2>1. /\ UNCHANGED <<stream, since, dry, input, tx, final_input>>
        /\ pc = "scan" /\ step' = "timer"
    BY <1>3 DEF LateWait, Wait, lateHist
  <2>2. step = "input"
    BY <2>1 DEF LateInv, Turns
  <2> QED BY <2>1, <2>2 DEF Spent, NoEndlessAllowance, ReadSince, FinalInput
<1>4. CASE Blocked
  BY <1>4 DEF Blocked, rxVars, Spent, NoEndlessAllowance, ReadSince, FinalInput
<1>5. CASE Yield
  BY <1>5 DEF Yield, rxVars, lateHist, Spent, NoEndlessAllowance, ReadSince, FinalInput
<1>6. CASE Expire
  <2>1. /\ stream' = stream /\ since' = Len(stream) /\ ~ dry'
        /\ final_input' = FinalInput /\ step' = "input"
    BY <1>6 DEF Expire, rxVars
  <2>2. /\ FinalInput \in Nat /\ FinalInput > 0 /\ FinalInput # None
        /\ FinalInput' = FinalInput
    BY LateSizes DEF FinalInput, None
  <2>3. ReadSince' = 0 /\ ReadSince' = Len(stream)' - since'
    BY <1>1, <2>1 DEF ReadSince
  <2> QED BY <1>1, <2>1, <2>2, <2>3 DEF Spent, NoEndlessAllowance
<1>7. CASE Verdict
  <2>1. UNCHANGED <<stream, since>> /\ tx' = "Queued"
    BY <1>7 DEF Verdict, rxVars, lateHist
  <2> QED BY <2>1 DEF Spent, NoEndlessAllowance
<1>8. CASE Pass
  <2>1. /\ UNCHANGED <<stream, since, dry, input, tx, final_input, pc>>
        /\ step' = "input"
        /\ tx = "Waiting" => final_input # None /\ ~ Over
    BY <1>8 DEF Pass, rxVars, lateHist
  <2>2. tx = "Waiting" => ReadSince < FinalInput /\ ~ dry
    BY <2>1 DEF Spent, Over
  <2> QED BY <2>1, <2>2 DEF Spent, NoEndlessAllowance, ReadSince, FinalInput
<1>9. CASE UNCHANGED lateVars
  BY <1>9 DEF lateVars, rxVars, lateHist, Spent, NoEndlessAllowance, ReadSince, FinalInput
<1> QED BY <1>2, <1>3, <1>4, <1>5, <1>6, <1>7, <1>8, <1>9, ReadSpends DEF LateNext

\* Within FINAL_INPUT bytes of the deadline, or at the first read that finds
\* nothing ready, poll_timer retransmits the packet or gives it up.
THEOREM AllowanceEnds == LateSpec => []NoEndlessAllowance
<1>1. LateInit => LateInv /\ Spent
  BY InitLate, InitSpent
<1>2. LateInv /\ Spent /\ [LateNext]_lateVars => (LateInv /\ Spent)'
  BY NextLate, NextSpent
<1>3. LateInv /\ Spent => NoEndlessAllowance
  BY DEF Spent
<1> QED BY <1>1, <1>2, <1>3, PTL DEF LateSpec

\* An acknowledgment that was ready when the deadline passed prevents the
\* retransmission and the failure: N + ACK_FRAME_LEN bytes are enough for every
\* size of rx_buf and of the ACK frame.
THEOREM ReadyAckCounts == LateSpec => []LateAckCounts
<1>1. LateInv => LateAckCounts
  BY DEF LateInv
<1> QED BY <1>1, InitLate, NextLate, PTL DEF LateSpec
=============================================================================
