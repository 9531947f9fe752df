----------------------------- MODULE Cobs_proofs -----------------------------
(***************************************************************************)
(* Theorems about Cobs: what is encoded is decoded, whatever the source,   *)
(* and max_encoding_length bytes are enough, for every length of a full    *)
(* block.                                                                  *)
(*                                                                         *)
(* The argument is about the blocks of a body.  A map b takes each         *)
(* position of the body to the position of its block's code, a map n to    *)
(* the number of source bytes that the body stands for up to there.  The   *)
(* encoder builds a body that has such maps; the decoder's variables are   *)
(* what the maps say of the position it has reached.                       *)
(*                                                                         *)
(* Of any other input the second half of the module says what decode_slice *)
(* returns.  There the argument is about From, the recursive function that *)
(* defines what a body stands for: it exists, because a set of positions   *)
(* that has the last one and the predecessor of each has them all, and the *)
(* decoder has written what it says, but for what is owed.                 *)
(***************************************************************************)
EXTENDS Cobs, TLAPS, SequenceTheorems, WellFoundedInduction

-----------------------------------------------------------------------------
(* Blocks *)

\* Position i of the body s continues the block of its predecessor with a
\* source byte, or is the code of the next block: then the one before it is
\* complete, and stands for a zero after its bytes unless it is full.
Follows(s, src, open, b, n, i) ==
  LET last == b[i - 1]
  IN  \/ /\ b[i] = last
         /\ n[i] = n[i - 1] + 1
         /\ s[i] # 0 /\ src[n[i]] = s[i]
      \/ /\ b[i] = i
         /\ last # open
         /\ s[last] = i - last
         /\ \/ s[last] = MaxCode /\ n[i] = n[i - 1]
            \/ s[last] # MaxCode /\ n[i] = n[i - 1] + 1 /\ src[n[i]] = 0

\* The body s stands for src; the code at position open is not known yet.
Blocks(s, src, open, b, n) ==
  /\ b \in [1 .. Len(s) -> 1 .. Len(s)]
  /\ n \in [1 .. Len(s) -> 0 .. Len(src)]
  /\ b[1] = 1 /\ n[1] = 0 /\ n[Len(s)] = Len(src)
  /\ open \in 1 .. Len(s) => b[open] = open
  /\ \A i \in 1 .. Len(s) :
       /\ b[i] <= i /\ n[i] < i
       /\ b[i] # open => s[b[i]] \in 1 .. MaxCode /\ i - b[i] < s[b[i]]
  /\ \A i \in 2 .. Len(s) : Follows(s, src, open, b, n, i)

\* The last block of s is open, and its code is at position open.
Open(s, src, open) ==
  \E b, n : Blocks(s, src, open, b, n) /\ b[Len(s)] = open

\* All blocks are complete: no position of s is open, and the last block has
\* as many bytes as its code c says.
EndsWith(s, b, c) == s[b[Len(s)]] = c /\ b[Len(s)] + c = Len(s) + 1

Whole(s, src, c) ==
  \E b, n : Blocks(s, src, Len(s) + 1, b, n) /\ EndsWith(s, b, c)

Bodies == {s \in Seq(Byte) : s # <<>>}

LEMMA Bytes == /\ MaxCode \in Nat /\ MaxCode >= 2
               /\ 0 \in Byte /\ 1 .. MaxCode \subseteq Byte /\ Byte \subseteq Nat
               /\ \A byte \in Byte \ {0} : byte \in 1 .. MaxCode
BY MaxCodeAssumption DEF MaxCodeAssumption, Byte

LEMMA BodyLen == ASSUME NEW s \in Bodies
                 PROVE  s \in Seq(Byte) /\ Len(s) \in Nat /\ Len(s) >= 1
BY DEF Bodies

LEMMA Appended ==
  ASSUME NEW s \in Seq(Byte), NEW x \in Byte
  PROVE  /\ Append(s, x) \in Bodies
         /\ Len(s) \in Nat /\ Len(Append(s, x)) = Len(s) + 1
         /\ \A i \in 1 .. Len(s) : Append(s, x)[i] = s[i]
         /\ Append(s, x)[Len(s) + 1] = x
BY DEF Bodies

\* The code of the open block is written.
LEMMA Close ==
  ASSUME NEW s \in Bodies, NEW src \in Seq(Byte), NEW c \in 1 .. MaxCode,
         NEW open \in 1 .. Len(s), open + c = Len(s) + 1, Open(s, src, open)
  PROVE  /\ [s EXCEPT ![open] = c] \in Bodies
         /\ Len([s EXCEPT ![open] = c]) = Len(s)
         /\ Whole([s EXCEPT ![open] = c], src, c)
<1> DEFINE t == [s EXCEPT ![open] = c]
<1>1. /\ t \in Bodies /\ Len(t) = Len(s) /\ t[open] = c
      /\ \A i \in 1 .. Len(s) : i # open => t[i] = s[i]
  <2>1. t \in Seq(Byte) /\ Len(t) = Len(s)
        /\ \A j \in 1 .. Len(s) : t[j] = IF j = open THEN c ELSE s[j]
    BY BodyLen, Bytes, ExceptSeq
  <2> QED BY <2>1, BodyLen DEF Bodies
<1>2. PICK b, n : Blocks(s, src, open, b, n) /\ b[Len(s)] = open
  BY DEF Open
<1> HIDE DEF t
<1>3. Len(s) \in Nat /\ Len(s) >= 1 /\ MaxCode \in Nat
  BY BodyLen, Bytes
<1>4. ASSUME NEW i \in 1 .. Len(t)
      PROVE  /\ b[i] <= i /\ n[i] < i
             /\ t[b[i]] \in 1 .. MaxCode /\ i - b[i] < t[b[i]]
  <2>1. /\ i \in 1 .. Len(s) /\ b[i] \in 1 .. Len(s)
        /\ b[i] <= i /\ n[i] < i
        /\ b[i] # open => s[b[i]] \in 1 .. MaxCode /\ i - b[i] < s[b[i]]
    BY <1>1, <1>2 DEF Blocks
  <2>2. CASE b[i] = open
    BY <1>1, <1>3, <2>1, <2>2
  <2>3. CASE b[i] # open
    BY <1>1, <2>1, <2>3
  <2> QED BY <2>1, <2>2, <2>3
<1>5. ASSUME NEW i \in 2 .. Len(t)
      PROVE  Follows(t, src, Len(t) + 1, b, n, i)
  <2>1. /\ i \in 1 .. Len(s) /\ i - 1 \in 1 .. Len(s)
        /\ b[i - 1] \in 1 .. Len(s) /\ b[i - 1] <= i - 1
        /\ open \in 1 .. Len(s) => b[open] = open
        /\ Follows(s, src, open, b, n, i)
    <3>1. i \in 2 .. Len(s) /\ i \in 1 .. Len(s) /\ i - 1 \in 1 .. Len(s)
      BY <1>1, <1>3
    <3> QED BY <1>2, <3>1 DEF Blocks
  <2>2. b[i - 1] # Len(t) + 1
    BY <1>1, <1>3, <2>1
  <2>3. CASE b[i] = b[i - 1]
    <3>1. i # open /\ b[i] # i /\ t[i] = s[i]
      BY <1>1, <2>1, <2>3
    <3>2. n[i] = n[i - 1] + 1 /\ s[i] # 0 /\ src[n[i]] = s[i]
      BY <2>1, <3>1 DEF Follows
    <3> QED BY <2>3, <3>1, <3>2 DEF Follows
  <2>4. CASE b[i] # b[i - 1]
    <3>1. /\ b[i] = i /\ b[i - 1] # open
          /\ s[b[i - 1]] = i - b[i - 1]
          /\ \/ s[b[i - 1]] = MaxCode /\ n[i] = n[i - 1]
             \/ s[b[i - 1]] # MaxCode /\ n[i] = n[i - 1] + 1 /\ src[n[i]] = 0
      BY <2>1, <2>4 DEF Follows
    <3>2. t[b[i - 1]] = s[b[i - 1]]
      BY <1>1, <2>1, <3>1
    <3> QED BY <2>2, <3>1, <3>2 DEF Follows
  <2> QED BY <2>3, <2>4
<1>6. Blocks(t, src, Len(t) + 1, b, n)
  BY <1>1, <1>2, <1>3, <1>4, <1>5 DEF Blocks
<1>7. EndsWith(t, b, c)
  BY <1>1, <1>2 DEF EndsWith
<1>8. Whole(t, src, c)
  BY <1>6, <1>7 DEF Whole
<1> QED BY <1>1, <1>8 DEF t

\* The maps of a body that gets one more position, in the open block.
LEMMA Extend ==
  ASSUME NEW s \in Bodies, NEW src \in Seq(Byte), NEW x \in Byte,
         NEW src2 \in Seq(Byte), Len(src2) \in {Len(src), Len(src) + 1},
         \A i \in 1 .. Len(src) : src2[i] = src[i],
         NEW open \in 1 .. Len(s) + 1, NEW b, NEW n,
         Blocks(s, src, open, b, n),
         LET last == b[Len(s)]
         IN  \/ /\ open = last
                /\ x # 0
                /\ Len(src2) = Len(src) + 1 /\ src2[Len(src2)] = x
             \/ /\ open = Len(s) + 1
                /\ s[last] = open - last
                /\ \/ s[last] = MaxCode /\ src2 = src
                   \/ /\ s[last] # MaxCode
                      /\ Len(src2) = Len(src) + 1 /\ src2[Len(src2)] = 0
  PROVE  Open(Append(s, x), src2, open)
<1> DEFINE t == Append(s, x)
           p == Len(s) + 1
           b2 == [i \in 1 .. p |-> IF i = p THEN open ELSE b[i]]
           n2 == [i \in 1 .. p |-> IF i = p THEN Len(src2) ELSE n[i]]
<1>1. /\ t \in Bodies /\ Len(s) \in Nat /\ Len(s) >= 1 /\ Len(t) = p /\ t[p] = x
      /\ \A i \in 1 .. Len(s) : t[i] = s[i]
      /\ Len(src) \in Nat /\ Len(src2) \in Nat /\ MaxCode \in Nat
  BY BodyLen, Appended, Bytes
<1>2. /\ b2[p] = open /\ n2[p] = Len(src2)
      /\ \A i \in 1 .. Len(s) : b2[i] = b[i] /\ n2[i] = n[i]
  BY <1>1
<1>3. /\ \A i \in 1 .. Len(s) : /\ b[i] \in 1 .. Len(s) /\ b[i] <= i
                                /\ n[i] \in 0 .. Len(src) /\ n[i] < i
      /\ b[1] = 1 /\ n[1] = 0 /\ n[Len(s)] = Len(src)
      /\ open \in 1 .. Len(s) => b[open] = open
  BY DEF Blocks
<1>4. b2 \in [1 .. p -> 1 .. p] /\ n2 \in [1 .. p -> 0 .. Len(src2)]
  BY <1>1, <1>3
<1> HIDE DEF t, b2, n2
<1>5. b2[1] = 1 /\ n2[1] = 0 /\ n2[p] = Len(src2) /\ b2[open] = open
  BY <1>1, <1>2, <1>3
<1>6. ASSUME NEW i \in 1 .. p
      PROVE  /\ b2[i] <= i /\ n2[i] < i
             /\ b2[i] # open => t[b2[i]] \in 1 .. MaxCode /\ i - b2[i] < t[b2[i]]
  <2>1. CASE i = p
    BY <1>1, <1>2, <1>3, <2>1
  <2>2. CASE i # p
    <3>1. i \in 1 .. Len(s)
      BY <1>1, <2>2
    <3>2. b[i] # open => s[b[i]] \in 1 .. MaxCode /\ i - b[i] < s[b[i]]
      BY <3>1 DEF Blocks
    <3> QED BY <1>1, <1>2, <1>3, <3>1, <3>2
  <2> QED BY <2>1, <2>2
<1>7. ASSUME NEW i \in 2 .. p
      PROVE  Follows(t, src2, open, b2, n2, i)
  <2>1. i - 1 \in 1 .. Len(s) /\ b2[i - 1] = b[i - 1] /\ n2[i - 1] = n[i - 1]
        /\ b[i - 1] \in 1 .. Len(s) /\ t[b[i - 1]] = s[b[i - 1]]
    BY <1>1, <1>2, <1>3
  <2>2. CASE i # p
    <3>1. i \in 1 .. Len(s) /\ i \in 2 .. Len(s)
      BY <1>1, <2>2
    <3>2. Follows(s, src, open, b, n, i)
      BY <3>1 DEF Blocks
    <3>3. b2[i] = b[i] /\ n2[i] = n[i] /\ t[i] = s[i]
      BY <1>1, <1>2, <3>1
    <3>4. n[i] = n[i - 1] + 1 => src2[n[i]] = src[n[i]]
      <4>1. n[i] \in 0 .. Len(src) /\ n[i - 1] \in 0 .. Len(src)
        BY <1>3, <2>1, <3>1
      <4>2. n[i] = n[i - 1] + 1 => n[i] \in 1 .. Len(src)
        BY <1>1, <4>1
      <4> QED BY <4>2
    <3>5. CASE /\ b[i] = b[i - 1] /\ n[i] = n[i - 1] + 1
               /\ s[i] # 0 /\ src[n[i]] = s[i]
      BY <2>1, <3>3, <3>4, <3>5 DEF Follows
    <3>6. CASE /\ b[i] = i /\ b[i - 1] # open
               /\ s[b[i - 1]] = i - b[i - 1]
               /\ \/ s[b[i - 1]] = MaxCode /\ n[i] = n[i - 1]
                  \/ /\ s[b[i - 1]] # MaxCode
                     /\ n[i] = n[i - 1] + 1 /\ src[n[i]] = 0
      BY <2>1, <3>3, <3>4, <3>6 DEF Follows
    <3> QED BY <3>2, <3>5, <3>6 DEF Follows
  <2>3. CASE i = p
    <3>1. b2[i] = open /\ n2[i] = Len(src2) /\ t[i] = x /\ i - 1 = Len(s)
      BY <1>1, <1>2, <2>3
    <3>2. n2[i - 1] = Len(src) /\ b2[i - 1] = b[Len(s)]
      BY <1>3, <2>1, <3>1
    <3>3. CASE open = b[Len(s)] /\ x # 0
               /\ Len(src2) = Len(src) + 1 /\ src2[Len(src2)] = x
      BY <3>1, <3>2, <3>3 DEF Follows
    <3>4. CASE /\ open = Len(s) + 1 /\ s[b[Len(s)]] = open - b[Len(s)]
               /\ \/ s[b[Len(s)]] = MaxCode /\ src2 = src
                  \/ /\ s[b[Len(s)]] # MaxCode
                     /\ Len(src2) = Len(src) + 1 /\ src2[Len(src2)] = 0
      <4>1. b2[i - 1] # open /\ t[b2[i - 1]] = i - b2[i - 1]
        BY <1>1, <2>1, <2>3, <3>1, <3>2, <3>4
      <4>2. t[b2[i - 1]] = s[b[Len(s)]] /\ b2[i] = i
        BY <2>1, <2>3, <3>1, <3>2, <3>4
      <4> QED BY <3>1, <3>2, <3>4, <4>1, <4>2 DEF Follows
    <3> QED BY <3>3, <3>4
  <2> QED BY <2>2, <2>3
<1>8. Blocks(t, src2, open, b2, n2)
  BY <1>1, <1>4, <1>5, <1>6, <1>7 DEF Blocks
<1>9. b2[Len(t)] = open
  BY <1>1, <1>2
<1>10. Open(t, src2, open)
  BY <1>8, <1>9 DEF Open
<1> QED BY <1>10 DEF t

\* A nonzero source byte goes to the open block.
LEMMA AddByte ==
  ASSUME NEW s \in Bodies, NEW src \in Seq(Byte), NEW x \in Byte \ {0},
         NEW open \in 1 .. Len(s), Open(s, src, open)
  PROVE  Open(Append(s, x), Append(src, x), open)
<1>1. PICK b, n : Blocks(s, src, open, b, n) /\ b[Len(s)] = open
  BY DEF Open
<1>2. /\ Append(src, x) \in Seq(Byte) /\ Len(Append(src, x)) = Len(src) + 1
      /\ Append(src, x)[Len(src) + 1] = x
      /\ \A i \in 1 .. Len(src) : Append(src, x)[i] = src[i]
  BY Appended DEF Bodies
<1>3. open \in 1 .. Len(s) + 1
  BY BodyLen
<1> QED BY <1>1, <1>2, <1>3, Extend

\* After the last block the next one begins, with a code that is not known
\* yet; a source byte of zero lies between them, unless the last is full.
LEMMA AddCode ==
  ASSUME NEW s \in Bodies, NEW src \in Seq(Byte), NEW c \in 1 .. MaxCode,
         Whole(s, src, c)
  PROVE  /\ c = MaxCode => Open(Append(s, 0), src, Len(s) + 1)
         /\ c # MaxCode => Open(Append(s, 0), Append(src, 0), Len(s) + 1)
<1>1. PICK b, n : Blocks(s, src, Len(s) + 1, b, n) /\ EndsWith(s, b, c)
  BY DEF Whole
<1>2. Len(s) \in Nat /\ 0 \in Byte /\ Len(s) + 1 \in 1 .. Len(s) + 1
  BY BodyLen, Bytes
<1>3. s[b[Len(s)]] = c /\ c = (Len(s) + 1) - b[Len(s)]
  <2>1. b[Len(s)] \in Nat
    BY <1>1, BodyLen DEF Blocks
  <2> QED BY <1>1, <1>2, <2>1, Bytes DEF EndsWith
<1>4. CASE c = MaxCode
  BY <1>1, <1>2, <1>3, <1>4, Extend
<1>5. CASE c # MaxCode
  <2>1. /\ Append(src, 0) \in Seq(Byte) /\ Len(Append(src, 0)) = Len(src) + 1
        /\ Append(src, 0)[Len(src) + 1] = 0
        /\ \A i \in 1 .. Len(src) : Append(src, 0)[i] = src[i]
    BY <1>2, Appended DEF Bodies
  <2> QED BY <1>1, <1>2, <1>3, <1>5, <2>1, Extend
<1> QED BY <1>4, <1>5

-----------------------------------------------------------------------------
(* The inductive invariant *)

\* While it encodes, the body written so far stands for the source so far; a
\* full block is complete, and the next begins with the next byte.
Encoding ==
  phase = "encode" =>
    /\ InitDecoder
    /\ body \in Bodies
    /\ IF needs_code_placeholder THEN code = 1 /\ Whole(body, source, MaxCode)
       ELSE code_idx > 0 /\ Open(body, source, code_idx)

\* Full blocks that were followed by another byte.
FullBlocks == Len(body) - Len(source) - 1

\* The body is no longer than its full blocks make it, and fits.
Room ==
  /\ RoomSuffices
  /\ phase = "encode" =>
       /\ Len(body) < capacity
       /\ FullBlocks \in Nat
       /\ Len(source) = 0 => FullBlocks = 0
       /\ Len(source) > 0 => FullBlocks * BlockLen < Len(source)
       /\ IF needs_code_placeholder
          THEN (FullBlocks + 1) * BlockLen <= Len(source)
          ELSE FullBlocks * BlockLen + code - 1 <= Len(source)

\* Where the decoder is in the blocks of the body.
Decoder(b, n) ==
  IF phase = "done" THEN result = "Ok" /\ decoded = source /\ idx = Len(frame)
  ELSE /\ idx <= Len(body) + 1
       /\ started <=> idx > 1
       /\ idx <= 1 => /\ next_sentinel_idx = 0
                      /\ ~ current_block_is_full
                      /\ decoded = <<>>
       /\ idx > 1 =>
            LET i == idx - 1
            IN  /\ next_sentinel_idx = body[b[i]] - (i - b[i])
                /\ current_block_is_full <=> body[b[i]] = MaxCode
                /\ Len(decoded) = n[i]
                /\ \A k \in 1 .. n[i] : decoded[k] = source[k]

\* The decoder was given the body between its delimiters, of which every block
\* is complete, and a destination as long as the frame was allowed to be.
Decoding ==
  phase \in {"decode", "done"} /\ body # <<>> =>
    /\ frame = <<0>> \o body \o <<0>>
    /\ Len(body) < capacity - 1
    /\ \E b, n : /\ Blocks(body, source, Len(body) + 1, b, n)
                 /\ EndsWith(body, b, body[b[Len(body)]])
                 /\ Decoder(b, n)

IInv == CodecTypeOK /\ Encoding /\ Room /\ Decoding

\* One position is a body whose only block is open and empty.
LEMMA FirstCode == <<0>> \in Bodies /\ Len(<<0>>) = 1 /\ Open(<<0>>, <<>>, 1)
<1> DEFINE b == [i \in 1 .. 1 |-> 1]
           n == [i \in 1 .. 1 |-> 0]
<1>1. <<0>> \in Seq(Byte) /\ Len(<<0>>) = 1 /\ Len(<<>>) = 0
  BY Bytes
<1>2. b \in [1 .. 1 -> 1 .. 1] /\ n \in [1 .. 1 -> 0 .. 0] /\ b[1] = 1 /\ n[1] = 0
  OBVIOUS
<1> HIDE DEF b, n
<1>3. Blocks(<<0>>, <<>>, 1, b, n)
  BY <1>1, <1>2 DEF Blocks
<1> QED BY <1>1, <1>2, <1>3 DEF Open, Bodies

LEMMA InitIInv == Init \/ DecodeInit => IInv
<1>0. <<>> \in Seq(Byte) /\ Len(<<>>) = 0 /\ 1 \in 1 .. BlockLen /\ 0 \in Byte
  BY Bytes DEF BlockLen
<1>1. ASSUME Init PROVE IInv
  <2>1. /\ capacity \in Nat /\ source = <<>> /\ Len(<<>>) = 0
        /\ phase \in {"OutOfBounds", "encode"}
        /\ phase = "OutOfBounds" => capacity < 2
        /\ phase = "encode" => capacity >= 2
    BY <1>1, CapacitiesAssumption DEF Init
  <2>2. CodecTypeOK
    <3>1. body = <<0>> /\ <<0>> \in Seq(Byte) /\ Len(<<0>>) = 1
      BY <1>1, FirstCode DEF Init, Bodies
    <3>2. /\ code = 1 /\ code_idx = 1 /\ ~ needs_code_placeholder
          /\ frame = <<>> /\ idx = 0 /\ ~ started /\ next_sentinel_idx = 0
          /\ ~ current_block_is_full /\ decoded = <<>> /\ result = "None"
          /\ {needs_code_placeholder, started, current_block_is_full} \subseteq BOOLEAN
      BY <1>1 DEF Init, InitDecoder
    <3> QED BY <1>0, <2>1, <3>1, <3>2 DEF CodecTypeOK, Results
  <2>3. Encoding
    BY <1>1, FirstCode DEF Init, Encoding
  <2>4. Room
    <3>1. FullBlocks = 0 /\ 0 * BlockLen = 0 /\ max_encoding_length(0) = 1
      BY <1>1, <2>1, FirstCode, Bytes
      DEF Init, FullBlocks, BlockLen, max_encoding_length, max_encoding_overhead
    <3> QED BY <1>1, <2>1, <3>1, FirstCode DEF Init, Room, RoomSuffices
  <2>5. Decoding
    BY <2>1 DEF Decoding
  <2> QED BY <2>2, <2>3, <2>4, <2>5 DEF IInv
<1>2. ASSUME DecodeInit PROVE IInv
  <2>1. /\ capacity \in Nat /\ source = <<>> /\ body = <<>> /\ Len(<<>>) = 0
        /\ phase = "decode"
    BY <1>2, CapacitiesAssumption DEF DecodeInit
  <2>2. frame \in Seq(Byte)
    BY <1>2, CapacitiesAssumption DEF DecodeInit
  <2>3. CodecTypeOK
    <3>1. /\ code = 1 /\ code_idx = 0 /\ ~ needs_code_placeholder
          /\ idx = 0 /\ ~ started /\ next_sentinel_idx = 0
          /\ ~ current_block_is_full /\ decoded = <<>> /\ result = "None"
          /\ {needs_code_placeholder, started, current_block_is_full} \subseteq BOOLEAN
      BY <1>2 DEF DecodeInit, InitDecoder
    <3>2. Len(frame) \in Nat
      BY <2>2
    <3> QED BY <1>0, <2>1, <2>2, <3>1, <3>2 DEF CodecTypeOK, Results
  <2>4. Encoding /\ Room /\ Decoding
    BY <2>1 DEF Encoding, Room, RoomSuffices, Decoding
  <2> QED BY <2>3, <2>4 DEF IInv
<1> QED BY <1>1, <1>2

-----------------------------------------------------------------------------
(* The encoder *)

LEMMA Multiples ==
  /\ BlockLen \in Nat /\ BlockLen >= 1 /\ BlockLen = MaxCode - 1
  /\ \A k \in Nat : /\ k * BlockLen \in Nat /\ k * BlockLen >= k
                    /\ (k + 1) * BlockLen = k * BlockLen + BlockLen
<1>1. BlockLen \in Nat /\ BlockLen >= 1 /\ BlockLen = MaxCode - 1
  BY Bytes DEF BlockLen
<1> HIDE DEF BlockLen
<1> QED BY <1>1

\* The overhead of m bytes covers more blocks than the m bytes can fill.
LEMMA Overhead ==
  ASSUME NEW k \in Nat, NEW m \in Nat, m > 0, k * BlockLen < m
  PROVE  max_encoding_overhead(m) \in Nat /\ k < max_encoding_overhead(m)
<1> DEFINE q == (m + BlockLen - 1) \div BlockLen
           a == m + BlockLen - 1
<1>1. BlockLen \in Nat /\ BlockLen >= 1
  BY Multiples
<1> HIDE DEF BlockLen
<1>2. a \in Nat /\ (k + 1) * BlockLen <= a
  BY <1>1
<1>3. q = a \div BlockLen
  OBVIOUS
<1> HIDE DEF a, q
<1>4. q \in Nat /\ a < (q + 1) * BlockLen
  BY <1>1, <1>2, <1>3
<1>5. k < q
  <2>1. ASSUME q <= k PROVE FALSE
    <3>1. PICK d \in Nat : k = q + d
      <4>1. k - q \in Nat /\ k = q + (k - q)
        BY <1>4, <2>1
      <4> QED BY <4>1
    <3>2. (k + 1) * BlockLen = (q + 1) * BlockLen + d * BlockLen
      BY <1>1, <1>4, <3>1
    <3>3. d * BlockLen >= 0 /\ (q + 1) * BlockLen \in Nat
      BY <1>1, <1>4
    <3> QED BY <1>1, <1>2, <1>4, <3>2, <3>3
  <2> QED BY <1>4, <2>1
<1>6. max_encoding_overhead(m) = q
  BY DEF max_encoding_overhead, q
<1> QED BY <1>4, <1>5, <1>6

\* The next byte finds an open block.
LEMMA OpenedIs ==
  ASSUME IInv, phase = "encode"
  PROVE  /\ Opened \in Bodies
         /\ code_idx \in 1 .. Len(Opened)
         /\ code_idx + code = Len(Opened) + 1
         /\ Open(Opened, source, code_idx)
         /\ Len(Opened) - Len(source) - 1 \in Nat
         /\ (Len(Opened) - Len(source) - 1) * BlockLen + code - 1 <= Len(source)
<1>1. /\ body \in Bodies /\ source \in Seq(Byte) /\ Len(source) \in Nat
      /\ Len(body) \in Nat /\ Len(body) >= 1
      /\ code \in 1 .. BlockLen /\ BlockLen \in Nat /\ FullBlocks \in Nat
  BY BodyLen, Multiples DEF IInv, CodecTypeOK, Encoding, Room
<1>2. CASE needs_code_placeholder
  <2>1. /\ Opened = Append(body, 0) /\ code = 1 /\ code_idx = Len(body) + 1
        /\ Whole(body, source, MaxCode)
        /\ (FullBlocks + 1) * BlockLen <= Len(source)
    BY <1>2 DEF Opened, IInv, CodecTypeOK, Encoding, Room
  <2>2. Opened \in Bodies /\ Len(Opened) = Len(body) + 1
    BY <1>1, <2>1, Appended, Bytes DEF Bodies
  <2>3. Open(Opened, source, code_idx)
    BY <1>1, <2>1, AddCode, Bytes
  <2>4. Len(Opened) - Len(source) - 1 = FullBlocks + 1
    BY <1>1, <2>2 DEF FullBlocks
  <2>5. (Len(Opened) - Len(source) - 1) * BlockLen + code - 1 <= Len(source)
    <3> DEFINE k == Len(Opened) - Len(source) - 1
               j == FullBlocks + 1
    <3>1. k = j /\ j * BlockLen <= Len(source) /\ j \in Nat
      BY <1>1, <2>1, <2>4
    <3> HIDE DEF k, j
    <3>2. j * BlockLen \in Nat
      BY <1>1, <3>1, Multiples
    <3>3. k * BlockLen + code - 1 <= Len(source)
      BY <1>1, <2>1, <3>1, <3>2
    <3> QED BY <3>3 DEF k
  <2>6. code_idx \in 1 .. Len(Opened) /\ code_idx + code = Len(Opened) + 1
    BY <1>1, <2>1, <2>2
  <2> QED BY <1>1, <2>2, <2>3, <2>4, <2>5, <2>6
<1>3. CASE ~ needs_code_placeholder
  <2>1. /\ Opened = body /\ code_idx = Len(body) + 1 - code /\ code_idx > 0
        /\ Open(body, source, code_idx)
        /\ FullBlocks * BlockLen + code - 1 <= Len(source)
    BY <1>3 DEF Opened, IInv, CodecTypeOK, Encoding, Room
  <2>2. Len(Opened) - Len(source) - 1 = FullBlocks
    BY <2>1 DEF FullBlocks
  <2>3. (Len(Opened) - Len(source) - 1) * BlockLen + code - 1 <= Len(source)
    BY <2>1, <2>2
  <2>4. code_idx \in 1 .. Len(Opened) /\ code_idx + code = Len(Opened) + 1
    BY <1>1, <2>1
  <2> QED BY <1>1, <2>1, <2>2, <2>3, <2>4
<1> QED BY <1>2, <1>3

\* What a step of the encoder writes is again the body of its source, with k
\* full blocks that are not the last.
LEMMA EncodedIs ==
  ASSUME IInv, phase = "encode", EncodeKeeps, NEW bytes \in Bodies, Encoded(bytes),
         NEW byte \in Byte, source' = Append(source, byte),
         code' \in 1 .. BlockLen, needs_code_placeholder' \in BOOLEAN,
         NEW k \in Nat, Len(bytes) = Len(source) + k + 2,
         k * BlockLen < Len(source) + 1,
         IF needs_code_placeholder'
         THEN /\ code' = 1 /\ code_idx' = Len(bytes) + 1
              /\ Whole(bytes, Append(source, byte), MaxCode)
              /\ (k + 1) * BlockLen <= Len(source) + 1
         ELSE /\ code_idx' = Len(bytes) + 1 - code' /\ code_idx' > 0
              /\ Open(bytes, Append(source, byte), code_idx')
              /\ k * BlockLen + code' - 1 <= Len(source) + 1
  PROVE  IInv'
<1>1. /\ source' \in Seq(Byte) /\ Len(source') = Len(source) + 1
      /\ Len(source) \in Nat /\ capacity \in Nat
      /\ bytes \in Seq(Byte) /\ Len(bytes) \in Nat /\ BlockLen \in Nat
  BY Appended, BodyLen, Multiples DEF IInv, CodecTypeOK, Bodies
<1>2. /\ body' = bytes /\ capacity' = capacity
      /\ phase' = IF Len(bytes) <= capacity - 1 THEN "encode" ELSE "OutOfBounds"
  BY DEF Encoded, EncodeKeeps
<1>3. FullBlocks' = k
  BY <1>1, <1>2 DEF FullBlocks
<1>4. CodecTypeOK'
  BY <1>1, <1>2 DEF IInv, CodecTypeOK, EncodeKeeps, decodeVars
<1>5. Encoding'
  BY <1>2 DEF IInv, Encoding, InitDecoder, EncodeKeeps, decodeVars
<1>6. max_encoding_overhead(Len(source) + 1) \in Nat
      /\ k < max_encoding_overhead(Len(source) + 1)
  BY <1>1, Overhead
<1>7. RoomSuffices'
  <2> SUFFICES ASSUME phase' = "OutOfBounds"
               PROVE  capacity < max_encoding_length(Len(source) + 1) + 2
    BY <1>1, <1>2 DEF RoomSuffices
  <2>1. capacity <= Len(source) + k + 2
    BY <1>1, <1>2
  <2> DEFINE m == Len(source) + 1
             o == max_encoding_overhead(m)
  <2>2. max_encoding_length(m) = m + o
    BY DEF max_encoding_length
  <2>3. o \in Nat /\ k < o /\ m \in Nat /\ capacity < m + k + 2
    BY <1>1, <1>6, <2>1
  <2> HIDE DEF m, o
  <2>4. capacity < max_encoding_length(m) + 2
    BY <1>1, <2>2, <2>3
  <2> QED BY <2>4 DEF m
<1>8. Room'
  <2> SUFFICES ASSUME phase' = "encode"
               PROVE  /\ Len(bytes) < capacity
                      /\ Len(source) + 1 # 0
                      /\ IF needs_code_placeholder'
                         THEN (k + 1) * BlockLen <= Len(source) + 1
                         ELSE k * BlockLen + code' - 1 <= Len(source) + 1
    BY <1>1, <1>2, <1>3, <1>7 DEF Room
  <2> QED BY <1>1, <1>2
<1>9. Decoding'
  BY <1>2 DEF Decoding
<1> QED BY <1>4, <1>5, <1>8, <1>9 DEF IInv

LEMMA EncodeZeroKeeps == ASSUME IInv, EncodeZero PROVE IInv'
<1> DEFINE t == [Opened EXCEPT ![code_idx] = code]
           k == Len(Opened) - Len(source) - 1
<1>1. /\ Opened \in Bodies /\ code_idx \in 1 .. Len(Opened)
      /\ code_idx + code = Len(Opened) + 1
      /\ Open(Opened, source, code_idx)
      /\ k \in Nat /\ k * BlockLen + code - 1 <= Len(source)
  BY OpenedIs DEF EncodeZero
<1>2. /\ source \in Seq(Byte) /\ Len(source) \in Nat
      /\ code \in 1 .. BlockLen /\ code \in 1 .. MaxCode /\ code # MaxCode
      /\ Len(Opened) \in Nat /\ 0 \in Byte
  BY <1>1, BodyLen, Multiples, Bytes DEF IInv, CodecTypeOK
<1>3. /\ t \in Bodies /\ Len(t) = Len(Opened) /\ Whole(t, source, code)
  BY <1>1, <1>2, Close
<1>4. /\ EncodeKeeps /\ Encoded(Append(t, 0)) /\ source' = Append(source, 0)
      /\ code_idx' = Len(Opened) + 1 /\ code' = 1 /\ ~ needs_code_placeholder'
      /\ needs_code_placeholder' \in BOOLEAN
  BY DEF EncodeZero
<1> HIDE DEF t
<1>5. Open(Append(t, 0), Append(source, 0), Len(t) + 1)
  BY <1>2, <1>3, AddCode
<1>6. Append(t, 0) \in Bodies /\ Len(Append(t, 0)) = Len(Opened) + 1
  BY <1>2, <1>3, Appended DEF Bodies
<1>7. Len(Append(t, 0)) = Len(source) + k + 2
  BY <1>2, <1>6
<1> HIDE DEF k
<1>8. k * BlockLen \in Nat /\ BlockLen \in Nat /\ BlockLen >= 1
  BY <1>1, Multiples
<1>9. k * BlockLen < Len(source) + 1 /\ k * BlockLen + code' - 1 <= Len(source) + 1
  BY <1>1, <1>2, <1>4, <1>8
<1>10. /\ code' \in 1 .. BlockLen
       /\ code_idx' = Len(Append(t, 0)) + 1 - code' /\ code_idx' > 0
       /\ Open(Append(t, 0), Append(source, 0), code_idx')
  BY <1>2, <1>3, <1>4, <1>5, <1>6, <1>8
<1> QED BY <1>1, <1>2, <1>4, <1>6, <1>7, <1>9, <1>10, EncodedIs DEF EncodeZero

LEMMA EncodeByteKeeps ==
  ASSUME IInv, NEW byte \in Byte \ {0}, EncodeByte(byte) PROVE IInv'
<1> DEFINE t == Append(Opened, byte)
           k == Len(Opened) - Len(source) - 1
<1>1. /\ Opened \in Bodies /\ code_idx \in 1 .. Len(Opened)
      /\ code_idx + code = Len(Opened) + 1
      /\ Open(Opened, source, code_idx)
      /\ k \in Nat /\ k * BlockLen + code - 1 <= Len(source)
  BY OpenedIs DEF EncodeByte
<1>2. /\ source \in Seq(Byte) /\ Len(source) \in Nat
      /\ code \in 1 .. BlockLen /\ code + 1 # MaxCode /\ Len(Opened) \in Nat
  BY <1>1, BodyLen DEF IInv, CodecTypeOK, EncodeByte, BlockFull
<1>3. code + 1 \in 1 .. BlockLen
  BY <1>2, Multiples, Bytes
<1>4. /\ EncodeKeeps /\ Encoded(t) /\ source' = Append(source, byte)
      /\ code_idx' = code_idx /\ code' = code + 1 /\ ~ needs_code_placeholder'
      /\ needs_code_placeholder' \in BOOLEAN
  BY DEF EncodeByte
<1>5. Open(t, Append(source, byte), code_idx)
  BY <1>1, <1>2, AddByte
<1>6. t \in Bodies /\ Len(t) = Len(Opened) + 1
  BY <1>1, Appended DEF Bodies
<1> HIDE DEF t
<1>7. /\ Len(t) = Len(source) + k + 2
      /\ code_idx' = Len(t) + 1 - code' /\ code_idx' > 0
  BY <1>1, <1>2, <1>4, <1>6
<1> HIDE DEF k
<1>8. k * BlockLen \in Nat /\ BlockLen \in Nat
  BY <1>1, Multiples
<1>9. k * BlockLen < Len(source) + 1 /\ k * BlockLen + code' - 1 <= Len(source) + 1
  BY <1>1, <1>2, <1>4, <1>8
<1>10. code' \in 1 .. BlockLen /\ Open(t, Append(source, byte), code_idx')
  BY <1>3, <1>4, <1>5
<1> QED BY <1>1, <1>4, <1>6, <1>7, <1>9, <1>10, EncodedIs DEF EncodeByte

LEMMA EncodeFullKeeps ==
  ASSUME IInv, NEW byte \in Byte \ {0}, EncodeFull(byte) PROVE IInv'
<1> DEFINE u == Append(Opened, byte)
           t == [u EXCEPT ![code_idx] = code + 1]
           k == Len(Opened) - Len(source) - 1
<1>1. /\ Opened \in Bodies /\ code_idx \in 1 .. Len(Opened)
      /\ code_idx + code = Len(Opened) + 1
      /\ Open(Opened, source, code_idx)
  BY OpenedIs DEF EncodeFull
<1>0. k \in Nat /\ k * BlockLen + code - 1 <= Len(source)
  BY OpenedIs DEF EncodeFull
<1> HIDE DEF k
<1>2. /\ source \in Seq(Byte) /\ Len(source) \in Nat
      /\ code \in Nat /\ code + 1 = MaxCode
      /\ code + 1 \in 1 .. MaxCode /\ code + 1 \in Byte
      /\ Len(Opened) \in Nat /\ Opened \in Seq(Byte)
      /\ byte \in Byte
  <2>1. code \in Nat /\ code + 1 = MaxCode /\ MaxCode >= 2 /\ MaxCode \in Nat
    BY Multiples, Bytes DEF IInv, CodecTypeOK, EncodeFull, BlockFull
  <2>2. code + 1 \in 1 .. MaxCode /\ code + 1 \in Byte
    BY <2>1, Bytes
  <2> QED BY <1>1, <2>1, <2>2, BodyLen DEF IInv, CodecTypeOK
<1>3. Append(source, byte) \in Seq(Byte)
  BY <1>2, Appended DEF Bodies
<1>4. Open(u, Append(source, byte), code_idx)
  BY <1>1, <1>2, AddByte
<1>5. u \in Bodies /\ Len(u) = Len(Opened) + 1
  BY <1>1, Appended DEF Bodies
<1>6. code_idx \in 1 .. Len(u) /\ code_idx + (code + 1) = Len(u) + 1
  BY <1>1, <1>2, <1>5
<1>7. t \in Bodies /\ Len(t) = Len(u) /\ Whole(t, Append(source, byte), code + 1)
  <2> HIDE DEF u
  <2> DEFINE c == code + 1
  <2>1. c \in 1 .. MaxCode /\ code_idx + c = Len(u) + 1
    BY <1>2, <1>6
  <2> HIDE DEF c
  <2>2. /\ [u EXCEPT ![code_idx] = c] \in Bodies
        /\ Len([u EXCEPT ![code_idx] = c]) = Len(u)
        /\ Whole([u EXCEPT ![code_idx] = c], Append(source, byte), c)
    BY <1>3, <1>4, <1>5, <1>6, <2>1, Close
  <2> QED BY <2>2 DEF c
\* The code is written before the byte, at another position.
<1>8. Append([Opened EXCEPT ![code_idx] = code + 1], byte) = t
  <2> DEFINE v == [Opened EXCEPT ![code_idx] = code + 1]
  <2>1. /\ v \in Seq(Byte) /\ Len(v) = Len(Opened)
        /\ \A j \in 1 .. Len(Opened) :
             v[j] = IF j = code_idx THEN code + 1 ELSE Opened[j]
    BY <1>1, <1>2, ExceptSeq
  <2>2. /\ t \in Seq(Byte)
        /\ \A j \in 1 .. Len(u) : t[j] = IF j = code_idx THEN code + 1 ELSE u[j]
    <3>1. u \in Seq(Byte)
      BY <1>5 DEF Bodies
    <3> HIDE DEF u
    <3> QED BY <1>2, <1>6, <3>1, ExceptSeq
  <2>3. /\ \A j \in 1 .. Len(Opened) : u[j] = Opened[j]
        /\ u[Len(Opened) + 1] = byte
    BY <1>2, Appended
  <2> HIDE DEF v
  <2>4. /\ Append(v, byte) \in Seq(Byte) /\ Len(Append(v, byte)) = Len(u)
        /\ \A j \in 1 .. Len(Opened) : Append(v, byte)[j] = v[j]
        /\ Append(v, byte)[Len(Opened) + 1] = byte
    BY <1>5, <2>1, Appended DEF Bodies
  <2> HIDE DEF t, u
  <2>5. ASSUME NEW j \in 1 .. Len(u) PROVE Append(v, byte)[j] = t[j]
    <3>1. CASE j = Len(Opened) + 1
      BY <1>1, <1>2, <1>5, <2>2, <2>3, <2>4, <3>1
    <3>2. CASE j # Len(Opened) + 1
      <4>1. j \in 1 .. Len(Opened)
        BY <1>2, <1>5, <3>2
      <4> QED BY <1>2, <1>5, <2>1, <2>2, <2>3, <2>4, <4>1
    <3> QED BY <3>1, <3>2
  <2>6. Append(v, byte) = t
    BY <1>7, <2>2, <2>4, <2>5, SeqEqual
  <2> QED BY <2>6 DEF v
<1>9. /\ EncodeKeeps /\ Encoded(t) /\ source' = Append(source, byte)
      /\ code_idx' = Len(t) + 1 /\ code' = 1 /\ needs_code_placeholder'
      /\ needs_code_placeholder' \in BOOLEAN
  <2>1. Len(t) + 1 = Len(Opened) + 2
    BY <1>2, <1>5, <1>7
  <2> HIDE DEF t, u
  <2> QED BY <1>8, <2>1 DEF EncodeFull
<1> HIDE DEF t, u
<1>10. Len(t) = Len(source) + k + 2
  BY <1>2, <1>5, <1>7 DEF k
<1>11. /\ k * BlockLen \in Nat /\ BlockLen = MaxCode - 1
       /\ (k + 1) * BlockLen = k * BlockLen + BlockLen
       /\ BlockLen \in Nat /\ 1 \in 1 .. BlockLen
  BY <1>0, Multiples
<1>12. /\ k * BlockLen < Len(source) + 1
       /\ (k + 1) * BlockLen <= Len(source) + 1
  <2> DEFINE m == k * BlockLen
  <2>1. m \in Nat /\ m + code - 1 <= Len(source) /\ code >= 1
    BY <1>0, <1>11 DEF IInv, CodecTypeOK
  <2>2. (k + 1) * BlockLen = m + BlockLen
    BY <1>11
  <2> HIDE DEF m
  <2>3. m < Len(source) + 1 /\ m + BlockLen <= Len(source) + 1
    BY <1>2, <1>11, <2>1, Bytes
  <2> QED BY <2>2, <2>3 DEF m
<1>13. Whole(t, Append(source, byte), MaxCode)
  BY <1>2, <1>7
<1> QED BY <1>0, <1>2, <1>7, <1>9, <1>10, <1>11, <1>12, <1>13, EncodedIs DEF EncodeFull

\* The encoder closes the frame, which the decoder is then given.
LEMMA EncodeEndKeeps == ASSUME IInv, EncodeEnd PROVE IInv'
<1>1. /\ body \in Bodies /\ Len(body) \in Nat /\ source \in Seq(Byte)
      /\ Len(source) \in Nat /\ capacity \in Nat /\ InitDecoder
      /\ code \in 1 .. BlockLen /\ code \in 1 .. MaxCode
  BY BodyLen, Multiples, Bytes DEF EncodeEnd, IInv, Encoding, CodecTypeOK
<1>2. /\ Closed \in Bodies /\ Len(Closed) = Len(body)
      /\ \E c \in 1 .. MaxCode : Whole(Closed, source, c)
  <2>1. CASE needs_code_placeholder
    BY <1>1, <2>1, Bytes DEF Closed, EncodeEnd, IInv, Encoding
  <2>2. CASE ~ needs_code_placeholder
    <3>1. /\ code_idx \in 1 .. Len(body) /\ code_idx + code = Len(body) + 1
          /\ Open(body, source, code_idx)
      BY <1>1, <2>2 DEF EncodeEnd, IInv, Encoding, CodecTypeOK
    <3> QED BY <1>1, <2>2, <3>1, Close DEF Closed
  <2> QED BY <2>1, <2>2
<1>3. PICK c \in 1 .. MaxCode : Whole(Closed, source, c)
  BY <1>2
<1>4. PICK b, n : Blocks(Closed, source, Len(Closed) + 1, b, n)
                  /\ EndsWith(Closed, b, c)
  BY <1>3 DEF Whole
<1>5. /\ body' = Closed /\ capacity' = capacity /\ source' = source
      /\ code' = code /\ code_idx' = code_idx
      /\ needs_code_placeholder' = needs_code_placeholder
      /\ UNCHANGED decodeVars
  BY DEF EncodeEnd
<1>6. phase' \in {"decode", "OutOfBounds"}
  BY DEF EncodeEnd
<1>7. phase' = "decode" => /\ Len(body) < capacity - 1
                           /\ frame' = <<0>> \o Closed \o <<0>>
  BY DEF EncodeEnd
<1>8. phase' = "OutOfBounds" => Len(body) >= capacity - 1 /\ frame' = frame
  BY <1>1 DEF EncodeEnd
<1>9. CodecTypeOK'
  <2>1. frame' \in Seq(Byte) /\ Len(frame') \in Nat
    <3>1. <<0>> \in Seq(Byte) /\ Closed \in Seq(Byte) /\ frame \in Seq(Byte)
      BY <1>2, Bytes DEF Bodies, IInv, CodecTypeOK
    <3>2. <<0>> \o Closed \o <<0>> \in Seq(Byte)
      BY <3>1
    <3>3. frame' \in Seq(Byte)
      BY <1>6, <1>7, <1>8, <3>1, <3>2
    <3> QED BY <3>3
  <2>2. body' \in Seq(Byte) /\ Len(body') = Len(body)
    BY <1>2, <1>5 DEF Bodies
  <2>3. idx' = 0 /\ idx' \in 0 .. Len(frame')
    BY <1>1, <1>5, <2>1 DEF InitDecoder, decodeVars
  <2> QED BY <1>5, <1>6, <2>1, <2>2, <2>3 DEF IInv, CodecTypeOK, decodeVars
<1>10. Encoding'
  BY <1>6 DEF Encoding
<1>11. Room'
  <2>1. ASSUME phase' = "OutOfBounds"
        PROVE  capacity < max_encoding_length(Len(source)) + 2
    <3>1. Len(body) >= capacity - 1 /\ Len(body) = Len(source) + FullBlocks + 1
      BY <1>1, <1>8, <2>1 DEF FullBlocks
    <3>2. FullBlocks \in Nat
      BY DEF EncodeEnd, IInv, Room
    <3>3. CASE Len(source) = 0
      <4>1. FullBlocks = 0 /\ max_encoding_length(0) = 1
        BY <3>3
        DEF EncodeEnd, IInv, Room, max_encoding_length, max_encoding_overhead
      <4> QED BY <1>1, <3>1, <3>3, <4>1
    <3>4. CASE Len(source) > 0
      <4>1. FullBlocks * BlockLen < Len(source)
        BY <3>4 DEF EncodeEnd, IInv, Room
      <4>2. /\ max_encoding_overhead(Len(source)) \in Nat
            /\ FullBlocks < max_encoding_overhead(Len(source))
        BY <1>1, <3>2, <3>4, <4>1, Overhead
      <4> HIDE DEF max_encoding_overhead, FullBlocks
      <4> QED BY <1>1, <3>1, <3>2, <4>2 DEF max_encoding_length
    <3> QED BY <1>1, <3>3, <3>4
  <2> QED BY <1>5, <1>6, <2>1 DEF Room, RoomSuffices
<1>12. Decoding'
  <2> SUFFICES ASSUME phase' = "decode"
               PROVE  /\ frame' = <<0>> \o body' \o <<0>>
                      /\ Len(body') < capacity' - 1
                      /\ Blocks(body', source', Len(body') + 1, b, n)
                      /\ EndsWith(body', b, body'[b[Len(body')]])
                      /\ Decoder(b, n)'
    BY <1>6 DEF Decoding
  <2>1. Decoder(b, n)'
    BY <1>1, <1>2, <1>5 DEF Decoder, InitDecoder, decodeVars
  <2> QED BY <1>2, <1>4, <1>5, <1>7, <2>1 DEF EndsWith
<1> QED BY <1>9, <1>10, <1>11, <1>12 DEF IInv

-----------------------------------------------------------------------------
(* The decoder *)

\* No byte of a complete body is a zero.
LEMMA NoZero ==
  ASSUME NEW s \in Bodies, NEW src, NEW b, NEW n,
         Blocks(s, src, Len(s) + 1, b, n), NEW i \in 1 .. Len(s)
  PROVE  s[i] # 0
<1>1. Len(s) \in Nat /\ MaxCode \in Nat
  BY BodyLen, Bytes
<1>2. b[i] \in 1 .. Len(s) /\ s[b[i]] \in 1 .. MaxCode
  BY <1>1 DEF Blocks
<1>3. CASE i = 1
  BY <1>1, <1>2, <1>3 DEF Blocks
<1>4. CASE i # 1
  <2>1. i \in 2 .. Len(s)
    BY <1>1, <1>4
  <2>2. Follows(s, src, Len(s) + 1, b, n, i)
    BY <2>1 DEF Blocks
  <2> QED BY <1>1, <1>2, <2>2 DEF Follows
<1> QED BY <1>3, <1>4

\* The bytes the decoder is given for a body.
LEMMA FrameBytes ==
  ASSUME NEW s \in Bodies
  PROVE  LET f == <<0>> \o s \o <<0>>
         IN  /\ f \in Seq(Byte) /\ Len(f) = Len(s) + 2
             /\ f[1] = 0 /\ f[Len(s) + 2] = 0
             /\ \A i \in 1 .. Len(s) : f[i + 1] = s[i]
<1> DEFINE z == <<0>>
           f == z \o s \o z
<1>1. s \in Seq(Byte) /\ z \in Seq(Byte) /\ Len(z) = 1 /\ z[1] = 0 /\ Len(s) \in Nat
  BY BodyLen, Bytes
<1> HIDE DEF z
<1>2. /\ z \o s \in Seq(Byte) /\ Len(z \o s) = Len(s) + 1
      /\ \A i \in 1 .. Len(s) + 1 : (z \o s)[i] = IF i <= 1 THEN z[i] ELSE s[i - 1]
  <2>1. /\ z \o s \in Seq(Byte) /\ Len(z \o s) = Len(z) + Len(s)
        /\ \A i \in 1 .. Len(z) + Len(s) :
             (z \o s)[i] = IF i <= Len(z) THEN z[i] ELSE s[i - Len(z)]
    BY <1>1, ConcatProperties
  <2> QED BY <1>1, <2>1
<1>3. /\ f \in Seq(Byte) /\ Len(f) = Len(s) + 2
      /\ \A i \in 1 .. Len(s) + 2 :
           f[i] = IF i <= Len(s) + 1 THEN (z \o s)[i] ELSE z[i - (Len(s) + 1)]
  BY <1>1, <1>2, ConcatProperties
<1> HIDE DEF f
<1>4. f[1] = 0 /\ f[Len(s) + 2] = 0
  BY <1>1, <1>2, <1>3
<1>5. ASSUME NEW i \in 1 .. Len(s) PROVE f[i + 1] = s[i]
  <2>1. i + 1 \in 1 .. Len(s) + 1 /\ (i + 1) - 1 = i /\ ~ (i + 1 <= 1)
    BY <1>1
  <2>2. f[i + 1] = (z \o s)[i + 1] /\ (z \o s)[i + 1] = s[(i + 1) - 1]
    BY <1>1, <1>2, <1>3, <2>1
  <2> QED BY <2>1, <2>2
<1> QED BY <1>3, <1>4, <1>5 DEF f, z

\* A step of the decoder leaves the variables in their ranges, and what the
\* encoder has to say behind.
LEMMA DecoderTypes ==
  ASSUME IInv, DecodeKeeps, phase = "decode",
         phase' \in {"decode", "done"}, idx' \in 0 .. Len(frame),
         started' \in BOOLEAN, next_sentinel_idx' \in Byte,
         current_block_is_full' \in BOOLEAN, decoded' \in Seq(Byte),
         result' \in Results
  PROVE  CodecTypeOK' /\ Encoding' /\ Room'
<1>1. CodecTypeOK'
  BY DEF IInv, CodecTypeOK, DecodeKeeps, encodeVars
<1>2. Encoding' /\ Room'
  BY DEF Encoding, Room, RoomSuffices
<1> QED BY <1>1, <1>2

\* What the decoder's steps have in common: their types.
LEMMA DecodeTypes ==
  ASSUME IInv,
         \/ SkipPadding \/ PushDelimiter \/ EndOfSource
         \/ \E byte \in Byte : PushCode(byte) \/ PushData(byte)
  PROVE  CodecTypeOK' /\ Encoding' /\ Room' /\ phase = "decode" /\ DecodeKeeps
<1>1. /\ idx \in 0 .. Len(frame) /\ Len(frame) \in Nat /\ started \in BOOLEAN
      /\ next_sentinel_idx \in Byte /\ current_block_is_full \in BOOLEAN
      /\ decoded \in Seq(Byte) /\ result \in Results /\ 0 \in Byte
  BY Bytes DEF IInv, CodecTypeOK
<1>2. CASE SkipPadding
  <2>1. idx' \in 0 .. Len(frame) /\ phase = "decode" /\ DecodeKeeps
    BY <1>1, <1>2 DEF SkipPadding, More
  <2> QED BY <1>1, <1>2, <2>1, DecoderTypes DEF SkipPadding
<1>3. CASE PushDelimiter
  <2>1. idx' \in 0 .. Len(frame) /\ phase = "decode" /\ DecodeKeeps
    BY <1>1, <1>3 DEF PushDelimiter, More
  <2>2. result' \in Results
    BY <1>3 DEF PushDelimiter, Results
  <2> QED BY <1>1, <1>3, <2>1, <2>2, DecoderTypes DEF PushDelimiter
<1>4. CASE EndOfSource
  <2>1. result' \in Results
    BY <1>4 DEF EndOfSource, Results
  <2> QED BY <1>1, <1>4, <2>1, DecoderTypes DEF EndOfSource
<1>5. ASSUME NEW value \in Byte, Store(value), idx < Len(frame), phase = "decode"
      PROVE  /\ idx' \in 0 .. Len(frame) /\ phase' \in {"decode", "done"}
             /\ decoded' \in Seq(Byte) /\ started' \in BOOLEAN
             /\ result' \in Results
  BY <1>1, <1>5 DEF Store, Results
<1>6. ASSUME NEW byte \in Byte, PushCode(byte)
      PROVE  CodecTypeOK' /\ Encoding' /\ Room' /\ phase = "decode" /\ DecodeKeeps
  <2>1. /\ idx < Len(frame) /\ phase = "decode" /\ DecodeKeeps
        /\ next_sentinel_idx' \in Byte /\ current_block_is_full' \in BOOLEAN
    BY <1>6 DEF PushCode, More
  <2>2. CASE ImpliesZero
    BY <1>1, <1>5, <1>6, <2>1, <2>2, DecoderTypes DEF PushCode
  <2>3. CASE ~ ImpliesZero
    <3>1. idx' \in 0 .. Len(frame)
      BY <1>1, <1>6, <2>1, <2>3 DEF PushCode
    <3> QED BY <1>1, <1>6, <2>1, <2>3, <3>1, DecoderTypes DEF PushCode
  <2> QED BY <2>2, <2>3
<1>7. ASSUME NEW byte \in Byte, PushData(byte)
      PROVE  CodecTypeOK' /\ Encoding' /\ Room' /\ phase = "decode" /\ DecodeKeeps
  <2>1. /\ idx < Len(frame) /\ phase = "decode" /\ DecodeKeeps
        /\ current_block_is_full' \in BOOLEAN /\ Store(byte)
    BY <1>1, <1>7 DEF PushData, More
  <2>2. next_sentinel_idx' \in Byte
    BY <1>1, <1>7, MaxCodeAssumption DEF PushData, Byte, MaxCodeAssumption
  <2> QED BY <1>1, <1>5, <2>1, <2>2, DecoderTypes
<1> QED BY <1>2, <1>3, <1>4, <1>6, <1>7

\* A step keeps the decoder where the maps of the body say it is.
LEMMA DecoderMoves ==
  ASSUME IInv, DecodeKeeps, body # <<>>, phase = "decode",
         \A b, n : /\ Blocks(body, source, Len(body) + 1, b, n)
                   /\ EndsWith(body, b, body[b[Len(body)]])
                   /\ Decoder(b, n)
                   => Decoder(b, n)'
  PROVE  Decoding'
<1>1. /\ frame = <<0>> \o body \o <<0>>
      /\ Len(body) < capacity - 1
      /\ \E b, n : /\ Blocks(body, source, Len(body) + 1, b, n)
                   /\ EndsWith(body, b, body[b[Len(body)]])
                   /\ Decoder(b, n)
  BY DEF IInv, Decoding
<1>2. PICK b, n : /\ Blocks(body, source, Len(body) + 1, b, n)
                  /\ EndsWith(body, b, body[b[Len(body)]])
                  /\ Decoder(b, n)
  BY <1>1
<1>3. Decoder(b, n)'
  BY <1>2
<1>4. body' = body /\ source' = source /\ frame' = frame /\ capacity' = capacity
  BY DEF DecodeKeeps, encodeVars
<1>5. frame' = <<0>> \o body' \o <<0>> /\ Len(body') < capacity' - 1
  BY <1>1, <1>4
<1>6. Blocks(body', source', Len(body') + 1, b, n)
  BY <1>2, <1>4
<1>7. EndsWith(body', b, body'[b[Len(body')]])
  BY <1>2, <1>4 DEF EndsWith
<1> QED BY <1>3, <1>5, <1>6, <1>7 DEF Decoding

\* What the steps of the decoder use of the body and its maps.
LEMMA Maps ==
  ASSUME IInv, body # <<>>, phase = "decode", NEW b, NEW n,
         Blocks(body, source, Len(body) + 1, b, n)
  PROVE  /\ Len(body) \in Nat /\ Len(body) >= 1
         /\ capacity \in Nat /\ Len(body) < capacity - 1
         /\ Len(frame) = Len(body) + 2 /\ frame[1] = 0 /\ frame[Len(body) + 2] = 0
         /\ \A i \in 1 .. Len(body) :
              /\ frame[i + 1] = body[i] /\ body[i] # 0
              /\ b[i] \in 1 .. Len(body) /\ b[i] <= i
              /\ n[i] \in Nat /\ n[i] < i
              /\ body[b[i]] \in 1 .. MaxCode /\ i - b[i] < body[b[i]]
         /\ b[1] = 1 /\ n[1] = 0 /\ n[Len(body)] = Len(source)
         /\ \A i \in 2 .. Len(body) :
              Follows(body, source, Len(body) + 1, b, n, i)
<1>1. /\ body \in Bodies /\ capacity \in Nat /\ Len(body) < capacity - 1
      /\ frame = <<0>> \o body \o <<0>>
  BY DEF Bodies, IInv, CodecTypeOK, Decoding
<1>2. /\ Len(frame) = Len(body) + 2 /\ frame[1] = 0 /\ frame[Len(body) + 2] = 0
      /\ \A i \in 1 .. Len(body) : frame[i + 1] = body[i]
  BY <1>1, FrameBytes
<1>3. Len(body) \in Nat /\ Len(body) >= 1
  BY <1>1, BodyLen
<1>4. \A i \in 1 .. Len(body) : body[i] # 0
  BY <1>1, NoZero
<1>5. ASSUME NEW i \in 1 .. Len(body)
      PROVE  /\ b[i] \in 1 .. Len(body) /\ b[i] <= i
             /\ n[i] \in Nat /\ n[i] < i
             /\ body[b[i]] \in 1 .. MaxCode /\ i - b[i] < body[b[i]]
  <2>1. b[i] \in 1 .. Len(body) /\ n[i] \in Nat
    BY DEF Blocks
  <2>2. b[i] # Len(body) + 1
    BY <1>3, <2>1
  <2> QED BY <2>1, <2>2 DEF Blocks
<1>6. /\ b[1] = 1 /\ n[1] = 0 /\ n[Len(body)] = Len(source)
      /\ \A i \in 2 .. Len(body) :
           Follows(body, source, Len(body) + 1, b, n, i)
  BY DEF Blocks
<1> QED BY <1>1, <1>2, <1>3, <1>4, <1>5, <1>6

\* The decoder has processed i bytes of the body.
LEMMA DecoderAt ==
  ASSUME NEW b, NEW n, Len(body) \in Nat, NEW i \in 1 .. Len(body),
         body' = body, source' = source, phase' = "decode", idx' = i + 1,
         started', next_sentinel_idx' = body[b[i]] - (i - b[i]),
         current_block_is_full' <=> body[b[i]] = MaxCode,
         Len(decoded') = n[i], \A k \in 1 .. n[i] : decoded'[k] = source[k]
  PROVE  Decoder(b, n)'
<1>1. idx' > 1 /\ ~ (idx' <= 1) /\ idx' - 1 = i /\ idx' <= Len(body') + 1
  OBVIOUS
<1>2. phase' # "done"
  OBVIOUS
<1>3. /\ next_sentinel_idx' = body'[b[idx' - 1]] - ((idx' - 1) - b[idx' - 1])
      /\ Len(decoded') = n[idx' - 1]
      /\ \A k \in 1 .. n[idx' - 1] : decoded'[k] = source'[k]
  BY <1>1
<1>4. current_block_is_full' <=> body'[b[idx' - 1]] = MaxCode
  BY <1>1, Zenon
<1> QED BY <1>1, <1>2, <1>3, <1>4, Zenon DEF Decoder

LEMMA SkipPaddingKeeps == ASSUME IInv, SkipPadding PROVE IInv'
<1>1. CodecTypeOK' /\ Encoding' /\ Room' /\ phase = "decode" /\ DecodeKeeps
  BY DecodeTypes
<1>2. CASE body = <<>>
  BY <1>1, <1>2 DEF IInv, Decoding, DecodeKeeps, encodeVars
<1>3. CASE body # <<>>
  <2>1. ASSUME NEW b, NEW n, Blocks(body, source, Len(body) + 1, b, n),
               Decoder(b, n)
        PROVE  Decoder(b, n)'
    <3>1. /\ Len(body) \in Nat /\ Len(body) >= 1 /\ idx \in Nat
          /\ frame[2] = body[1] /\ body[1] # 0
      BY <1>1, <1>3, <2>1, Maps DEF IInv, CodecTypeOK
    <3>2. ~ started /\ frame[idx + 1] = 0 /\ idx <= 1
      BY <1>1, <2>1, <3>1 DEF Decoder, SkipPadding, More
    <3>3. idx = 0
      BY <3>1, <3>2
    <3> QED BY <1>1, <2>1, <3>1, <3>2, <3>3
            DEF Decoder, SkipPadding, DecodeKeeps, encodeVars
  <2> QED BY <1>1, <1>3, <2>1, DecoderMoves DEF IInv
<1> QED BY <1>2, <1>3

\* A code byte begins the next block, after the zero the block before implies.
LEMMA PushCodeKeeps == ASSUME IInv, NEW byte \in Byte, PushCode(byte) PROVE IInv'
<1>1. CodecTypeOK' /\ Encoding' /\ Room' /\ phase = "decode" /\ DecodeKeeps
  BY DecodeTypes
<1>2. CASE body = <<>>
  BY <1>1, <1>2 DEF IInv, Decoding, DecodeKeeps, encodeVars
<1>3. CASE body # <<>>
  <2>1. ASSUME NEW b, NEW n, Blocks(body, source, Len(body) + 1, b, n),
               Decoder(b, n)
        PROVE  Decoder(b, n)'
    <3>1. /\ Len(body) \in Nat /\ Len(body) >= 1
          /\ capacity \in Nat /\ Len(body) < capacity - 1
          /\ Len(frame) = Len(body) + 2 /\ frame[1] = 0 /\ frame[Len(body) + 2] = 0
          /\ \A i \in 1 .. Len(body) :
               /\ frame[i + 1] = body[i] /\ body[i] # 0
               /\ b[i] \in 1 .. Len(body) /\ b[i] <= i
               /\ n[i] \in Nat /\ n[i] < i
               /\ body[b[i]] \in 1 .. MaxCode /\ i - b[i] < body[b[i]]
          /\ b[1] = 1 /\ n[1] = 0
          /\ \A i \in 2 .. Len(body) :
               Follows(body, source, Len(body) + 1, b, n, i)
      BY <1>1, <1>3, <2>1, Maps
    <3>2. /\ idx \in Nat /\ idx < Len(frame) /\ frame[idx + 1] = byte /\ byte # 0
          /\ next_sentinel_idx <= 1 /\ next_sentinel_idx' = byte
          /\ idx <= Len(body) + 1 /\ byte \in Nat
      <4>1. idx \in Nat /\ byte \in Nat
        BY Bytes DEF IInv, CodecTypeOK
      <4>2. idx <= Len(body) + 1
        BY <1>1, <2>1 DEF Decoder
      <4> QED BY <4>1, <4>2 DEF PushCode, More
    <3>3. idx \in 1 .. Len(body) /\ body[idx] = byte
      BY <3>1, <3>2
    <3>0. current_block_is_full' <=> byte = MaxCode
      BY DEF PushCode
    <3>4. /\ body' = body /\ source' = source /\ frame' = frame
      BY <1>1 DEF DecodeKeeps, encodeVars
    <3>5. CASE idx = 1
      <4>1. /\ next_sentinel_idx = 0 /\ decoded = <<>> /\ ~ ImpliesZero
        BY <1>1, <2>1, <3>5 DEF Decoder, ImpliesZero
      <4>2. idx' = 2 /\ started' /\ phase' = "decode" /\ decoded' = <<>>
        BY <1>1, <3>5, <4>1 DEF PushCode
      <4>3. Len(decoded') = 0
        BY <4>2
      <4>4. byte = body[b[1]] - (1 - b[1]) /\ body[b[1]] = byte /\ n[1] = 0
        BY <3>1, <3>2, <3>3, <3>5
      <4>5. 1 \in 1 .. Len(body) /\ idx' = 1 + 1
        BY <3>1, <4>2
      <4>6. /\ next_sentinel_idx' = body[b[1]] - (1 - b[1])
            /\ Len(decoded') = n[1]
            /\ \A k \in 1 .. n[1] : decoded'[k] = source[k]
        BY <3>2, <4>3, <4>4
      <4>7. current_block_is_full' <=> body[b[1]] = MaxCode
        BY <3>0, <4>4, Zenon
      <4> QED BY <3>1, <3>4, <4>2, <4>5, <4>6, <4>7, DecoderAt
    <3>6. CASE idx # 1
      <4> DEFINE p == idx - 1
      <4>1. /\ idx \in 2 .. Len(body) /\ p \in 1 .. Len(body) /\ idx > 1
            /\ p = idx - 1 /\ ~ (idx <= 1)
        BY <3>1, <3>3, <3>6
      <4> HIDE DEF p
      <4>2. /\ next_sentinel_idx = body[b[p]] - (p - b[p])
            /\ current_block_is_full <=> body[b[p]] = MaxCode
            /\ Len(decoded) = n[p]
            /\ \A k \in 1 .. n[p] : decoded[k] = source[k]
        BY <1>1, <2>1, <4>1 DEF Decoder
      <4>3. b[p] \in 1 .. Len(body) /\ body[b[p]] \in 1 .. MaxCode
            /\ b[idx] \in 1 .. Len(body) /\ idx - b[idx] < body[b[idx]]
            /\ n[p] \in Nat /\ n[p] < p
        BY <3>1, <3>3, <4>1
      <4>4. Follows(body, source, Len(body) + 1, b, n, idx)
        BY <3>1, <4>1
      <4>5. b[idx] # b[p]
        <5>1. ASSUME NEW c \in Int, NEW d \in Int,
                     idx - d < c, c - (p - d) <= 1
              PROVE  FALSE
          BY <3>3, <4>1, <5>1
        <5>2. body[b[p]] - (p - b[p]) <= 1
          BY <3>2, <4>2
        <5>3. body[b[p]] \in Int /\ b[p] \in Int
          BY <4>3
        <5> QED BY <4>3, <5>1, <5>2, <5>3
      <4>6. /\ b[idx] = idx /\ body[b[p]] = idx - b[p]
            /\ \/ body[b[p]] = MaxCode /\ n[idx] = n[p]
               \/ /\ body[b[p]] # MaxCode
                  /\ n[idx] = n[p] + 1 /\ source[n[idx]] = 0
        BY <4>1, <4>4, <4>5 DEF Follows
      <4>7. next_sentinel_idx = 1
        BY <3>3, <4>1, <4>2, <4>3, <4>6
      <4>8. /\ started' /\ phase' = "decode" /\ idx' = idx + 1
            /\ Len(decoded') = n[idx]
            /\ \A k \in 1 .. n[idx] : decoded'[k] = source[k]
        <5>1. CASE current_block_is_full
          BY <1>1, <4>2, <4>6, <4>7, <5>1 DEF PushCode, ImpliesZero
        <5>2. CASE ~ current_block_is_full
          <6>1. Len(decoded) < capacity
            BY <3>1, <4>1, <4>2, <4>3
          <6>2. /\ started' /\ phase' = "decode" /\ idx' = idx + 1
                /\ decoded' = Append(decoded, 0)
            BY <1>1, <4>7, <5>2, <6>1 DEF PushCode, ImpliesZero, Store
          <6>3. /\ Len(decoded') = Len(decoded) + 1
                /\ decoded'[Len(decoded) + 1] = 0
                /\ \A k \in 1 .. Len(decoded) : decoded'[k] = decoded[k]
            BY <6>2, Bytes, Appended DEF IInv, CodecTypeOK
          <6> QED BY <4>2, <4>3, <4>6, <5>2, <6>2, <6>3
        <5> QED BY <5>1, <5>2
      <4>9. /\ body[b[idx]] = byte
            /\ next_sentinel_idx' = body[b[idx]] - (idx - b[idx])
        BY <3>2, <3>3, <4>6
      <4>10. current_block_is_full' <=> body[b[idx]] = MaxCode
        BY <3>0, <4>9, Zenon
      <4> QED BY <3>1, <3>3, <3>4, <4>8, <4>9, <4>10, DecoderAt
    <3> QED BY <3>5, <3>6
  <2> QED BY <1>1, <1>3, <2>1, DecoderMoves DEF IInv
<1> QED BY <1>2, <1>3

\* Inside a block the bytes are those of the source.
LEMMA PushDataKeeps == ASSUME IInv, NEW byte \in Byte, PushData(byte) PROVE IInv'
<1>1. CodecTypeOK' /\ Encoding' /\ Room' /\ phase = "decode" /\ DecodeKeeps
  BY DecodeTypes
<1>2. CASE body = <<>>
  BY <1>1, <1>2 DEF IInv, Decoding, DecodeKeeps, encodeVars
<1>3. CASE body # <<>>
  <2>1. ASSUME NEW b, NEW n, Blocks(body, source, Len(body) + 1, b, n),
               Decoder(b, n)
        PROVE  Decoder(b, n)'
    <3>1. /\ Len(body) \in Nat /\ capacity \in Nat /\ Len(body) < capacity - 1
          /\ Len(frame) = Len(body) + 2 /\ frame[Len(body) + 2] = 0
          /\ \A i \in 1 .. Len(body) :
               /\ frame[i + 1] = body[i]
               /\ b[i] \in 1 .. Len(body) /\ b[i] <= i
               /\ n[i] \in Nat /\ n[i] < i
               /\ body[b[i]] \in 1 .. MaxCode /\ i - b[i] < body[b[i]]
          /\ \A i \in 2 .. Len(body) :
               Follows(body, source, Len(body) + 1, b, n, i)
      BY <1>1, <1>3, <2>1, Maps
    <3>2. /\ idx \in Nat /\ idx < Len(frame) /\ frame[idx + 1] = byte /\ byte # 0
          /\ next_sentinel_idx > 1 /\ next_sentinel_idx' = next_sentinel_idx - 1
          /\ idx > 1
      <4>1. idx \in Nat
        BY DEF IInv, CodecTypeOK
      <4>2. next_sentinel_idx > 1 => idx > 1
        BY <1>1, <2>1, <4>1 DEF Decoder
      <4> QED BY <4>1, <4>2 DEF PushData, More
    <3> DEFINE p == idx - 1
    <3>3. /\ idx \in 2 .. Len(body) /\ body[idx] = byte /\ p \in 1 .. Len(body)
          /\ p = idx - 1
      BY <3>1, <3>2
    <3> HIDE DEF p
    <3>4. body' = body /\ source' = source
      BY <1>1 DEF DecodeKeeps, encodeVars
    <3>5. /\ next_sentinel_idx = body[b[p]] - (p - b[p])
          /\ Len(decoded) = n[p]
          /\ \A k \in 1 .. n[p] : decoded[k] = source[k]
      BY <1>1, <2>1, <3>2, <3>3 DEF Decoder
    <3>6. current_block_is_full <=> body[b[p]] = MaxCode
      BY <1>1, <2>1, <3>2, <3>3 DEF Decoder
    <3>7. /\ b[p] \in 1 .. Len(body) /\ body[b[p]] \in 1 .. MaxCode
          /\ n[p] \in Nat /\ n[p] < p
      BY <3>1, <3>3
    <3>8. body[b[p]] # idx - b[p]
      BY <3>2, <3>3, <3>5, <3>7
    <3>9. Follows(body, source, Len(body) + 1, b, n, idx)
      BY <3>1, <3>3
    <3>10. b[idx] = b[p] /\ n[idx] = n[p] + 1 /\ source[n[idx]] = byte
      BY <3>3, <3>8, <3>9 DEF Follows
    <3>11. /\ started' /\ phase' = "decode" /\ idx' = idx + 1
           /\ decoded' = Append(decoded, byte)
      <4>1. Len(decoded) < capacity
        BY <3>1, <3>3, <3>5, <3>7
      <4> QED BY <1>1, <4>1 DEF PushData, Store
    <3>12. /\ Len(decoded') = n[idx]
           /\ \A k \in 1 .. n[idx] : decoded'[k] = source[k]
      <4>1. /\ Len(decoded') = Len(decoded) + 1
            /\ decoded'[Len(decoded) + 1] = byte
            /\ \A k \in 1 .. Len(decoded) : decoded'[k] = decoded[k]
        BY <3>11, Appended DEF IInv, CodecTypeOK
      <4> QED BY <3>5, <3>7, <3>10, <4>1
    <3>13. next_sentinel_idx' = body[b[idx]] - (idx - b[idx])
      <4>1. \A c, d \in Int : (c - (p - d)) - 1 = c - (idx - d)
        BY <3>3
      <4>2. next_sentinel_idx' = (body[b[p]] - (p - b[p])) - 1
        BY <3>2, <3>5
      <4>3. body[b[p]] \in Int /\ b[p] \in Int
        BY <3>7
      <4>4. next_sentinel_idx' = body[b[p]] - (idx - b[p])
        BY <4>1, <4>2, <4>3
      <4> QED BY <3>10, <4>4
    <3>14. current_block_is_full' <=> body[b[idx]] = MaxCode
      <4>1. current_block_is_full' = current_block_is_full
        BY DEF PushData
      <4> QED BY <3>6, <3>10, <4>1, Zenon
    <3>15. idx \in 1 .. Len(body) /\ Len(body) \in Nat
      BY <3>1, <3>3
    <3> QED BY <3>4, <3>11, <3>12, <3>13, <3>14, <3>15, DecoderAt
  <2> QED BY <1>1, <1>3, <2>1, DecoderMoves DEF IInv
<1> QED BY <1>2, <1>3

\* The delimiter comes when the last block is complete, and all is decoded.
LEMMA PushDelimiterKeeps == ASSUME IInv, PushDelimiter PROVE IInv'
<1>1. CodecTypeOK' /\ Encoding' /\ Room' /\ phase = "decode" /\ DecodeKeeps
  BY DecodeTypes
<1>2. CASE body = <<>>
  BY <1>1, <1>2 DEF IInv, Decoding, DecodeKeeps, encodeVars
<1>3. CASE body # <<>>
  <2>1. ASSUME NEW b, NEW n, Blocks(body, source, Len(body) + 1, b, n),
               EndsWith(body, b, body[b[Len(body)]]), Decoder(b, n)
        PROVE  Decoder(b, n)'
    <3> DEFINE L == Len(body)
    <3>1. /\ L \in Nat /\ L >= 1 /\ Len(frame) = L + 2 /\ n[L] = Len(source)
          /\ \A i \in 1 .. L : frame[i + 1] = body[i] /\ body[i] # 0
          /\ b[L] \in 1 .. L /\ body[b[L]] \in 1 .. MaxCode
      BY <1>1, <1>3, <2>1, Maps
    <3>2. /\ idx \in Nat /\ started /\ idx < Len(frame) /\ frame[idx + 1] = 0
          /\ idx' = idx + 1 /\ decoded' = decoded /\ phase' = "done"
      BY DEF PushDelimiter, More, IInv, CodecTypeOK
    <3>3. idx > 1 /\ idx <= L + 1
      BY <1>1, <2>1, <3>2 DEF Decoder
    <3>4. idx = L + 1
      <4>1. idx - 1 \in 1 .. L + 1 /\ (idx # L + 1 => idx \in 1 .. L)
        BY <3>1, <3>2, <3>3
      <4> QED BY <3>1, <3>2, <4>1
    <3>5. idx - 1 = L
      BY <3>1, <3>4
    <3>6. /\ next_sentinel_idx = body[b[L]] - (L - b[L])
          /\ Len(decoded) = n[L]
          /\ \A k \in 1 .. n[L] : decoded[k] = source[k]
      BY <1>1, <2>1, <3>3, <3>5 DEF Decoder
    <3>7. next_sentinel_idx = 1
      <4>1. b[L] + body[b[L]] = L + 1 /\ b[L] \in Int /\ body[b[L]] \in Int
        BY <2>1, <3>1 DEF EndsWith
      <4> HIDE DEF L
      <4> QED BY <3>1, <3>6, <4>1
    <3>8. result' = "Ok"
      BY <3>7 DEF PushDelimiter, InBlock
    <3>9. decoded = source
      BY <3>1, <3>6, SeqEqual DEF IInv, CodecTypeOK
    <3>10. source' = source /\ frame' = frame
      BY <1>1 DEF DecodeKeeps, encodeVars
    <3> QED BY <3>1, <3>2, <3>4, <3>8, <3>9, <3>10 DEF Decoder
  <2> QED BY <1>1, <1>3, <2>1, DecoderMoves DEF IInv
<1> QED BY <1>2, <1>3

\* An encoded frame does not end without its delimiter.
LEMMA EndOfSourceKeeps == ASSUME IInv, EndOfSource PROVE IInv'
<1>1. CodecTypeOK' /\ Encoding' /\ Room' /\ phase = "decode" /\ DecodeKeeps
  BY DecodeTypes
<1>2. CASE body = <<>>
  BY <1>1, <1>2 DEF IInv, Decoding, DecodeKeeps, encodeVars
<1>3. CASE body # <<>>
  <2>1. ASSUME NEW b, NEW n, Blocks(body, source, Len(body) + 1, b, n),
               Decoder(b, n)
        PROVE  FALSE
    <3>1. Len(body) \in Nat /\ Len(frame) = Len(body) + 2
      BY <1>1, <1>3, <2>1, Maps
    <3>2. idx <= Len(body) + 1 /\ idx = Len(frame)
      BY <1>1, <2>1 DEF Decoder, EndOfSource
    <3> QED BY <3>1, <3>2
  <2> QED BY <1>1, <1>3, <2>1, DecoderMoves DEF IInv
<1> QED BY <1>2, <1>3

LEMMA NextIInv == IInv /\ [Next]_vars => IInv'
<1> SUFFICES ASSUME IInv, [Next]_vars PROVE IInv'
  OBVIOUS
<1>1. CASE UNCHANGED vars
  <2>1. /\ CodecTypeOK' /\ Encoding' /\ Room'
    BY <1>1 DEF vars, encodeVars, decodeVars, IInv, CodecTypeOK, Encoding, Room,
               RoomSuffices, FullBlocks, InitDecoder
  <2>2. Decoding'
    BY <1>1 DEF vars, encodeVars, decodeVars, IInv, Decoding, Decoder
  <2> QED BY <2>1, <2>2 DEF IInv
<1> QED BY <1>1, EncodeZeroKeeps, EncodeByteKeeps, EncodeFullKeeps,
           EncodeEndKeeps, SkipPaddingKeeps, PushCodeKeeps, PushDataKeeps,
           PushDelimiterKeeps, EndOfSourceKeeps DEF Next

-----------------------------------------------------------------------------
\* The codec's u8 counters do not overflow, and no index leaves its slice.
THEOREM CodecTypes == Spec => []CodecTypeOK
<1>1. IInv => CodecTypeOK
  BY DEF IInv
<1> QED BY <1>1, InitIInv, NextIInv, PTL DEF Spec

\* max_encoding_length is enough for every source: encode_from_slice reports
\* DestinationTooSmall only to a caller that gave it less.
THEOREM LengthSuffices == Spec => []RoomSuffices
<1>1. IInv => RoomSuffices
  BY DEF IInv, Room
<1> QED BY <1>1, InitIInv, NextIInv, PTL DEF Spec

\* Delimiters are unambiguous: an encoded body has no zero in it.
THEOREM Unambiguous == Spec => []BodyHasNoZero
<1>1. IInv => BodyHasNoZero
  <2> SUFFICES ASSUME IInv, phase \in {"decode", "done"},
                      NEW i \in 1 .. Len(body)
               PROVE  body[i] # 0
    BY DEF BodyHasNoZero
  <2>1. CASE body = <<>>
    BY <2>1
  <2>2. CASE body # <<>>
    <3>1. body \in Bodies
      BY <2>2 DEF Bodies, IInv, CodecTypeOK
    <3>2. PICK b, n : Blocks(body, source, Len(body) + 1, b, n)
      BY <2>2 DEF IInv, Decoding
    <3> QED BY <3>1, <3>2, NoZero
  <2> QED BY <2>1, <2>2
<1> QED BY <1>1, InitIInv, NextIInv, PTL DEF Spec

\* decode_slice undoes encode_from_slice_including_sentinels, for every source
\* and every length of a full block: it returns Ok, the source, and the whole
\* length of the frame.
THEOREM EncodedIsDecoded == Spec => []RoundTrip
<1>1. IInv => RoundTrip
  BY DEF IInv, Decoding, Decoder, RoundTrip
<1> QED BY <1>1, InitIInv, NextIInv, PTL DEF Spec

-----------------------------------------------------------------------------
(* Any input at all: what the blocks of a body stand for *)

\* What is left of a block from position p on: its bytes up to position q - 1,
\* the zero it implies, and what f says of the blocks from q on.
Rest(s, f, p, q, full) ==
  SubSeq(s, p, q - 1) \o (IF full \/ q > Len(s) THEN <<>> ELSE <<0>>)
    \o f[q].payload

\* What the blocks from position i on stand for, if f says that of those from
\* later positions on.
Stands(s, f, i) ==
  IF i > Len(s) THEN [whole |-> TRUE, payload |-> <<>>]
  ELSE IF i + s[i] > Len(s) + 1 THEN [whole |-> FALSE, payload |-> <<>>]
  ELSE [whole |-> f[i + s[i]].whole,
        payload |-> Rest(s, f, i + 1, i + s[i], s[i] = MaxCode)]

\* A body without zeros.
Bare == {s \in Seq(Byte) : s # <<>> /\ \A i \in 1 .. Len(s) : s[i] # 0}

\* What is still to come for a decoder at position p of a block that ends
\* before position q.
Owed(s, p, q, full) == Rest(s, From(s), p, q, full)

\* The decoder is at position p of s, next positions before the next code, and
\* has written d.
Reads(s, p, next, full, d) ==
  LET q == p + next - 1
  IN  /\ p \in 2 .. Len(s) + 1 /\ next >= 1
      /\ Reference(s).whole <=> q <= Len(s) + 1 /\ From(s)[q].whole
      /\ Reference(s).whole => Reference(s).payload = d \o Owed(s, p, q, full)

\* A nonempty set of numbers has a least one.
LEMMA Least ==
  ASSUME NEW T \in SUBSET Nat, T # {}
  PROVE  \E m \in T : \A n \in T : m <= n
<1> DEFINE Less == OpToRel(<, Nat)
<1>1. \A x, y \in Nat : x < y => <<x, y>> \in Less
  BY DEF OpToRel
<1>2. \E m \in T : \A n \in T : <<n, m>> \notin Less
  <2> HIDE DEF Less
  <2>1. IsWellFoundedOn(Less, Nat)
    BY NatLessThanWellFounded DEF Less
  <2> QED BY <2>1, WFMin
<1>3. PICK m \in T : \A n \in T : <<n, m>> \notin Less
  BY <1>2
<1>4. ASSUME NEW n \in T PROVE m <= n
  <2> HIDE DEF Less
  <2>1. m \in Nat /\ n \in Nat /\ <<n, m>> \notin Less
    BY <1>3
  <2>2. ~ (n < m)
    BY <1>1, <2>1
  <2> QED BY <2>1, <2>2
<1> QED BY <1>4

\* A set with n that has each number's predecessor too goes down to 1.
LEMMA Downwards ==
  ASSUME NEW T, NEW n \in Nat, n \in T,
         \A k \in 1 .. n : k \in T /\ k # 1 => k - 1 \in T
  PROVE  \A k \in 1 .. n : k \in T
<1> DEFINE Missing == {k \in 0 .. n : n - k \in 1 .. n /\ n - k \notin T}
<1>1. ASSUME Missing # {} PROVE FALSE
  <2>1. Missing \in SUBSET Nat
    OBVIOUS
  <2>2. PICK m \in Missing : \A k \in Missing : m <= k
    BY <1>1, <2>1, Least
  <2>3. m \in 0 .. n /\ n - m \in 1 .. n /\ n - m \notin T /\ m # 0
    BY <2>2
  <2>4. /\ m - 1 \in 0 .. n /\ ~ (m <= m - 1)
        /\ n - (m - 1) \in 1 .. n /\ n - (m - 1) # 1 /\ n - (m - 1) - 1 = n - m
    BY <2>3
  <2>5. n - (m - 1) \in T
    BY <2>2, <2>4
  <2> QED BY <2>3, <2>4, <2>5
<1>2. ASSUME NEW k \in 1 .. n PROVE k \in T
  <2>1. n - k \in 0 .. n /\ n - (n - k) = k
    OBVIOUS
  <2> QED BY <1>1, <2>1
<1> QED BY <1>2

LEMMA BareIs ==
  ASSUME NEW s \in Bare
  PROVE  /\ s \in Seq(Byte) /\ Len(s) \in Nat /\ Len(s) >= 1
         /\ \A i \in 1 .. Len(s) : s[i] \in 1 .. MaxCode /\ s[i] \in Byte
<1>1. s \in Seq(Byte) /\ s # <<>> /\ \A i \in 1 .. Len(s) : s[i] # 0
  BY DEF Bare
<1>2. \A i \in 1 .. Len(s) : s[i] \in Byte
  BY <1>1
<1>3. \A i \in 1 .. Len(s) : s[i] \in 1 .. MaxCode
  <2> SUFFICES ASSUME NEW i \in 1 .. Len(s) PROVE s[i] \in 1 .. MaxCode
    OBVIOUS
  <2>1. s[i] \in Byte \ {0}
    BY <1>1, <1>2
  <2> QED BY <2>1, Bytes
<1>4. Len(s) \in Nat /\ Len(s) >= 1
  BY <1>1
<1> QED BY <1>1, <1>2, <1>3, <1>4

\* Stands looks at a later position only.
LEMMA Later ==
  ASSUME NEW s, NEW f, NEW g, NEW i,
         ~ (i > Len(s)) /\ ~ (i + s[i] > Len(s) + 1)
           => f[i + s[i]] = g[i + s[i]]
  PROVE  Stands(s, f, i) = Stands(s, g, i)
<1>1. CASE i > Len(s)
  BY <1>1 DEF Stands
<1>2. CASE ~ (i > Len(s)) /\ i + s[i] > Len(s) + 1
  BY <1>2 DEF Stands
<1>3. CASE ~ (i > Len(s)) /\ ~ (i + s[i] > Len(s) + 1)
  BY <1>3 DEF Stands, Rest
<1> QED BY <1>1, <1>2, <1>3

\* There is a function of the kind that From chooses: it is made from the last
\* position of the body down to the first.
LEMMA FromExists ==
  ASSUME NEW s \in Bare
  PROVE  \E g : g = [i \in 1 .. Len(s) + 1 |-> Stands(s, g, i)]
<1> DEFINE N == Len(s) + 1
           Right(g, k) == /\ g = [i \in 1 .. N |-> g[i]]
                          /\ \A i \in k .. N : g[i] = Stands(s, g, i)
           T == {k \in 1 .. N : \E g : Right(g, k)}
<1>0. N \in Nat /\ N >= 1 /\ Len(s) \in Nat /\ Len(s) = N - 1 /\ N = Len(s) + 1
      /\ \A i \in 1 .. N - 1 : s[i] \in Nat /\ s[i] >= 1
  BY BareIs, Bytes
<1>1. N \in T
  <2> DEFINE g == [i \in 1 .. N |-> Stands(s, <<>>, N)]
  <2>1. Stands(s, g, N) = Stands(s, <<>>, N)
    <3>1. N > Len(s)
      BY <1>0
    <3> HIDE DEF g, N
    <3> QED BY <3>1, Later
  <2>2. Right(g, N)
    BY <1>0, <2>1
  <2> QED BY <1>0, <2>2
<1>2. ASSUME NEW k \in 1 .. N, k \in T, k # 1 PROVE k - 1 \in T
  <2>1. PICK f : Right(f, k)
    BY <1>2
  <2>2. k - 1 \in 1 .. N - 1 /\ k \in 2 .. N
    BY <1>0, <1>2
  <2> DEFINE g == [i \in 1 .. N |-> IF i = k - 1 THEN Stands(s, f, i) ELSE f[i]]
  <2>3. ASSUME NEW i \in k - 1 .. N PROVE Stands(s, g, i) = Stands(s, f, i)
    <3>1. ASSUME ~ (i > Len(s)), ~ (i + s[i] > Len(s) + 1)
          PROVE  g[i + s[i]] = f[i + s[i]]
      <4>1. i \in 1 .. N - 1
        BY <1>0, <2>2, <3>1
      <4>2. i + s[i] \in 1 .. N /\ i + s[i] # k - 1
        BY <1>0, <2>2, <3>1, <4>1
      <4> QED BY <4>2
    <3> HIDE DEF g
    <3> QED BY <3>1, Later
  <2>4. ASSUME NEW i \in k - 1 .. N PROVE g[i] = Stands(s, f, i)
    <3>1. i \in 1 .. N /\ (i # k - 1 => i \in k .. N)
      BY <2>2
    <3> QED BY <2>1, <3>1
  <2>5. g = [i \in 1 .. N |-> g[i]]
    OBVIOUS
  <2> HIDE DEF g
  <2>6. Right(g, k - 1)
    BY <2>3, <2>4, <2>5
  <2> QED BY <2>2, <2>6
<1>3. 1 \in T
  <2> HIDE DEF T
  <2> QED BY <1>0, <1>1, <1>2, Downwards
<1>4. PICK g : Right(g, 1)
  BY <1>3
<1>5. g = [i \in 1 .. N |-> Stands(s, g, i)]
  <2>1. [i \in 1 .. N |-> g[i]] = [i \in 1 .. N |-> Stands(s, g, i)]
    BY <1>4
  <2> QED BY <1>4, <2>1
<1> QED BY <1>5

LEMMA FromIs ==
  ASSUME NEW s \in Bare
  PROVE  From(s) = [i \in 1 .. Len(s) + 1 |-> Stands(s, From(s), i)]
<1> DEFINE P(f) == f = [i \in 1 .. Len(s) + 1 |-> Stands(s, f, i)]
<1>1. From(s) = CHOOSE f : P(f)
  BY DEF From, Stands, Rest
<1>2. PICK g : P(g)
  BY FromExists
<1> HIDE DEF P
<1>3. P(CHOOSE f : P(f))
  BY <1>2, Zenon
<1> QED BY <1>1, <1>3 DEF P

LEMMA Slice ==
  ASSUME NEW s \in Seq(Byte), NEW i \in 1 .. Len(s) + 1, NEW j \in Int, j <= Len(s)
  PROVE  SubSeq(s, i, j) \in Seq(Byte)
OBVIOUS

LEMMA Singles == <<>> \in Seq(Byte) /\ \A x \in Byte : <<x>> \in Seq(Byte)
OBVIOUS

\* A block and its implied zero, and what follows.
LEMMA Joined ==
  ASSUME NEW a \in Seq(Byte), NEW z \in Seq(Byte), NEW r \in Seq(Byte)
  PROVE  a \o z \o r \in Seq(Byte)
<1>1. a \o z \in Seq(Byte)
  BY ConcatProperties
<1> QED BY <1>1, ConcatProperties

\* The zero that a block implies.
LEMMA ImpliedZero == \A z : z = <<>> \/ z = <<0>> => z \in Seq(Byte)
<1>1. <<0>> \in Seq(Byte) /\ <<>> \in Seq(Byte)
  BY Bytes, Singles
<1> QED BY <1>1, Zenon

LEMMA FromCases ==
  ASSUME NEW s \in Bare, NEW i \in 1 .. Len(s) + 1
  PROVE  /\ i > Len(s) => From(s)[i].whole = TRUE /\ From(s)[i].payload = <<>>
         /\ ~ (i > Len(s)) /\ i + s[i] > Len(s) + 1
              => From(s)[i].whole = FALSE /\ From(s)[i].payload = <<>>
         /\ ~ (i > Len(s)) /\ ~ (i + s[i] > Len(s) + 1)
              => /\ From(s)[i].whole = From(s)[i + s[i]].whole
                 /\ From(s)[i].payload = Owed(s, i + 1, i + s[i], s[i] = MaxCode)
<1>1. From(s)[i] = Stands(s, From(s), i)
  BY FromIs
<1>2. CASE i > Len(s)
  <2>1. From(s)[i] = [whole |-> TRUE, payload |-> <<>>]
    BY <1>1, <1>2 DEF Stands
  <2>2. From(s)[i].whole = TRUE /\ From(s)[i].payload = <<>>
    BY <2>1
  <2> QED BY <1>2, <2>2, Zenon
<1>3. CASE ~ (i > Len(s)) /\ i + s[i] > Len(s) + 1
  <2>1. From(s)[i] = [whole |-> FALSE, payload |-> <<>>]
    BY <1>1, <1>3 DEF Stands
  <2>2. From(s)[i].whole = FALSE /\ From(s)[i].payload = <<>>
    BY <2>1
  <2> QED BY <1>3, <2>2, Zenon
<1>4. CASE ~ (i > Len(s)) /\ ~ (i + s[i] > Len(s) + 1)
  <2>1. From(s)[i] = [whole |-> From(s)[i + s[i]].whole,
                      payload |-> Owed(s, i + 1, i + s[i], s[i] = MaxCode)]
    BY <1>1, <1>4 DEF Stands, Owed
  <2>2. /\ From(s)[i].whole = From(s)[i + s[i]].whole
        /\ From(s)[i].payload = Owed(s, i + 1, i + s[i], s[i] = MaxCode)
    BY <2>1
  <2> QED BY <1>4, <2>2, Zenon
<1> QED BY <1>2, <1>3, <1>4

LEMMA FromTypes ==
  ASSUME NEW s \in Bare, NEW k \in 1 .. Len(s) + 1
  PROVE  From(s)[k].whole \in BOOLEAN /\ From(s)[k].payload \in Seq(Byte)
<1> DEFINE N == Len(s) + 1
           T == {i \in 1 .. N :
                   \A j \in i .. N : /\ From(s)[j].whole \in BOOLEAN
                                     /\ From(s)[j].payload \in Seq(Byte)}
<1>0. /\ N \in Nat /\ N >= 1 /\ Len(s) \in Nat /\ Len(s) = N - 1 /\ s \in Seq(Byte)
      /\ \A i \in 1 .. N - 1 : s[i] \in Nat /\ s[i] >= 1
  BY BareIs, Bytes
<1>2. ASSUME NEW i \in 1 .. N, \A j \in i + 1 .. N : /\ From(s)[j].whole \in BOOLEAN
                                                     /\ From(s)[j].payload \in Seq(Byte)
      PROVE  From(s)[i].whole \in BOOLEAN /\ From(s)[i].payload \in Seq(Byte)
  <2>1. CASE i > Len(s)
    BY <2>1, FromCases, Singles
  <2>2. CASE ~ (i > Len(s)) /\ i + s[i] > Len(s) + 1
    BY <2>2, FromCases, Singles
  <2>3. CASE ~ (i > Len(s)) /\ ~ (i + s[i] > Len(s) + 1)
    <3> DEFINE q == i + s[i]
               z == IF s[i] = MaxCode \/ q > Len(s) THEN <<>> ELSE <<0>>
    <3>1. i \in 1 .. N - 1 /\ q \in i + 1 .. N
      BY <1>0, <2>3
    <3>2. SubSeq(s, i + 1, q - 1) \in Seq(Byte)
      <4>1. i + 1 \in 1 .. Len(s) + 1 /\ q - 1 \in Int /\ q - 1 <= Len(s)
        BY <1>0, <3>1
      <4> HIDE DEF q
      <4> QED BY <1>0, <4>1, Slice
    <3>3. z \in Seq(Byte)
      BY ImpliedZero, Zenon
    <3>4. /\ From(s)[i].whole = From(s)[q].whole
          /\ From(s)[i].payload = SubSeq(s, i + 1, q - 1) \o z \o From(s)[q].payload
      <4>1. /\ From(s)[i].whole = From(s)[q].whole
            /\ From(s)[i].payload = Owed(s, i + 1, q, s[i] = MaxCode)
        BY <2>3, FromCases
      <4> QED BY <4>1, Zenon DEF Owed, Rest
    <3>5. From(s)[q].whole \in BOOLEAN /\ From(s)[q].payload \in Seq(Byte)
      BY <1>2, <3>1
    <3> HIDE DEF q, z
    <3>6. SubSeq(s, i + 1, q - 1) \o z \o From(s)[q].payload \in Seq(Byte)
      BY <3>2, <3>3, <3>5, Joined
    <3> QED BY <3>4, <3>5, <3>6
  <2> QED BY <2>1, <2>2, <2>3
<1>3. N \in T
  <2>1. \A j \in N + 1 .. N : FALSE
    BY <1>0
  <2>2. From(s)[N].whole \in BOOLEAN /\ From(s)[N].payload \in Seq(Byte)
    <3>1. N \in 1 .. N
      BY <1>0
    <3> HIDE DEF N
    <3> QED BY <1>2, <2>1, <3>1
  <2>3. \A j \in N .. N : j = N
    BY <1>0
  <2> QED BY <1>0, <2>2, <2>3
<1>4. ASSUME NEW i \in 1 .. N, i \in T, i # 1 PROVE i - 1 \in T
  <2>1. /\ i - 1 \in 1 .. N /\ i - 1 + 1 = i
        /\ \A j \in i - 1 .. N : j = i - 1 \/ j \in i .. N
    BY <1>0, <1>4
  <2>2. \A j \in i .. N : /\ From(s)[j].whole \in BOOLEAN
                          /\ From(s)[j].payload \in Seq(Byte)
    BY <1>4
  <2>3. From(s)[i - 1].whole \in BOOLEAN /\ From(s)[i - 1].payload \in Seq(Byte)
    <3> HIDE DEF N, T
    <3> QED BY <1>2, <2>1, <2>2
  <2> QED BY <2>1, <2>2, <2>3
<1>5. \A i \in 1 .. N : i \in T
  <2> HIDE DEF N, T
  <2> QED BY <1>0, <1>3, <1>4, Downwards
<1>6. k \in k .. N /\ k \in T
  BY <1>0, <1>5
<1> QED BY <1>6

LEMMA FromEnd ==
  ASSUME NEW s \in Bare
  PROVE  From(s)[Len(s) + 1].whole /\ From(s)[Len(s) + 1].payload = <<>>
<1>1. Len(s) + 1 \in 1 .. Len(s) + 1 /\ Len(s) + 1 > Len(s)
  BY BareIs
<1> QED BY <1>1, FromCases

LEMMA FromAt ==
  ASSUME NEW s \in Bare, NEW i \in 1 .. Len(s)
  PROVE  /\ From(s)[i].whole <=> i + s[i] <= Len(s) + 1 /\ From(s)[i + s[i]].whole
         /\ From(s)[i].whole
              => From(s)[i].payload = Owed(s, i + 1, i + s[i], s[i] = MaxCode)
<1>1. /\ i \in 1 .. Len(s) + 1 /\ ~ (i > Len(s)) /\ s[i] \in Nat /\ i + s[i] \in Nat
      /\ Len(s) \in Nat
  BY BareIs, Bytes
<1>3. CASE i + s[i] > Len(s) + 1
  <2>1. ~ (i + s[i] <= Len(s) + 1)
    BY <1>1, <1>3
  <2> QED BY <1>1, <1>3, <2>1, FromCases, Zenon
<1>4. CASE ~ (i + s[i] > Len(s) + 1)
  <2>1. i + s[i] <= Len(s) + 1
    BY <1>1, <1>4
  <2> QED BY <1>1, <1>4, <2>1, FromCases, Zenon
<1> QED BY <1>3, <1>4

LEMMA OwedIs ==
  ASSUME NEW s \in Bare, NEW q \in 1 .. Len(s) + 1, NEW p \in 1 .. q, NEW full
  PROVE  /\ Owed(s, p, q, full) \in Seq(Byte)
         /\ p < q => Owed(s, p, q, full) = <<s[p]>> \o Owed(s, p + 1, q, full)
<1> DEFINE z == IF full \/ q > Len(s) THEN <<>> ELSE <<0>>
           r == From(s)[q].payload
<1>1. s \in Seq(Byte) /\ Len(s) \in Nat
  BY BareIs
<1>2. z \in Seq(Byte) /\ r \in Seq(Byte)
  <2>1. z \in Seq(Byte)
    BY ImpliedZero, Zenon
  <2> QED BY <2>1, FromTypes
<1>3. /\ Owed(s, p, q, full) = SubSeq(s, p, q - 1) \o z \o r
      /\ Owed(s, p + 1, q, full) = SubSeq(s, p + 1, q - 1) \o z \o r
  BY DEF Owed, Rest
<1> HIDE DEF z, r
<1>4. SubSeq(s, p, q - 1) \in Seq(Byte)
  <2>1. p \in 1 .. Len(s) + 1 /\ q - 1 \in Int /\ q - 1 <= Len(s)
    BY <1>1
  <2> QED BY <1>1, <2>1, Slice
<1>5. ASSUME p < q
      PROVE  Owed(s, p, q, full) = <<s[p]>> \o Owed(s, p + 1, q, full)
  <2> DEFINE a == SubSeq(s, p + 1, q - 1)
             x == <<s[p]>>
  <2>1. p \in 1 .. Len(s) /\ q - 1 \in p .. Len(s)
    BY <1>1, <1>5
  <2>2. SubSeq(s, p, q - 1) = x \o a
    <3>1. SubSeq(s, p, q - 1) = <<s[p]>> \o SubSeq(s, p + 1, q - 1)
      BY <1>1, <2>1, SubSeqRecursiveFirst
    <3> QED BY <3>1, Zenon
  <2>3. x \in Seq(Byte) /\ z \in Seq(Byte)
    <3>1. s[p] \in Byte
      BY <1>1, <2>1
    <3>2. <<s[p]>> \in Seq(Byte)
      BY <3>1, Singles, Zenon
    <3> QED BY <1>2, <3>2, Zenon
  <2>4. a \in Seq(Byte)
    <3>1. p + 1 \in 1 .. Len(s) + 1 /\ q - 1 \in Int /\ q - 1 <= Len(s)
      BY <1>1, <2>1
    <3>2. SubSeq(s, p + 1, q - 1) \in Seq(Byte)
      BY <1>1, <3>1, Slice
    <3> QED BY <3>2, Zenon
  <2> HIDE DEF a, x
  <2>5. (x \o a) \o z = x \o (a \o z) /\ a \o z \in Seq(Byte)
    BY <2>3, <2>4, ConcatAssociative, ConcatProperties
  <2>6. (x \o (a \o z)) \o r = x \o ((a \o z) \o r)
    <3> DEFINE b == a \o z
    <3>1. x \in Seq(Byte) /\ b \in Seq(Byte) /\ r \in Seq(Byte)
      BY <1>2, <2>3, <2>5
    <3> HIDE DEF b
    <3>2. (x \o b) \o r = x \o (b \o r)
      BY <3>1, ConcatAssociative
    <3> QED BY <3>2 DEF b
  <2>7. Owed(s, p + 1, q, full) = a \o z \o r
    BY <1>3 DEF a
  <2> QED BY <1>3, <2>2, <2>5, <2>6, <2>7 DEF x
<1> QED BY <1>2, <1>3, <1>4, <1>5, Joined

LEMMA OwedAtCode ==
  ASSUME NEW s \in Bare, NEW p \in 1 .. Len(s), NEW full
  PROVE  Owed(s, p, p, full) = IF full THEN From(s)[p].payload
                               ELSE <<0>> \o From(s)[p].payload
<1>1. p \in 1 .. Len(s) + 1 /\ p - 1 < p /\ ~ (p > Len(s)) /\ p - 1 \in Int
  BY BareIs
<1>2. From(s)[p].payload \in Seq(Byte) /\ <<0>> \in Seq(Byte) /\ <<>> \in Seq(Byte)
  BY <1>1, FromTypes, Singles, Bytes
<1>3. SubSeq(s, p, p - 1) = <<>>
  BY <1>1, SubSeqEmpty
<1>4. Owed(s, p, p, full)
        = <<>> \o (IF full THEN <<>> ELSE <<0>>) \o From(s)[p].payload
  BY <1>1, <1>3 DEF Owed, Rest
<1>5. <<>> \o <<>> = <<>> /\ <<>> \o <<0>> = <<0>>
      /\ <<>> \o From(s)[p].payload = From(s)[p].payload
  BY <1>2, ConcatEmptySeq
<1>6. CASE full
  BY <1>4, <1>5, <1>6
<1>7. CASE ~ full
  BY <1>4, <1>5, <1>7
<1> QED BY <1>6, <1>7

LEMMA OwedAtEnd ==
  ASSUME NEW s \in Bare, NEW full
  PROVE  Owed(s, Len(s) + 1, Len(s) + 1, full) = <<>>
<1>1. Len(s) + 1 \in Int /\ Len(s) + 1 - 1 < Len(s) + 1 /\ Len(s) + 1 > Len(s)
      /\ Len(s) + 1 - 1 \in Int
  BY BareIs
<1>2. SubSeq(s, Len(s) + 1, Len(s) + 1 - 1) = <<>>
  BY <1>1, SubSeqEmpty
<1>3. Owed(s, Len(s) + 1, Len(s) + 1, full) = <<>> \o <<>> \o <<>>
  BY <1>1, <1>2, FromEnd DEF Owed, Rest
<1> QED BY <1>3, Singles, ConcatEmptySeq

\* A byte that is written is one byte less to come.
LEMMA Shift ==
  ASSUME NEW d \in Seq(Byte), NEW x \in Byte, NEW r \in Seq(Byte)
  PROVE  /\ d \o (<<x>> \o r) = Append(d, x) \o r
         /\ Len(d \o (<<x>> \o r)) > Len(d)
<1>1. <<x>> \in Seq(Byte) /\ Append(d, x) = d \o <<x>>
  BY AppendIsConcat, Singles
<1>2. (d \o <<x>>) \o r = d \o (<<x>> \o r)
  BY <1>1, ConcatAssociative
<1>3. Append(d, x) \in Seq(Byte) /\ Len(Append(d, x)) = Len(d) + 1
  BY AppendProperties
<1>4. Len(Append(d, x) \o r) = Len(d) + 1 + Len(r)
  BY <1>3, ConcatProperties
<1>5. Len(d) \in Nat /\ Len(r) \in Nat
  BY LenProperties
<1>6. d \o (<<x>> \o r) = Append(d, x) \o r
  BY <1>1, <1>2
<1>7. Len(Append(d, x) \o r) > Len(d)
  <2>1. Len(d) + 1 + Len(r) > Len(d)
    BY <1>5
  <2> QED BY <1>4, <2>1
<1> QED BY <1>6, <1>7

\* The first code of a body.
LEMMA FirstRead ==
  ASSUME NEW s \in Bare
  PROVE  Reads(s, 2, s[1], s[1] = MaxCode, <<>>)
<1>1. 1 \in 1 .. Len(s) /\ s[1] \in Nat /\ s[1] >= 1 /\ 2 \in 2 .. Len(s) + 1
      /\ 2 + s[1] - 1 = 1 + s[1] /\ Len(s) \in Nat
  BY BareIs, Bytes
<1>2. /\ From(s)[1].whole <=> 1 + s[1] <= Len(s) + 1 /\ From(s)[1 + s[1]].whole
      /\ From(s)[1].whole
           => From(s)[1].payload = Owed(s, 1 + 1, 1 + s[1], s[1] = MaxCode)
  BY <1>1, FromAt
<1>3. From(s)[1].whole => From(s)[1].payload = <<>> \o From(s)[1].payload
  <2>1. 1 \in 1 .. Len(s) + 1
    BY <1>1
  <2>2. From(s)[1].payload \in Seq(Byte)
    BY <2>1, FromTypes
  <2> QED BY <2>2, ConcatEmptySeq
<1>4. 1 + 1 = 2
  OBVIOUS
<1>5. From(s)[1].whole
        => From(s)[1].payload = <<>> \o Owed(s, 2, 1 + s[1], s[1] = MaxCode)
  BY <1>2, <1>3, <1>4, Zenon
<1> DEFINE q == 2 + s[1] - 1
<1>6. q = 1 + s[1]
  BY <1>1
<1>7. /\ From(s)[1].whole <=> q <= Len(s) + 1 /\ From(s)[q].whole
      /\ From(s)[1].whole
           => From(s)[1].payload = <<>> \o Owed(s, 2, q, s[1] = MaxCode)
  <2> HIDE DEF q
  <2> QED BY <1>2, <1>5, <1>6, Zenon
<1>8. 2 \in 2 .. Len(s) + 1 /\ s[1] >= 1
  BY <1>1
<1> QED BY <1>7, <1>8 DEF Reads, Reference

\* The decoder has written d, the block before position p is complete, and the
\* byte there is a code.
LEMMA CodeRead ==
  ASSUME NEW s \in Bare, NEW p \in 2 .. Len(s), NEW full \in BOOLEAN,
         NEW d \in Seq(Byte), Reads(s, p, 1, full, d)
  PROVE  /\ full => Reads(s, p + 1, s[p], s[p] = MaxCode, d)
         /\ ~ full => Reads(s, p + 1, s[p], s[p] = MaxCode, Append(d, 0))
         /\ ~ full /\ Reference(s).whole => Len(Reference(s).payload) > Len(d)
<1> DEFINE q == p + s[p]
           rest == Owed(s, p + 1, q, s[p] = MaxCode)
<1>1. /\ p \in 1 .. Len(s) /\ p \in Nat /\ p + 1 - 1 = p /\ p <= Len(s) + 1
      /\ s[p] \in Nat /\ s[p] >= 1 /\ p + 1 \in 2 .. Len(s) + 1 /\ p + 1 + s[p] - 1 = q
      /\ Len(s) \in Nat /\ q \in Nat
  BY BareIs, Bytes
<1>2. /\ Reference(s).whole <=> From(s)[p].whole
      /\ Reference(s).whole => Reference(s).payload = d \o Owed(s, p, p, full)
  <2>1. p + 1 - 1 = p /\ p <= Len(s) + 1
    BY <1>1
  <2> HIDE DEF q
  <2> QED BY <2>1 DEF Reads
<1>3. /\ From(s)[p].whole <=> q <= Len(s) + 1 /\ From(s)[q].whole
      /\ From(s)[p].whole => From(s)[p].payload = rest
  BY <1>1, FromAt
<1>4. Reference(s).whole => rest \in Seq(Byte)
  <2> SUFFICES ASSUME Reference(s).whole PROVE rest \in Seq(Byte)
    OBVIOUS
  <2>1. q \in 1 .. Len(s) + 1 /\ p + 1 \in 1 .. q
    BY <1>1, <1>2, <1>3
  <2> HIDE DEF q
  <2> QED BY <2>1, OwedIs
<1>5. Owed(s, p, p, full) = IF full THEN From(s)[p].payload
                            ELSE <<0>> \o From(s)[p].payload
  BY <1>1, OwedAtCode
<1> HIDE DEF rest
<1>6. Reference(s).whole =>
        /\ full => Reference(s).payload = d \o rest
        /\ ~ full => Reference(s).payload = d \o (<<0>> \o rest)
  BY <1>2, <1>3, <1>5, Zenon
<1>7. Reference(s).whole /\ ~ full =>
        /\ Reference(s).payload = Append(d, 0) \o rest
        /\ Len(Reference(s).payload) > Len(d)
  BY <1>4, <1>6, Shift, Bytes
<1>8. ASSUME NEW w, Reference(s).whole => Reference(s).payload = w \o rest
      PROVE  Reads(s, p + 1, s[p], s[p] = MaxCode, w)
  <2> DEFINE k == p + 1 + s[p] - 1
  <2>1. k = q
    BY <1>1
  <2>2. Reference(s).whole <=> k <= Len(s) + 1 /\ From(s)[k].whole
    <3> HIDE DEF k, q
    <3> QED BY <1>2, <1>3, <2>1, Zenon
  <2>3. Reference(s).whole
          => Reference(s).payload = w \o Owed(s, p + 1, k, s[p] = MaxCode)
    <3> HIDE DEF k, q
    <3> QED BY <1>8, <2>1, Zenon DEF rest
  <2>4. p + 1 \in 2 .. Len(s) + 1 /\ s[p] >= 1
    BY <1>1
  <2> QED BY <2>2, <2>3, <2>4 DEF Reads
<1> QED BY <1>6, <1>7, <1>8, Zenon

\* The byte at position p belongs to the block.
LEMMA DataRead ==
  ASSUME NEW s \in Bare, NEW p \in 2 .. Len(s), NEW next \in Nat, next > 1,
         NEW full \in BOOLEAN, NEW d \in Seq(Byte), Reads(s, p, next, full, d)
  PROVE  /\ Reads(s, p + 1, next - 1, full, Append(d, s[p]))
         /\ Reference(s).whole => Len(Reference(s).payload) > Len(d)
<1> DEFINE q == p + next - 1
           rest == Owed(s, p + 1, q, full)
<1>1. /\ p \in 1 .. Len(s) /\ p \in Nat /\ q \in Nat /\ p < q /\ Len(s) \in Nat
      /\ p + 1 + (next - 1) - 1 = q /\ p + 1 \in 2 .. Len(s) + 1 /\ next - 1 >= 1
      /\ s[p] \in Byte
  BY BareIs
<1>2. /\ Reference(s).whole <=> q <= Len(s) + 1 /\ From(s)[q].whole
      /\ Reference(s).whole => Reference(s).payload = d \o Owed(s, p, q, full)
  BY DEF Reads
<1> HIDE DEF q
<1>3. Reference(s).whole => /\ rest \in Seq(Byte)
                            /\ Owed(s, p, q, full) = <<s[p]>> \o rest
  <2> SUFFICES ASSUME Reference(s).whole
               PROVE  /\ rest \in Seq(Byte)
                      /\ Owed(s, p, q, full) = <<s[p]>> \o rest
    OBVIOUS
  <2>1. q \in 1 .. Len(s) + 1 /\ p + 1 \in 1 .. q /\ p \in 1 .. q
    BY <1>1, <1>2
  <2> QED BY <1>1, <2>1, OwedIs
<1>4. Reference(s).whole =>
        /\ Reference(s).payload = Append(d, s[p]) \o rest
        /\ Len(Reference(s).payload) > Len(d)
  <2> HIDE DEF rest
  <2> SUFFICES ASSUME Reference(s).whole
               PROVE  /\ Reference(s).payload = Append(d, s[p]) \o rest
                      /\ Len(Reference(s).payload) > Len(d)
    OBVIOUS
  <2>1. rest \in Seq(Byte) /\ Reference(s).payload = d \o (<<s[p]>> \o rest)
    BY <1>2, <1>3, Zenon
  <2>2. /\ d \o (<<s[p]>> \o rest) = Append(d, s[p]) \o rest
        /\ Len(d \o (<<s[p]>> \o rest)) > Len(d)
    BY <1>1, <2>1, Shift
  <2> QED BY <2>1, <2>2, Zenon
<1>5. Reads(s, p + 1, next - 1, full, Append(d, s[p]))
  <2> DEFINE k == p + 1 + (next - 1) - 1
  <2>1. k = q
    BY <1>1
  <2>2. /\ Reference(s).whole <=> k <= Len(s) + 1 /\ From(s)[k].whole
        /\ Reference(s).whole
             => Reference(s).payload = Append(d, s[p]) \o Owed(s, p + 1, k, full)
    <3> HIDE DEF k
    <3> QED BY <1>2, <1>4, <2>1, Zenon
  <2>3. p + 1 \in 2 .. Len(s) + 1 /\ next - 1 >= 1
    BY <1>1
  <2> QED BY <2>2, <2>3 DEF Reads
<1> QED BY <1>4, <1>5

\* All of the body is read: it is made of whole blocks if the last is complete.
LEMMA AllRead ==
  ASSUME NEW s \in Bare, NEW p, p = Len(s) + 1, NEW next \in Nat,
         NEW full \in BOOLEAN, NEW d \in Seq(Byte), Reads(s, p, next, full, d)
  PROVE  /\ next > 1 => ~ Reference(s).whole
         /\ ~ (next > 1) => Reference(s).whole /\ d = Reference(s).payload
<1>1. p = Len(s) + 1 /\ Len(s) \in Nat /\ next >= 1
  BY BareIs DEF Reads
<1>2. CASE next > 1
  <2>1. ~ (p + next - 1 <= Len(s) + 1)
    BY <1>1, <1>2
  <2> QED BY <1>2, <2>1 DEF Reads
<1>3. CASE ~ (next > 1)
  <2>1. next = 1 /\ p + 1 - 1 = p /\ p <= Len(s) + 1
    BY <1>1, <1>3
  <2>2. /\ Reference(s).whole <=> p <= Len(s) + 1 /\ From(s)[p].whole
        /\ Reference(s).whole => Reference(s).payload = d \o Owed(s, p, p, full)
    BY <2>1 DEF Reads
  <2>3. From(s)[p].whole /\ Owed(s, p, p, full) = <<>>
    BY <1>1, FromEnd, OwedAtEnd
  <2>4. d \o <<>> = d
    BY ConcatEmptySeq
  <2> QED BY <1>3, <2>1, <2>2, <2>3, <2>4, Zenon
<1> QED BY <1>2, <1>3
-----------------------------------------------------------------------------
(* Any input at all: the decoder *)

\* The frame proper, of any input f, lies between its positions Begin and End.
Begin(f) == CHOOSE i \in 1 .. Len(f) :
              f[i] # 0 /\ \A j \in 1 .. i - 1 : ~ (f[j] # 0)
End(f) == CHOOSE i \in Begin(f) .. Len(f) :
            /\ \A j \in Begin(f) .. i : f[j] # 0
            /\ i = Len(f) \/ ~ (f[i + 1] # 0)

Padding(f) == \A i \in 1 .. Len(f) : ~ (f[i] # 0)
Proper(f) == SubSeq(f, Begin(f), End(f))

\* The position in the frame proper of the byte the decoder is at.
Place == idx + 2 - Begin(frame)

\* Where the decoder is in the frame.
Reading ==
  phase = "decode" =>
    IF started
    THEN /\ ~ Padding(frame)
         /\ Reads(Proper(frame), Place, next_sentinel_idx,
                  current_block_is_full, decoded)
    ELSE /\ next_sentinel_idx = 0 /\ ~ current_block_is_full /\ decoded = <<>>
         /\ \A i \in 1 .. idx : frame[i] = 0

DInv == IInv /\ Reading /\ DecodeAgrees

\* What decode_slice may return for the input f, after i bytes of it, with dec
\* written.
Agreed(f, size, res, dec, i) ==
  IF Padding(f)
  THEN res = "EmptyFrame"
  ELSE LET reference == Reference(Proper(f))
           delimited == End(f) < Len(f)
       IN  CASE res = "Ok" ->
                  /\ reference.whole
                  /\ dec = reference.payload
                  /\ i = IF delimited THEN End(f) + 1 ELSE End(f)
             [] res = "InvalidFrame" ->
                  ~ reference.whole /\ delimited /\ i = End(f) + 1
             [] res = "UnexpectedSourceEof" ->
                  ~ reference.whole /\ ~ delimited
             [] res = "Destination" ->
                  reference.whole => Len(reference.payload) > size
             [] OTHER -> FALSE

LEMMA AgreedIs ==
  /\ DecodeAgrees <=> (phase = "done" => Agreed(frame, capacity, result, decoded, idx))
  /\ DecodeAgrees' <=>
       (phase' = "done" => Agreed(frame', capacity', result', decoded', idx'))
BY DEF DecodeAgrees, Agreed, Padding, Proper, BodyStart, BodyEnd, Begin, End, Nonzero

LEMMA Verdicts ==
  ASSUME NEW f, ~ Padding(f), NEW size, NEW dec, NEW i
  PROVE  /\ Reference(Proper(f)).whole /\ dec = Reference(Proper(f)).payload
            /\ i = (IF End(f) < Len(f) THEN End(f) + 1 ELSE End(f))
              => Agreed(f, size, "Ok", dec, i)
         /\ ~ Reference(Proper(f)).whole /\ End(f) < Len(f) /\ i = End(f) + 1
              => Agreed(f, size, "InvalidFrame", dec, i)
         /\ ~ Reference(Proper(f)).whole /\ ~ (End(f) < Len(f))
              => Agreed(f, size, "UnexpectedSourceEof", dec, i)
         /\ (Reference(Proper(f)).whole
               => Len(Reference(Proper(f)).payload) > size)
              => Agreed(f, size, "Destination", dec, i)
BY DEF Agreed

\* The frame proper has no zero, and a zero or the end of the input after it.
LEMMA ProperIs ==
  ASSUME NEW f \in Seq(Byte), ~ Padding(f)
  PROVE  /\ Begin(f) \in 1 .. Len(f) /\ End(f) \in Begin(f) .. Len(f)
         /\ \A i \in 1 .. Begin(f) - 1 : f[i] = 0
         /\ \A i \in Begin(f) .. End(f) : f[i] # 0
         /\ End(f) = Len(f) \/ f[End(f) + 1] = 0
         /\ Proper(f) \in Bare /\ Len(Proper(f)) = End(f) - Begin(f) + 1
         /\ \A i \in 1 .. Len(Proper(f)) : Proper(f)[i] = f[Begin(f) + i - 1]
<1> DEFINE T == {i \in 1 .. Len(f) : f[i] # 0}
           B == Begin(f)
           E == End(f)
           First(i) == f[i] # 0 /\ \A j \in 1 .. i - 1 : ~ (f[j] # 0)
           Last(i) == /\ \A j \in Begin(f) .. i : f[j] # 0
                      /\ i = Len(f) \/ ~ (f[i + 1] # 0)
<1>0. Len(f) \in Nat
  OBVIOUS
<1>1. \E i \in 1 .. Len(f) : First(i)
  <2>1. T \in SUBSET Nat /\ T # {}
    BY DEF Padding
  <2>2. PICK m \in T : \A i \in T : m <= i
    <3> HIDE DEF T
    <3> QED BY <2>1, Least
  <2>3. \A j \in 1 .. m - 1 : j \in 1 .. Len(f) /\ ~ (m <= j)
    BY <1>0, <2>2
  <2> QED BY <2>2, <2>3
<1>2. B \in 1 .. Len(f) /\ First(B)
  <2> HIDE DEF First
  <2>1. Begin(f) = CHOOSE i \in 1 .. Len(f) : First(i)
    BY DEF Begin, First
  <2> QED BY <1>1, <2>1
<1> HIDE DEF B
<1>3. \E i \in B .. Len(f) : Last(i)
  <2> DEFINE R == {i \in B .. Len(f) : i = Len(f) \/ ~ (f[i + 1] # 0)}
  <2>1. R \in SUBSET Nat /\ R # {}
    <3>1. Len(f) \in R
      BY <1>0, <1>2
    <3> QED BY <1>2, <3>1
  <2>2. PICK m \in R : \A i \in R : m <= i
    <3> HIDE DEF R
    <3> QED BY <2>1, Least
  <2>3. ASSUME NEW j \in B .. m PROVE f[j] # 0
    <3>1. CASE j = B
      BY <1>2, <3>1
    <3>2. CASE j # B
      <4>1. j - 1 \in B .. Len(f) /\ ~ (m <= j - 1) /\ j - 1 # Len(f) /\ j - 1 + 1 = j
        BY <1>0, <1>2, <2>2, <3>2
      <4> QED BY <2>2, <4>1
    <3> QED BY <3>1, <3>2
  <2> QED BY <2>2, <2>3 DEF B
<1>4. E \in B .. Len(f) /\ Last(E)
  <2> HIDE DEF Last
  <2>1. End(f) = CHOOSE i \in Begin(f) .. Len(f) : Last(i)
    BY DEF End, Last
  <2> QED BY <1>3, <2>1 DEF B
<1>5. \A j \in B .. E : f[j] # 0
  BY <1>4 DEF B
<1> HIDE DEF E
<1>6. /\ SubSeq(f, B, E) \in Seq(Byte) /\ Len(SubSeq(f, B, E)) = E - B + 1
      /\ \A i \in 1 .. E - B + 1 : SubSeq(f, B, E)[i] = f[B + i - 1]
  <2>1. B \in Nat /\ E \in Nat /\ B <= E /\ E <= Len(f) /\ B >= 1
    BY <1>0, <1>2, <1>4
  <2>2. SubSeq(f, B, E) \in Seq(Byte)
    <3>1. B \in 1 .. Len(f) + 1 /\ E \in Int
      BY <1>0, <2>1
    <3> QED BY <2>1, <3>1, Slice
  <2>3. Len(SubSeq(f, B, E)) = E - B + 1
    BY <2>1
  <2>4. \A i \in 1 .. E - B + 1 : SubSeq(f, B, E)[i] = f[B + i - 1]
    BY <2>1
  <2> QED BY <2>2, <2>3, <2>4
<1> DEFINE s == SubSeq(f, B, E)
<1>7. s \in Bare
  <2>1. ASSUME NEW i \in 1 .. Len(s) PROVE s[i] # 0
    <3>1. i \in 1 .. E - B + 1
      BY <1>6
    <3>2. B + i - 1 \in B .. E
      BY <1>2, <1>4, <3>1
    <3> QED BY <1>5, <1>6, <3>1, <3>2
  <2>2. s # <<>>
    <3>1. Len(s) # 0
      BY <1>0, <1>2, <1>4, <1>6
    <3> HIDE DEF s
    <3> QED BY <3>1
  <2>3. s \in Seq(Byte)
    BY <1>6
  <2> HIDE DEF s
  <2> QED BY <2>1, <2>2, <2>3 DEF Bare
<1>8. Proper(f) = s
  BY DEF Proper, B, E
<1>9. E = Len(f) \/ f[E + 1] = 0
  BY <1>4 DEF E
<1>10. \A i \in 1 .. B - 1 : f[i] = 0
  BY <1>2
<1>11. \A i \in 1 .. Len(s) : s[i] = f[B + i - 1]
  BY <1>6
<1> HIDE DEF s
<1> QED BY <1>2, <1>4, <1>5, <1>6, <1>7, <1>8, <1>9, <1>10, <1>11 DEF B, E, s

LEMMA DecoderHas ==
  ASSUME IInv
  PROVE  /\ frame \in Seq(Byte) /\ Len(frame) \in Nat /\ idx \in 0 .. Len(frame)
         /\ next_sentinel_idx \in Byte /\ next_sentinel_idx \in Nat
         /\ current_block_is_full \in BOOLEAN /\ started \in BOOLEAN
         /\ decoded \in Seq(Byte) /\ Len(decoded) \in Nat /\ capacity \in Nat
<1>1. /\ frame \in Seq(Byte) /\ idx \in 0 .. Len(frame)
      /\ next_sentinel_idx \in Byte
      /\ current_block_is_full \in BOOLEAN /\ started \in BOOLEAN
      /\ decoded \in Seq(Byte) /\ capacity \in Nat
  BY DEF IInv, CodecTypeOK
<1>2. Len(frame) \in Nat /\ Len(decoded) \in Nat /\ next_sentinel_idx \in Nat
  BY <1>1, LenProperties, Bytes
<1> QED BY <1>1, <1>2

\* The byte at hand is one of the frame proper, or the frame is at its end.
LEMMA AtByte ==
  ASSUME IInv, Reading, phase = "decode", started
  PROVE  /\ ~ Padding(frame) /\ Proper(frame) \in Bare
         /\ Place \in 2 .. Len(Proper(frame)) + 1 /\ next_sentinel_idx >= 1
         /\ Reads(Proper(frame), Place, next_sentinel_idx,
                  current_block_is_full, decoded)
         /\ idx < Len(frame) /\ frame[idx + 1] # 0
              => /\ Place \in 2 .. Len(Proper(frame))
                 /\ Proper(frame)[Place] = frame[idx + 1]
         /\ idx < Len(frame) /\ frame[idx + 1] = 0
              => /\ Place = Len(Proper(frame)) + 1
                 /\ idx = End(frame) /\ End(frame) < Len(frame)
         /\ idx = Len(frame)
              => Place = Len(Proper(frame)) + 1 /\ idx = End(frame)
<1> DEFINE s == Proper(frame)
           B == Begin(frame)
           E == End(frame)
<1>1. ~ Padding(frame) /\ Reads(s, Place, next_sentinel_idx,
                                current_block_is_full, decoded)
  BY DEF Reading
<1>2. Place \in 2 .. Len(s) + 1 /\ next_sentinel_idx >= 1
  BY <1>1 DEF Reads
<1>3. /\ B \in 1 .. Len(frame) /\ E \in B .. Len(frame)
      /\ \A i \in B .. E : frame[i] # 0
      /\ E = Len(frame) \/ frame[E + 1] = 0
      /\ s \in Bare /\ Len(s) = E - B + 1
      /\ \A i \in 1 .. Len(s) : s[i] = frame[B + i - 1]
  BY <1>1, DecoderHas, ProperIs
<1>4. Place = idx + 2 - B
  BY DEF Place
<1>5. Len(frame) \in Nat /\ idx \in 0 .. Len(frame)
  BY DecoderHas
<1> HIDE DEF s, B, E
<1>6. idx \in B .. E
  BY <1>2, <1>3, <1>4, <1>5
<1>7. ASSUME idx < Len(frame), frame[idx + 1] # 0
      PROVE  Place \in 2 .. Len(s) /\ s[Place] = frame[idx + 1]
  <2>1. idx # E
    BY <1>3, <1>5, <1>7
  <2>2. Place \in 2 .. Len(s) /\ Place \in 1 .. Len(s) /\ B + Place - 1 = idx + 1
    BY <1>2, <1>3, <1>4, <1>5, <1>6, <2>1
  <2>3. s[Place] = frame[B + Place - 1]
    BY <1>3, <2>2
  <2> QED BY <2>2, <2>3
<1>8. ASSUME idx < Len(frame), frame[idx + 1] = 0
      PROVE  Place = Len(s) + 1 /\ idx = E /\ E < Len(frame)
  <2>1. ~ (idx + 1 \in B .. E)
    BY <1>3, <1>8
  <2>2. idx = E
    BY <1>3, <1>6, <2>1
  <2> QED BY <1>3, <1>4, <1>6, <1>8, <2>2
<1>9. ASSUME idx = Len(frame)
      PROVE  Place = Len(s) + 1 /\ idx = E
  <2>1. idx = E
    BY <1>3, <1>5, <1>6, <1>9
  <2> QED BY <1>3, <1>4, <1>6, <2>1
<1> QED BY <1>1, <1>2, <1>3, <1>7, <1>8, <1>9 DEF s, E

\* The next byte brings the decoder one position on.
LEMMA NextPlace ==
  ASSUME IInv, Reading, phase = "decode", started, idx' = idx + 1, frame' = frame
  PROVE  Place' = Place + 1
<1>1. Begin(frame) \in Nat /\ idx \in Nat
  BY AtByte, DecoderHas, ProperIs
<1>2. Place' = idx + 1 + 2 - Begin(frame)
  BY DEF Place
<1>3. idx + 1 + 2 - Begin(frame) = idx + 2 - Begin(frame) + 1
  BY <1>1
<1> QED BY <1>2, <1>3 DEF Place

\* The destination is full, and the next value of the payload does not fit.
LEMMA NoRoom ==
  ASSUME IInv, Reading, phase = "decode", started,
         ~ (Len(decoded) < capacity),
         Reference(Proper(frame)).whole
           => Len(Reference(Proper(frame)).payload) > Len(decoded),
         phase' = "done", result' = "Destination",
         frame' = frame, capacity' = capacity
  PROVE  Reading' /\ DecodeAgrees'
<1> DEFINE r == Reference(Proper(frame))
<1>1. ~ Padding(frame)
  BY AtByte
<1>2. Proper(frame) \in Bare /\ 1 \in 1 .. Len(Proper(frame)) + 1
  BY AtByte, BareIs
<1>3. r.payload \in Seq(Byte)
  BY <1>2, FromTypes DEF Reference
<1>4. Len(r.payload) \in Nat /\ Len(decoded) \in Nat /\ capacity \in Nat
  BY <1>3, LenProperties, DecoderHas
<1> HIDE DEF r
<1>5. r.whole => Len(r.payload) > capacity
  BY <1>4 DEF r
<1>6. Agreed(frame, capacity, "Destination", decoded', idx')
  BY <1>1, <1>5, Verdicts DEF r
<1> QED BY <1>6, AgreedIs DEF Reading

LEMMA PushCodeReads ==
  ASSUME IInv, Reading, NEW byte \in Byte, PushCode(byte)
  PROVE  Reading' /\ DecodeAgrees'
<1>1. /\ phase = "decode" /\ idx < Len(frame) /\ byte = frame[idx + 1] /\ byte # 0
      /\ next_sentinel_idx <= 1 /\ next_sentinel_idx' = byte
      /\ frame' = frame /\ capacity' = capacity /\ started'
  BY DEF PushCode, More, DecodeKeeps, Store
<1>2. current_block_is_full' = (byte = MaxCode)
  BY DEF PushCode
<1> DEFINE s == Proper(frame)
<1>3. CASE ~ started
  <2>1. /\ next_sentinel_idx = 0 /\ decoded = <<>>
        /\ \A i \in 1 .. idx : frame[i] = 0
    BY <1>1, <1>3 DEF Reading
  <2>2. ~ ImpliesZero
    BY <2>1 DEF ImpliesZero
  <2>3. idx' = idx + 1 /\ decoded' = <<>> /\ phase' = "decode"
    BY <1>1, <2>1, <2>2 DEF PushCode
  <2>4. frame \in Seq(Byte) /\ Len(frame) \in Nat /\ idx \in 0 .. Len(frame)
    BY DecoderHas
  <2>5. idx + 1 \in 1 .. Len(frame)
    BY <1>1, <2>4
  <2>6. ~ Padding(frame)
    BY <1>1, <2>5 DEF Padding
  <2>7. /\ Begin(frame) \in 1 .. Len(frame) /\ End(frame) \in Begin(frame) .. Len(frame)
        /\ \A i \in 1 .. Begin(frame) - 1 : frame[i] = 0
        /\ \A i \in Begin(frame) .. End(frame) : frame[i] # 0
        /\ s \in Bare /\ \A i \in 1 .. Len(s) : s[i] = frame[Begin(frame) + i - 1]
    BY <2>4, <2>6, ProperIs
  <2>8. Begin(frame) = idx + 1
    <3>1. ~ (idx + 1 \in 1 .. Begin(frame) - 1)
      BY <1>1, <2>7
    <3>2. ~ (Begin(frame) \in 1 .. idx)
      <4>1. Begin(frame) \in Begin(frame) .. End(frame)
        BY <2>4, <2>7
      <4> QED BY <2>1, <2>7, <4>1
    <3> QED BY <2>4, <2>5, <2>7, <3>1, <3>2
  <2>9. 1 \in 1 .. Len(s) /\ s[1] = byte
    <3>1. 1 \in 1 .. Len(s)
      BY <2>7, BareIs
    <3>2. Begin(frame) + 1 - 1 = idx + 1
      BY <2>4, <2>8
    <3>3. s[1] = frame[Begin(frame) + 1 - 1]
      BY <2>7, <3>1
    <3> QED BY <1>1, <3>1, <3>2, <3>3
  <2>10. Place' = 2
    BY <1>1, <2>3, <2>4, <2>8 DEF Place
  <2>11. Reads(s, 2, byte, byte = MaxCode, <<>>)
    BY <2>7, <2>9, FirstRead
  <2> HIDE DEF s
  <2>12. Reads(s, Place', next_sentinel_idx', current_block_is_full', decoded')
    BY <1>1, <1>2, <2>3, <2>10, <2>11, Zenon
  <2>13. Reading'
    BY <1>1, <2>3, <2>6, <2>12 DEF Reading, s
  <2> QED BY <2>3, <2>13, AgreedIs
<1>4. CASE started
  <2> DEFINE p == Place
  <2>1. /\ s \in Bare /\ p \in 2 .. Len(s) /\ s[p] = byte
        /\ next_sentinel_idx >= 1
        /\ Reads(s, p, next_sentinel_idx, current_block_is_full, decoded)
        /\ ~ Padding(frame)
    BY <1>1, <1>4, AtByte
  <2>2. next_sentinel_idx = 1
    BY <1>1, <2>1, DecoderHas
  <2>3. /\ current_block_is_full => Reads(s, p + 1, byte, byte = MaxCode, decoded)
        /\ ~ current_block_is_full
             => Reads(s, p + 1, byte, byte = MaxCode, Append(decoded, 0))
        /\ ~ current_block_is_full /\ Reference(s).whole
             => Len(Reference(s).payload) > Len(decoded)
    BY <2>1, <2>2, DecoderHas, CodeRead
  <2>4. ASSUME idx' = idx + 1, phase' = "decode",
               Reads(s, p + 1, byte, byte = MaxCode, decoded')
        PROVE  Reading' /\ DecodeAgrees'
    <3>1. Place' = p + 1
      BY <1>1, <1>4, <2>4, NextPlace
    <3> HIDE DEF s, p
    <3>2. Reads(s, Place', next_sentinel_idx', current_block_is_full', decoded')
      BY <1>1, <1>2, <2>4, <3>1, Zenon
    <3>3. Reading'
      BY <1>1, <2>1, <2>4, <3>2 DEF Reading, s
    <3> QED BY <2>4, <3>3, AgreedIs
  <2>5. CASE current_block_is_full
    <3>1. ~ ImpliesZero
      BY <2>5 DEF ImpliesZero
    <3>2. idx' = idx + 1 /\ decoded' = decoded /\ phase' = "decode"
      BY <1>1, <3>1 DEF PushCode
    <3> QED BY <2>3, <2>4, <2>5, <3>2
  <2>6. CASE ~ current_block_is_full
    <3>1. ImpliesZero
      BY <2>2, <2>6 DEF ImpliesZero
    <3>2. Store(0)
      BY <3>1 DEF PushCode
    <3>3. CASE Len(decoded) < capacity
      <4>1. idx' = idx + 1 /\ decoded' = Append(decoded, 0) /\ phase' = "decode"
        BY <1>1, <3>2, <3>3 DEF Store
      <4> QED BY <2>3, <2>4, <2>6, <4>1
    <3>4. CASE ~ (Len(decoded) < capacity)
      <4>1. phase' = "done" /\ result' = "Destination"
        BY <3>2, <3>4 DEF Store
      <4> QED BY <1>1, <1>4, <2>3, <2>6, <3>4, <4>1, NoRoom
    <3> QED BY <3>3, <3>4
  <2> QED BY <2>5, <2>6
<1> QED BY <1>3, <1>4

LEMMA PushDataReads ==
  ASSUME IInv, Reading, NEW byte \in Byte, PushData(byte)
  PROVE  Reading' /\ DecodeAgrees'
<1>1. /\ phase = "decode" /\ idx < Len(frame) /\ byte = frame[idx + 1] /\ byte # 0
      /\ next_sentinel_idx > 1 /\ next_sentinel_idx' = next_sentinel_idx - 1
      /\ current_block_is_full' = current_block_is_full
      /\ frame' = frame /\ capacity' = capacity /\ started' /\ Store(byte)
  BY DEF PushData, More, DecodeKeeps, Store
<1>2. started
  BY <1>1 DEF Reading
<1> DEFINE s == Proper(frame)
           p == Place
<1>3. /\ s \in Bare /\ p \in 2 .. Len(s) /\ s[p] = byte
      /\ Reads(s, p, next_sentinel_idx, current_block_is_full, decoded)
      /\ ~ Padding(frame)
  BY <1>1, <1>2, AtByte
<1>4. /\ Reads(s, p + 1, next_sentinel_idx - 1, current_block_is_full,
               Append(decoded, byte))
      /\ Reference(s).whole => Len(Reference(s).payload) > Len(decoded)
  BY <1>1, <1>3, DecoderHas, DataRead
<1>5. CASE Len(decoded) < capacity
  <2>1. idx' = idx + 1 /\ decoded' = Append(decoded, byte) /\ phase' = "decode"
    BY <1>1, <1>5 DEF Store
  <2>2. Place' = p + 1
    BY <1>1, <1>2, <2>1, NextPlace
  <2> HIDE DEF s, p
  <2>3. Reads(s, Place', next_sentinel_idx', current_block_is_full', decoded')
    BY <1>1, <1>4, <2>1, <2>2, Zenon
  <2>4. Reading'
    BY <1>1, <1>3, <2>1, <2>3 DEF Reading, s
  <2> QED BY <2>1, <2>4, AgreedIs
<1>6. CASE ~ (Len(decoded) < capacity)
  <2>1. phase' = "done" /\ result' = "Destination"
    BY <1>1, <1>6 DEF Store
  <2> QED BY <1>1, <1>2, <1>4, <1>6, <2>1, NoRoom
<1> QED BY <1>5, <1>6

LEMMA PushDelimiterReads ==
  ASSUME IInv, Reading, PushDelimiter
  PROVE  Reading' /\ DecodeAgrees'
<1>1. /\ phase = "decode" /\ idx < Len(frame) /\ frame[idx + 1] = 0 /\ started
      /\ idx' = idx + 1 /\ phase' = "done" /\ decoded' = decoded
      /\ result' = IF InBlock THEN "InvalidFrame" ELSE "Ok"
      /\ frame' = frame /\ capacity' = capacity
  BY DEF PushDelimiter, More, DecodeKeeps
<1> DEFINE s == Proper(frame)
<1>2. /\ s \in Bare /\ Place = Len(s) + 1
      /\ Reads(s, Place, next_sentinel_idx, current_block_is_full, decoded)
      /\ ~ Padding(frame)
      /\ idx' = End(frame) + 1 /\ End(frame) < Len(frame)
  BY <1>1, AtByte
<1>3. /\ InBlock => ~ Reference(s).whole
      /\ ~ InBlock => Reference(s).whole /\ decoded = Reference(s).payload
  BY <1>2, DecoderHas, AllRead DEF InBlock
<1>4. CASE InBlock
  <2>1. Agreed(frame, capacity, "InvalidFrame", decoded', idx')
    BY <1>2, <1>3, <1>4, Verdicts
  <2> QED BY <1>1, <1>4, <2>1, AgreedIs DEF Reading
<1>5. CASE ~ InBlock
  <2>1. Agreed(frame, capacity, "Ok", decoded', idx')
    BY <1>1, <1>2, <1>3, <1>5, Verdicts
  <2> QED BY <1>1, <1>5, <2>1, AgreedIs DEF Reading
<1> QED BY <1>4, <1>5

LEMMA EndOfSourceReads ==
  ASSUME IInv, Reading, EndOfSource
  PROVE  Reading' /\ DecodeAgrees'
<1>1. /\ phase = "decode" /\ idx = Len(frame)
      /\ idx' = idx /\ phase' = "done" /\ decoded' = decoded
      /\ result' = IF InBlock THEN "UnexpectedSourceEof"
                   ELSE IF started THEN "Ok" ELSE "EmptyFrame"
      /\ frame' = frame /\ capacity' = capacity
  BY DEF EndOfSource, DecodeKeeps
<1> DEFINE s == Proper(frame)
<1>2. CASE ~ started
  <2>1. ~ InBlock /\ Padding(frame)
    BY <1>1, <1>2 DEF Reading, InBlock, Padding
  <2>2. Agreed(frame, capacity, "EmptyFrame", decoded', idx')
    BY <2>1 DEF Agreed
  <2> QED BY <1>1, <1>2, <2>1, <2>2, AgreedIs DEF Reading
<1>3. CASE started
  <2>1. /\ s \in Bare /\ Place = Len(s) + 1
        /\ Reads(s, Place, next_sentinel_idx, current_block_is_full, decoded)
        /\ ~ Padding(frame) /\ idx' = End(frame) /\ ~ (End(frame) < Len(frame))
    <3>1. /\ s \in Bare /\ Place = Len(s) + 1
          /\ Reads(s, Place, next_sentinel_idx, current_block_is_full, decoded)
          /\ ~ Padding(frame) /\ idx = End(frame)
      BY <1>1, <1>3, AtByte
    <3>2. ~ (Len(frame) < Len(frame))
      BY DecoderHas
    <3> QED BY <1>1, <3>1, <3>2
  <2>2. /\ InBlock => ~ Reference(s).whole
        /\ ~ InBlock => Reference(s).whole /\ decoded = Reference(s).payload
    BY <2>1, DecoderHas, AllRead DEF InBlock
  <2>3. CASE InBlock
    <3>1. Agreed(frame, capacity, "UnexpectedSourceEof", decoded', idx')
      BY <2>1, <2>2, <2>3, Verdicts
    <3> QED BY <1>1, <2>3, <3>1, AgreedIs DEF Reading
  <2>4. CASE ~ InBlock
    <3>1. Agreed(frame, capacity, "Ok", decoded', idx')
      BY <1>1, <2>1, <2>2, <2>4, Verdicts
    <3> QED BY <1>1, <1>3, <2>4, <3>1, AgreedIs DEF Reading
  <2> QED BY <2>3, <2>4
<1> QED BY <1>2, <1>3

\* Before the first code nothing is decoded.
LEMMA SkipPaddingReads ==
  ASSUME IInv, Reading, SkipPadding
  PROVE  Reading' /\ DecodeAgrees'
<1>1. /\ phase' = "decode" /\ ~ started' /\ next_sentinel_idx' = 0
      /\ ~ current_block_is_full' /\ decoded' = <<>> /\ idx' = idx + 1
      /\ frame' = frame /\ frame[idx + 1] = 0 /\ \A i \in 1 .. idx : frame[i] = 0
  BY DEF Reading, SkipPadding, More, DecodeKeeps
<1>2. \A i \in 1 .. idx + 1 : i = idx + 1 \/ i \in 1 .. idx
  BY DecoderHas
<1>3. \A i \in 1 .. idx' : frame'[i] = 0
  BY <1>1, <1>2
<1> QED BY <1>1, <1>3, AgreedIs DEF Reading

\* The decoder begins with the frame of the encoder, or with any input.
LEMMA NotBegun ==
  ASSUME InitDecoder', phase' # "done"
  PROVE  Reading' /\ DecodeAgrees'
BY AgreedIs DEF InitDecoder, Reading

LEMMA EncodeReads ==
  ASSUME IInv,
         EncodeZero \/ (\E byte \in Byte \ {0} : EncodeByte(byte) \/ EncodeFull(byte))
           \/ EncodeEnd
  PROVE  Reading' /\ DecodeAgrees'
<1>1. phase = "encode" /\ phase' # "done" /\ UNCHANGED decodeVars
  BY DEF EncodeZero, EncodeByte, EncodeFull, EncodeEnd, EncodeKeeps, Encoded
<1>2. InitDecoder
  BY <1>1 DEF IInv, Encoding
<1>3. InitDecoder'
  BY <1>1, <1>2 DEF InitDecoder, decodeVars
<1> QED BY <1>1, <1>3, NotBegun

LEMMA InitDInv == Init \/ DecodeInit => DInv
<1> SUFFICES ASSUME Init \/ DecodeInit PROVE DInv
  OBVIOUS
<1>1. phase # "done" /\ InitDecoder
  BY DEF Init, DecodeInit
<1>2. Reading /\ DecodeAgrees
  BY <1>1, AgreedIs DEF InitDecoder, Reading
<1> QED BY <1>2, InitIInv DEF DInv

LEMMA NextDInv == DInv /\ [Next]_vars => DInv'
<1> SUFFICES ASSUME DInv, [Next]_vars PROVE DInv'
  OBVIOUS
<1>1. IInv /\ Reading /\ DecodeAgrees /\ IInv'
  BY NextIInv DEF DInv
<1>2. Reading' /\ DecodeAgrees'
  <2>1. CASE UNCHANGED vars
    <3>1. Reading'
      BY <1>1, <2>1 DEF Reading, Place, vars, decodeVars
    <3>2. DecodeAgrees'
      BY <1>1, <2>1, AgreedIs DEF vars, decodeVars
    <3> QED BY <3>1, <3>2
  <2>2. CASE Next
    BY <1>1, <2>2, EncodeReads, SkipPaddingReads, PushCodeReads, PushDataReads,
       PushDelimiterReads, EndOfSourceReads DEF Next
  <2> QED BY <2>1, <2>2
<1> QED BY <1>1, <1>2 DEF DInv

-----------------------------------------------------------------------------
\* decode_slice finds the first frame of any input, returns Ok exactly for
\* bodies made of whole blocks, with the payload these stand for, and a length
\* error only when the payload is longer than the destination.
THEOREM AnyInputIsDecoded == Spec => []DecodeAgrees
<1>1. DInv => DecodeAgrees
  BY DEF DInv
<1> QED BY <1>1, InitDInv, NextDInv, PTL DEF Spec
=============================================================================
