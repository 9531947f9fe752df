-------------------------- MODULE Protocol_proofs ---------------------------
(***************************************************************************)
(* max_payload is right for every capacity, every length of a COBS block   *)
(* and every overhead: the argument is the loop invariant PassedOver.      *)
(***************************************************************************)
EXTENDS Protocol, TLAPS

\* What justifies the result: every length passed over was too long.
PassedOver ==
  /\ pc \in {"loop", "done", "rejected"}
  /\ capacity \in Nat
  /\ len \in 0 .. body
  /\ IF capacity < 2 THEN body = 0 /\ pc = "rejected" ELSE body = capacity - 2
  /\ \A l \in len + 1 .. body : l > Overhead => max_encoding_length(l) > body
  /\ IF pc = "loop" THEN payload = 0
     ELSE payload = Payload /\ ~ TooLong
  /\ pc = "done" => payload > 0
  /\ pc = "rejected" => payload = 0

-----------------------------------------------------------------------------
\* A worst-case encoding is a natural number and no shorter than its source.
LEMMA EncodingLength ==
  ASSUME NEW n \in Nat
  PROVE  max_encoding_length(n) \in Nat /\ max_encoding_length(n) >= n
<1>1. BlockLen \in Nat /\ BlockLen > 0
  BY MaxCodeAssumption DEF BlockLen
<1>2. CASE n = 0
  BY <1>2 DEF max_encoding_length, max_encoding_overhead
<1>3. CASE n # 0
  <2> DEFINE q == (n + BlockLen - 1) \div BlockLen
  <2>1. q \in Nat
    <3>1. n + BlockLen - 1 \in Nat
      BY <1>1
    <3> HIDE DEF q
    <3> DEFINE m == n + BlockLen - 1
    <3>2. m \in Nat /\ q = m \div BlockLen
      BY <3>1 DEF q
    <3> HIDE DEF m
    <3> QED BY <3>2, <1>1
  <2>2. max_encoding_length(n) = n + q
    BY <1>3 DEF max_encoding_length, max_encoding_overhead
  <2> HIDE DEF q
  <2> QED BY <2>1, <2>2
<1> QED BY <1>2, <1>3

\* The loop starts with the whole body as candidate.
LEMMA PassedOverInit == Init => PassedOver
<1> SUFFICES ASSUME Init PROVE PassedOver
  OBVIOUS
<1>1. capacity \in Nat
  BY CapacitiesAssumption DEF Init
<1> QED BY <1>1, OverheadAssumption DEF Init, PassedOver, TooLong, Payload

\* Each step passes over one length that is too long, or ends the loop.
LEMMA PassedOverNext == PassedOver /\ [Next]_vars => PassedOver'
<1> SUFFICES ASSUME PassedOver, [Next]_vars PROVE PassedOver'
  OBVIOUS
<1>1. CASE Shrink
  <2>1. len - 1 \in 0 .. body /\ len \in Nat /\ body \in Nat
    BY <1>1, OverheadAssumption DEF Shrink, PassedOver, TooLong
  <2>2. ASSUME NEW l \in len' + 1 .. body', l > Overhead
        PROVE  max_encoding_length(l) > body'
    <3>1. CASE l = len
      BY <3>1, <1>1 DEF Shrink, TooLong
    <3>2. CASE l # len
      <4>1. l \in len + 1 .. body
        BY <2>1, <2>2, <3>2, <1>1 DEF Shrink
      <4> QED BY <4>1, <2>2, <1>1 DEF Shrink, PassedOver
    <3> QED BY <3>1, <3>2
  <2> QED BY <1>1, <2>1, <2>2 DEF Shrink, PassedOver
<1>2. CASE Settle
  BY <1>2, OverheadAssumption DEF Settle, PassedOver, Payload, TooLong
<1>3. CASE UNCHANGED vars
  BY <1>3 DEF vars, PassedOver, Payload, TooLong
<1> QED BY <1>1, <1>2, <1>3 DEF Next

\* The loop invariant holds throughout max_payload.
THEOREM LoopInvariant == Spec => []PassedOver
<1> QED BY PassedOverInit, PassedOverNext, PTL DEF Spec

\* The frame of a packet of MAX_PAYLOAD bytes fits a frame buffer of any size N
\* that Reliable::new accepts: seal's expect cannot fail.
THEOREM FrameFits == Spec => []LargestFits
<1>1. PassedOver => LargestFits
  <2> SUFFICES ASSUME PassedOver, pc = "done"
               PROVE  payload > 0 /\ FrameBytes(payload) <= capacity
    BY DEF LargestFits
  <2>1. /\ payload > 0 /\ payload = Payload /\ ~ TooLong
        /\ len \in Nat /\ body = capacity - 2 /\ capacity \in Nat
    BY DEF PassedOver
  <2>2. payload + Overhead = len /\ len > Overhead
    BY <2>1, OverheadAssumption DEF Payload
  <2>3. max_encoding_length(len) <= body
    BY <2>1, <2>2, EncodingLength DEF TooLong
  <2>4. max_encoding_length(len) \in Nat
    BY <2>1, EncodingLength
  <2> QED BY <2>1, <2>2, <2>3, <2>4 DEF FrameBytes
<1> QED BY <1>1, LoopInvariant, PTL

\* MAX_PAYLOAD is the largest payload whose frame fits, and Reliable::new
\* rejects a capacity only if no payload fits.
THEOREM NoLargerFits == Spec => []LargestIsLargest
<1>1. PassedOver => LargestIsLargest
  <2> SUFFICES ASSUME PassedOver, pc \in {"done", "rejected"},
                      NEW n \in payload + 1 .. capacity + 1
               PROVE  FrameBytes(n) > capacity
    BY DEF LargestIsLargest
  <2>1. /\ payload = Payload /\ len \in Nat /\ len <= body
        /\ capacity \in Nat /\ body \in Nat /\ capacity < body + 3
    BY DEF PassedOver
  <2>2. /\ n \in Nat /\ n > 0 /\ n + Overhead > len
        /\ n + Overhead > Overhead /\ n + Overhead \in Nat
    BY <2>1, OverheadAssumption DEF Payload
  <2> DEFINE l == n + Overhead
  <2>3. max_encoding_length(l) \in Nat /\ max_encoding_length(l) >= l
    BY <2>2, EncodingLength
  <2>4. max_encoding_length(l) > body
    <3>1. CASE l <= body
      <4>1. l \in len + 1 .. body /\ l > Overhead
        BY <2>1, <2>2, <3>1
      <4> QED BY <4>1 DEF PassedOver
    <3>2. CASE l > body
      BY <3>2, <2>1, <2>2, <2>3
    <3> QED BY <3>1, <3>2, <2>1, <2>2
  <2>5. FrameBytes(n) = max_encoding_length(l) + 2
    BY DEF FrameBytes
  <2> HIDE DEF l
  <2> QED BY <2>1, <2>3, <2>4, <2>5
<1> QED BY <1>1, LoopInvariant, PTL
=============================================================================
