------------------------------ MODULE Protocol ------------------------------
(***************************************************************************)
(* The sizing loop of protocol.rs: max_payload(capacity), the largest      *)
(* payload whose delimited DATA frame fits a frame buffer, and             *)
(* Reliable::new, which refuses a capacity that leaves no payload.         *)
(***************************************************************************)
EXTENDS CobsBounds

CONSTANTS
  Overhead,      \* OVERHEAD: bytes of header and checksum, 17 in the code
  Capacities     \* values of N, the size of a frame buffer

ASSUME OverheadAssumption == Overhead \in Nat \ {0}
ASSUME CapacitiesAssumption == Capacities \subseteq Nat

VARIABLES
  pc,            \* "loop", "done", or "rejected" by new
  capacity,
  body,          \* room between the two delimiters
  len,           \* candidate length of a packet before encoding
  payload        \* the result, MAX_PAYLOAD

vars == <<pc, capacity, body, len, payload>>

\* capacity.checked_sub(2): without room for the delimiters the result is 0.
Init ==
  /\ capacity \in Capacities
  /\ body = IF capacity < 2 THEN 0 ELSE capacity - 2
  /\ len = body
  /\ payload = 0
  /\ pc = IF capacity < 2 THEN "rejected" ELSE "loop"

\* Mutant: the comparison forgets one of the delimiters.
TooLong_at_edge == len > Overhead /\ max_encoding_length(len) > body + 1

\* Mutant: a frame that fills the buffer exactly is taken for too long.
TooLong_exact == len > Overhead /\ max_encoding_length(len) >= body

\* The condition of the loop.
TooLong == len > Overhead /\ max_encoding_length(len) > body

Shrink ==
  /\ pc = "loop"
  /\ TooLong
  /\ len' = len - 1
  /\ UNCHANGED <<pc, capacity, body, payload>>

\* len.saturating_sub(OVERHEAD)
Payload == IF len > Overhead THEN len - Overhead ELSE 0

\* max_payload returns, and new accepts a capacity for at least one byte.
Settle ==
  /\ pc = "loop"
  /\ ~ TooLong
  /\ payload' = Payload
  /\ pc' = IF Payload = 0 THEN "rejected" ELSE "done"
  /\ UNCHANGED <<capacity, body, len>>

Next == Shrink \/ Settle

Spec == Init /\ [][Next]_vars

-----------------------------------------------------------------------------
(* Properties *)

\* The encoded length of a DATA frame with n bytes of payload, both delimiters
\* included, in the worst case.
FrameBytes(n) == max_encoding_length(n + Overhead) + 2

\* seal's expect: the frame of the largest payload fits the frame buffer, so
\* encoding an accepted packet never runs out of bounds.
LargestFits == pc = "done" => payload > 0 /\ FrameBytes(payload) <= capacity

\* "Largest payload whose delimited frame fits": one more byte would not, and
\* new rejects a capacity only if not even one byte fits.
LargestIsLargest ==
  pc \in {"done", "rejected"} =>
    \A n \in payload + 1 .. capacity + 1 : FrameBytes(n) > capacity
=============================================================================
