----------------------------- MODULE CobsBounds -----------------------------
(***************************************************************************)
(* The size arithmetic of COBS (lib.rs), for any length of a full block.   *)
(***************************************************************************)
EXTENDS Integers

CONSTANT MaxCode     \* the code of a full block, u8::MAX in the code

ASSUME MaxCodeAssumption == MaxCode \in Nat /\ MaxCode >= 2

\* Payload bytes of a full block: 254.
BlockLen == MaxCode - 1

\* Mutant: the division rounds down.
max_encoding_overhead_floor(source_len) ==
  IF source_len = 0 THEN 1 ELSE source_len \div BlockLen

max_encoding_overhead(source_len) ==
  IF source_len = 0 THEN 1 ELSE (source_len + BlockLen - 1) \div BlockLen

max_encoding_length(source_len) == source_len + max_encoding_overhead(source_len)
=============================================================================
