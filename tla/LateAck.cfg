\* Every unfinished run, every tail of a frame and every cut into reads, and up
\* to eight bytes behind the acknowledgment.
CONSTANTS
  N = 6
  Byte = {0, 1, 2}
  MaxStream = 30
  AckLen = 4
  Behind = {0, 1, 8}
SPECIFICATION LateSpec
INVARIANTS LateAckCounts NoEndlessAllowance
