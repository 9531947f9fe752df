\* One or two damaged bits anywhere in a packet of 17 to 19 bytes.
CONSTANTS
  Sessions <- MCSessions
  Seqs <- MCSeqs
  Payloads <- MCPayloads
  Bodies <- MCBodies
  MaxFlips = 2
SPECIFICATION Spec
INVARIANTS Understood DamageIsSeen CanonicalOnly ChecksumIsCrc32
CHECK_DEADLOCK FALSE
