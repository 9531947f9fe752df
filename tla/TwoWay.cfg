\* One packet each way, so that DATA and ACK frames of a peer compete.
CONSTANTS
  A = A
  B = B
  Session <- MCSession
  MaxRetries = 1
  MaxPayload = 1
  SeqLimit = 4
  StepBudget = 2
  FinalInput = 1
  DataLen = 2
  AckLen = 1
  Byte <- MCByte
  Input <- TwoWayInput
  Ops <- TwoWayOps
  LinkErrors = {}
  Inserted = {}
  ChanCap = 1
SPECIFICATION Spec
INVARIANTS IInv NothingStranded
SYMMETRY Symmetry
