\* Liveness: one packet over a link that may lose and flood forever.
CONSTANTS
  A = A
  B = B
  Session <- MCSession
  MaxRetries = 1
  MaxPayload = 1
  SeqLimit = 2
  StepBudget = 2
  FinalInput = 1
  DataLen = 1
  AckLen = 1
  Byte <- MCByte
  Input <- SettleInput
  Ops <- SettleOps
  LinkErrors = {"UnexpectedEof"}
  Inserted = {}
  ChanCap = 2
SPECIFICATION FairSpec
PROPERTIES PollReturns PacketSettles
