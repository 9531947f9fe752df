\* Every failure, a spent sequence space, and frames of an earlier session.
CONSTANTS
  A = A
  B = B
  Session <- MCSession
  MaxRetries = 1
  MaxPayload = 1
  SeqLimit = 1
  StepBudget = 2
  FinalInput = 2
  DataLen = 2
  AckLen = 1
  Byte <- MCByte
  Input <- FaultsInput
  Ops <- FaultsOps
  LinkErrors = {"Transport", "UnexpectedEof", "WriteZero"}
  Inserted <- Foreign
  ChanCap = 2
SPECIFICATION Spec
INVARIANTS TypeOK RetriesSpent StreamConserved
PROPERTIES FailedIsInert AckedIsReadFirst PollEnds
