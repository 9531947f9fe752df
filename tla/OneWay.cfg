\* One stream of two bytes, in one packet or two, over a link that loses frames
\* and takes them in parts, ACK frames too.  Two frames in flight: the repeat of the
\* first packet can be read together with the second.
CONSTANTS
  A = A
  B = B
  Session <- MCSession
  MaxRetries = 1
  MaxPayload = 2
  SeqLimit = 2
  StepBudget = 2
  FinalInput = 1
  DataLen = 2
  AckLen = 2
  Byte <- MCByte
  Input <- OneWayInput
  Ops <- OneWayOps
  LinkErrors = {}
  Inserted = {}
  ChanCap = 2
SPECIFICATION Spec
INVARIANTS ReleasedIsRetained FlushBarrier FramesIntact
PROPERTIES ImplementsByteStream AckNotDropped
