\* All four operations in two tasks; each is abandoned, and the read moved, at will.
CONSTANTS
  t1 = t1
  t2 = t2
  Tasks <- MCTasks
  PolledBy <- Joined
  Ops = {"Read", "Write", "Flush", "Progress"}
  StepBudget = 2
  FinalInput = 1
SPECIFICATION Spec
INVARIANTS WakeupsTypeOK NoLostWakeup WaitersAreThePending
