\* A reader and a writer that stay in their tasks; a budget of one step each.
CONSTANTS
  t1 = t1
  t2 = t2
  Tasks <- MCTasks
  PolledBy <- Apart
  Ops = {"Read", "Write"}
  StepBudget = 2
  FinalInput = 1
SPECIFICATION FairSpec
PROPERTIES ReadyIsServed DeadlineIsSeen Quiescence
