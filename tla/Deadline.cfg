\* Two retries, and a clock that runs out before, between and after them.
CONSTANTS
  Timeout = 3
  MaxRetries = 2
  MaxTime = 14
SPECIFICATION Spec
INVARIANTS GivesUpLast
PROPERTIES NeverEarly
CHECK_DEADLOCK FALSE
