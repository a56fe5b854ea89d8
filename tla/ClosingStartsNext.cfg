SPECIFICATION QueueSpec
CONSTANTS
  MaxProcs = 2
INVARIANTS
  ClosesWithNoRun
CHECK_DEADLOCK FALSE
