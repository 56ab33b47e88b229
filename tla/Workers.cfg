SPECIFICATION FairSpec
CONSTANTS
  N = 3
  MaxTasks = 3
  Cap = 8
  MayFail = TRUE
INVARIANTS  PipeNoticed
PROPERTIES StartReturns StopReturns
CHECK_DEADLOCK FALSE
