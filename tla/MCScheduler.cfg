SPECIFICATION FairSpec
CONSTANTS
  MAX_TASKS = 4
  IdlePid = 9
  BaseSlice = 2
  Priorities = {0}
  SleepTicks = {2}
  MaxPid = 3
  NULL = NULL
INVARIANTS
  RingConsistent
  RingHoldsLiveTasks
  IdleBacksUp
PROPERTIES
  ImplementsRoundRobin
  ReadyTaskRuns
CHECK_DEADLOCK FALSE
