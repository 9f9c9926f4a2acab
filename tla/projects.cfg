SPECIFICATION ProjectsSpec
CONSTANTS
  MaxTask = 2
  MaxProject = 2
  MaxPlan = 2
  Canceller = {k1, k2}
  MaxOutages = 1
INVARIANTS NothingLeftQueued
PROPERTIES CompletionNoticed RunnerReturns
CHECK_DEADLOCK FALSE
