SPECIFICATION SetupSpec
CONSTANTS
  Request = {r1}
  Exported = {TRUE}
  ShellOwned = {TRUE}
  MaxWalks = 1
  MaxSaves = 1
  MaxRestarts = 1
PROPERTY FinishedHasABrain
CHECK_DEADLOCK FALSE
