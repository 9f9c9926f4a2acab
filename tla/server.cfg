SPECIFICATION ServerSpec
CONSTANTS
  UiRun = {u1}
  VoiceRun = {v1, v2}
  Handler = {h1, h2}
  MaxIterations = 1
  MaxCalls = 3
  MaxBoots = 1
  Size = 3
  Retries = 2
  Total = 3
  StallBeats = 2
  StepBeats = 4
  MaxLoaders = 2
  Request = {r1, r2}
  Exported = {FALSE, TRUE}
  ShellOwned = {TRUE}
  MaxWalks = 2
  MaxSaves = 2
  MaxRestarts = 1
INVARIANTS TurnIsAtomic NoSharedTurn UiPointerLive FetchedIsWhole ProvisionedIsEarned WalkIsShown BootNeverRefuses KeyIsApplied
PROPERTY GivesUpOnTheDead
CONSTRAINT Uncut
SYMMETRY Alike
CHECK_DEADLOCK FALSE
