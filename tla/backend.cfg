SPECIFICATION BackendSpec
CONSTANTS
  Rpm = 3
  BgCap = 1
  Window = 3
  Waiter = {b1, b2}
  Lag = 1
  MaxTake = 4
  BusyUntil = 4
  MaxTime = 15
  RecoverAfter = 2
  MaxTrouble = 1
  Call = {c1}
  Turns <- MCTurns
  MaxToggles = 2
  MaxSwitches = 3
  MaxAwaited = 1
  MaxTask = 2
  Worker = {w1, w2}
  Canceller = {k1}
  Silent = {2}
  MaxOutages = 1
INVARIANTS NoticeIsTrue OneRun RateHeld WaiterServed PinnedStaysLocal LocalOrHonest MemoryIsFreed
PROPERTIES ImplementsBoard EveryTaskDecided ManualModeStands Recovers EveryCallEnds
CHECK_DEADLOCK FALSE
