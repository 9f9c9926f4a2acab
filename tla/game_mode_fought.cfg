SPECIFICATION GameSpec
CONSTANTS
  MaxSwitches = 2
  MaxAwaited = 1
PROPERTY ManualModeNeverFought
CHECK_DEADLOCK FALSE
