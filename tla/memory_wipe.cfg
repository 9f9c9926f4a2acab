SPECIFICATION RecallSpec
CONSTANTS
  MaxConv = 2
  MaxText = 4
  Every = 3
  KeepRecent = 2
  Maintenance = {m}
  Nightly = {n}
  MaxErasures = 1
  MaxJobs = 2
  MaxBoots = 1
INVARIANT TrueAmnesia
CHECK_DEADLOCK FALSE
