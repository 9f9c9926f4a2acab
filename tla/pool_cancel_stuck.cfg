SPECIFICATION FairSpec
CONSTANTS
  MaxTask = 1
  Worker = {w1, w2}
  Canceller = {k1}
  Silent = {}
  MaxOutages = 0
PROPERTIES CancelDecides
CHECK_DEADLOCK FALSE
