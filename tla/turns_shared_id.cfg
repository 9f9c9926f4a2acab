CONSTANTS
  UiRun = {u1}
  VoiceRun = {v1}
  Handler = {h1}
  MaxIterations = 1
  MaxCalls = 3
  MaxBoots = 0
SPECIFICATION Spec
PROPERTY CompletedStaysOk
CHECK_DEADLOCK FALSE
