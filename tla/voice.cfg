CONSTANTS
  MaxRun = 2
  MaxTokens = 1
  MaxKills = 1
  MaxHiccups = 1
SPECIFICATION VoiceFairSpec
INVARIANTS ResponseIsOwn KillReaches
PROPERTIES NoFollowUpAfterKill ResponseEnds
