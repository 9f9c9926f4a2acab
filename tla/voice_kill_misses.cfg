CONSTANTS
  MaxRun = 2
  MaxTokens = 1
  MaxKills = 1
  MaxHiccups = 1
SPECIFICATION VoiceSpec
INVARIANT KillReachesAll
