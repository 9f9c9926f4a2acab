SPECIFICATION AgentSpec
CONSTANTS
  MaxTurns = 2
  MaxIterations = 2
  MaxCalls = 1
INVARIANT StaleOfferDropped
CHECK_DEADLOCK FALSE
