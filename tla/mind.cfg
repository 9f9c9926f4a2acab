SPECIFICATION MindSpec
CONSTANTS
  Slot = {ui, v1, v2}
  Voice = {v1, v2}
  Killed = {ui, v1, v2}
  Domain = {a, b}
  MaxQuestions = 2
  MaxFlying = 1
  MaxPieces = 2
  MaxMarks = 2
  MaxTurns = 3
  MaxIterations = 2
  MaxCalls = 1
  CallId = {1, 2}
  MaxChars = 6
  Budget = {1, 3}
  MaxRows = 4
  MaxConv = 2
  MaxText = 4
  Every = 3
  KeepRecent = 2
  Maintenance = {m}
  Nightly = {n}
  MaxErasures = 1
  MaxJobs = 2
  MaxBoots = 1
  dog = dog
  hound = hound
  pet = pet
  Phrase = {dog, hound, pet}
  Same <- MCSame
  Near <- MCNear
  Candidates = 2
  K = 2
  Caller = {u, x}
  Extractor = {x}
  MaxFacts = 3
INVARIANTS RunsOnlyOnYes ClickedWasAsked NoOrphanQuestion UnaskedIsReadOnly YesMeansTheLastOffer ErasesAreAskedTwice EveryReplySpeaks Sendable RecallIsHonest NothingLost NoTwins
PROPERTIES ForgottenStaysForgotten
CONSTRAINT Undisturbed
SYMMETRY Alike
CHECK_DEADLOCK FALSE
