SPECIFICATION FairSpec
CONSTANTS
  w1 = w1
  w2 = w2
  page = page
  canary = canary
  page2 = page2
  discovery = discovery
  None = None
  Workers = {w1, w2}
  Jobs = {discovery, canary}
  Kind <- MCKind
  Target <- MCTarget
  Object <- MCObject
  Rounds <- MCRounds
  MaxAttempts <- MCMaxAttempts
  Isolated = {w2}
  MaxCrashes = 1
PROPERTIES JobsSettle Refinement
