SPECIFICATION StoreSpec
CONSTANTS
  w1 = w1
  w2 = w2
  page = page
  canary = canary
  page2 = page2
  discovery = discovery
  None = None
  Workers = {w1, w2}
  Jobs = {page, page2}
  Kind <- MCKind
  Target <- MCTarget
  Object <- MCObject
  Rounds <- MCRounds
  MaxAttempts <- MCMaxAttempts
  Isolated = {}
  MaxCrashes = 1
  MaxLate = 1
INVARIANTS ObjectsOK RecordedIsStored
PROPERTIES WriteOnce
