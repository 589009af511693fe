SPECIFICATION Spec
CONSTANTS
  deeds = deeds
  liens = liens
  again = again
  None = None
  Consumers = {"c1"}
  Schedulers = {"timer", "manual"}
  Pairs = {deeds}
  Id <- MCId
  Hours = {10}
  Requests = {again}
  RequestPair <- MCRequestPair
  Scraped = {deeds}
  MaxPages = 2
INVARIANTS TypeOK CompletedMeansSettled StuckOnlyByDeath
