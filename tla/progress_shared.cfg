SPECIFICATION Spec
CONSTANTS
  deeds = deeds
  liens = liens
  again = again
  None = None
  Consumers = {"c1", "c2"}
  Schedulers = {"timer", "manual"}
  Pairs = {deeds}
  Id <- MCId
  Hours = {10, 11}
  Requests = {}
  RequestPair <- MCRequestPair
  Scraped = {}
  MaxPages = 2
INVARIANTS CountsAddUp OneAtATime
