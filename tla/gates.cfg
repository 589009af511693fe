SPECIFICATION Spec
CONSTANTS
  Releases = {r1, r2}
  None = None
  MaxAttempts = 5
  MaxKills = 1
  MaxFaults = 1
SYMMETRY ReleaseSymmetry
INVARIANTS TypeOK RedIsUndone StandingIsRehearsed StagingRemoved
PROPERTY FinalizedByOneAttempt
CHECK_DEADLOCK FALSE
