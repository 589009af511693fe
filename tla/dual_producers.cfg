SPECIFICATION Spec
CONSTANTS
  Releases = {r1, r2}
  None = None
  MaxAttempts = 4
  MaxKills = 0
  MaxFaults = 0
SYMMETRY ReleaseSymmetry
INVARIANT OneScheduler
CHECK_DEADLOCK FALSE
