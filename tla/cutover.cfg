SPECIFICATION FairSpec
CONSTANTS
  MaxBacklog = 2
  MaxFaults = 2
  MaxKills = 1
INVARIANTS TypeOK MutatedIsBackedUp DetachedIsDrained MarkerOrSettled
PROPERTIES EdgeOpensLast RecoveryEnds
