SPECIFICATION FairSpec
CONSTANTS
  None = None
  MaxNumTablesPerBlock = 3
  Source <- CheckedPackages
INVARIANTS
  ExecutionsCovered
PROPERTIES
  KeepsPromise
  EveryoneEnds
CHECK_DEADLOCK FALSE
