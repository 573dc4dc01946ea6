SPECIFICATION FairSpec
CONSTANTS
  None = None
  Function <- Functions
  Results <- ResultKinds
  TypeOf <- Types
INVARIANTS
  SameRuns
  TypeSwitchesKnown
  NoPanic
  ChecksExact
  GuardedSide
PROPERTIES
  Preprocessed
CHECK_DEADLOCK FALSE
