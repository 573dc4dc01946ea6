SPECIFICATION FairSpec
CONSTANTS
  None = None
  Function = {"k", "g", "f"}
  Fields <- FieldsTU
  Path <- PathsTU
  Program <- CheckedPrograms
  Depth = 5
INVARIANTS
  WholeProgram
  SourcesHold
  EffectsReal
PROPERTIES
  EveryPackageDone
CHECK_DEADLOCK FALSE
