CONSTANTS
  Function <- Executable
  Default <- MCDefault
  Guarded <- MCGuarded
  Checked = "checked"
  StableRoundLimit = 5
  None = None
SPECIFICATION Spec
INVARIANTS
  EveryFlowFound
  NoInventedFlow
  NoInternalError
CHECK_DEADLOCK FALSE
