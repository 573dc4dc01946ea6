SPECIFICATION Spec
CONSTANTS
  Program <- Programs
  Interface <- Interfaces
  MethodSet <- Sets
  Arity <- Arities
  ScopeOf <- Scopes
  Nilable <- NilableVars
  NilResult <- NilResults
  Global <- GlobalVariables
INVARIANTS
  EveryCastCompared
  GlobalsExact
  CapturesInOrder
CHECK_DEADLOCK FALSE
