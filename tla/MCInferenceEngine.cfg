\* Every small package.
CONSTANTS
  a = a
  b = b
  c = c
  stmt = stmt
  Nil = Nil
  Never = Never
  Deref = Deref
  Annotated = Annotated
  None = None
  Site <- Sites
  ReturnStmt = {stmt}
  Trigger <- AnyTrigger
  Package <- AnyPackage
SPECIFICATION FairSpec
INVARIANTS
  TypeOK
  FlowsAreReal
  ErrorsExactlyWhenNilFlow
  DeterminedExactlyWhenForced
  EveryConstraintAccountedFor
  ControlledExactlyWhenNilable
  ErrorContractFollowed
PROPERTIES
  DeterminedIsFinal
  Termination
