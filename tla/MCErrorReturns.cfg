\* The results of functions that return an error (or ok) and their use.
CONSTANTS
  fv = fv
  fe = fe
  gv = gv
  ge = ge
  pe = pe
  s1 = s1
  s2 = s2
  g1 = g1
  g2 = g2
  Nil = Nil
  Never = Never
  Deref = Deref
  Annotated = Annotated
  None = None
  Site <- Sites
  ReturnStmt <- Stmts
  Param = pe
  CallExpr <- Calls
  Program <- SmallProgram
  Trigger <- ReturnTrigger
  Package <- ReturnPackage
SPECIFICATION ReturnsSpec
INVARIANTS
  EveryNilUseReported
  NoSafeUseReported
