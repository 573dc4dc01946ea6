\* Four packages that import each other as a diamond or a chain.
CONSTANTS
  x = x
  u = u
  y = y
  z = z
  w = w
  stmt = stmt
  Nil = Nil
  Never = Never
  Deref = Deref
  Annotated = Annotated
  None = None
  Site <- Sites
  ReturnStmt = {stmt}
  Trigger <- AllTriggers
  Package <- AnyPackage
  Path <- MCPath
  Dependencies <- MCDependencies
  Exported <- ExportedSites
  Program <- AnyProgram
SPECIFICATION SpecMulti
INVARIANTS
  ModularIsWhole
  ExportedSitesExact
  UpstreamSuperseded
