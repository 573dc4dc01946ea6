\* Every list of three conflicts out of eleven, with every configuration.
CONSTANTS
  m1 = m1
  m2 = m2
  File <- Files
  TestFile = {2}
  ArchiveFile = {3}
  UnknownFile = {4}
  Line = {1, 2, 3, 4}
  FakeFileMaxLines = 3
  Function = {m1, m2}
  FunctionName <- Names
  Reported <- Conflicts
  NoLintRanges <- Ranges
  MaxConflicts = 3
SPECIFICATION Spec
CHECK_DEADLOCK FALSE
INVARIANTS
  EachShownOnce
  InOrder
  NoneAtNoLint
  LinesStayValid
