\* Packages of three functions, every order of their goroutines.
CONSTANTS
  f = f
  g = g
  h = h
  lit = lit
  None = None
  Function <- Functions
  Source <- Packages
SPECIFICATION FairSpec
CHECK_DEADLOCK FALSE
INVARIANTS
  NoSendAfterClose
PROPERTIES
  ImplementsSerial
  AllEnd
