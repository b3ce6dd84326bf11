SPECIFICATION Spec
CONSTANTS
  Size = 2
  Window = 2
  MaxFaults = 1
  Reuse = TRUE
  None = None
CHECK_DEADLOCK FALSE
INVARIANTS UnsupportedIsTrue
