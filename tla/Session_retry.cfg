SPECIFICATION FairSpec
CONSTANTS
  Size = 5
  Window = 3
  MaxFaults = 3
  Reuse = FALSE
  None = None
CHECK_DEADLOCK FALSE
INVARIANTS NoWrap NoLostWakeup InFlightBounded AckedIsStored UnsupportedIsTrue
PROPERTIES KeepsPromise Arrives
