SPECIFICATION FairSpec
CONSTANTS
  Writers = {w1, w2}
  Files = {f1, f2, f3}
  Sizes = {1, 2}
  MaxBytes = 2
  MaxFiles = 1
  Every = 2
  OldFiles = 1
  OtherSaves = TRUE
  Deletions = FALSE
  Faults = TRUE
  None = None
INVARIANTS PendingExact
PROPERTIES InFlightKept Answered
