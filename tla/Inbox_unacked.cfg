SPECIFICATION Spec
CONSTANTS
  Writers = {w1, w2}
  Files = {f1, f2, f3, f4}
  Sizes = {1, 2}
  MaxBytes = 3
  MaxFiles = 2
  Every = 2
  OldFiles = 1
  OtherSaves = FALSE
  Deletions = FALSE
  Faults = FALSE
  None = None
SYMMETRY Symmetry
PROPERTIES UnacknowledgedKept
