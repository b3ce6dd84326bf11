SPECIFICATION Spec
CONSTANTS
  Writers = {w1}
  Files = {f1, f2, f3, f4, f5}
  Sizes = {1}
  MaxBytes = 9
  MaxFiles = 1
  Every = 2
  OldFiles = 0
  OtherSaves = TRUE
  Deletions = FALSE
  Faults = FALSE
  None = None
SYMMETRY Symmetry
INVARIANTS SoftFileCap
