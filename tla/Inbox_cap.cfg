SPECIFICATION Spec
CONSTANTS
  Writers = {w1, w2, w3}
  Files = {f1, f2, f3, f4}
  Sizes = {1, 2}
  MaxBytes = 3
  MaxFiles = 1
  Every = 2
  OldFiles = 2
  OtherSaves = FALSE
  Deletions = TRUE
  Faults = FALSE
  None = None
SYMMETRY Symmetry
INVARIANTS DriftsUpward EvictionMakesRoom
PROPERTIES CapRespected OldestFirst PassEnforcesCaps
