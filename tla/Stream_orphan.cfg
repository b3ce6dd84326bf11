SPECIFICATION Spec
CONSTANTS
  Conns = {c1, c2}
  Claims = {k1, k2, k3}
  Inodes = {i1, i2}
  Shared = shared
  Suffixes = {s1}
  Undeletable = {}
  FileLen = 1
  MaxSize = 1
  Declared = {1}
  MaxPending = 0
  Crashes = TRUE
  None = None
SYMMETRY Symmetry
INVARIANTS PrivateRemoved
