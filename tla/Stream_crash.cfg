SPECIFICATION Spec
CONSTANTS
  Conns = {c1, c2}
  Claims = {k1, k2, k3}
  Inodes = {i1, i2}
  Shared = shared
  Suffixes = {s1, s2}
  Undeletable = {s2}
  FileLen = 2
  MaxSize = 2
  Declared = {1, 2}
  MaxPending = 1
  Crashes = TRUE
  None = None
SYMMETRY Symmetry
INVARIANTS DeliveredIntact HolderOwnsFile NoHoles LiveClaimOwned
PROPERTIES LiveNotTakenOver FinalImmutable PrivateNotOrphaned RefusalRestoresHolder
