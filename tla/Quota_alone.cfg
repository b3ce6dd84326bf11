SPECIFICATION Spec
CONSTANTS
  Streams = {t1, t2}
  Saves = {s1}
  Sizes = {1, 2}
  Quota = 3
  Disk = 8
  Reserve = 1
  Wrap = 16
  MaxFails = 1
  None = None
SYMMETRY Symmetry
INVARIANTS OvershootBounded BudgetSuffices ReserveKept
PROPERTIES QuotaWhenAlone
