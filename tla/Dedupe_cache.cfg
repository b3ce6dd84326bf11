SPECIFICATION FairSpec
CONSTANTS
  Conns = {c1,c2,c3}
  Keys = {x,y}
  Entries = {e1,e2,e3,e4}
  Window = 2
  MaxEntries = 1
  MaxNow = 3
  MaxStores = 3
  None = None
CHECK_DEADLOCK FALSE
INVARIANTS NoRace DuplicateWasStored Remembered Bounded
PROPERTIES NotStoredTwice WindowEnds WaitEnds
