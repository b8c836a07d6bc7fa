\* A process that may die at any step, twice, also while it recovers.
SPECIFICATION RSpec
CONSTANTS
  Threads = {t1}
  Requests = {"small", "large"}
  NSb = 3
  Expand = 3
  MaxCount = 2
  Dense = TRUE
  InitMax = 2
  QueueCap = 2
  ScIdxs = {0, 16}
  MaxCrashes = 2
  MaxRefs = 1
INVARIANTS
  MarkedClosed
  OneOwnerAgain
  OwnedOnceAgain
PROPERTIES
  SmallObjectsKept
  RecoveryEnds
