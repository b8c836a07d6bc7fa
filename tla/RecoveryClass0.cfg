\* A collection that meets live objects of the smallest size class.
SPECIFICATION RSpec
CONSTANTS
  Threads = {t1}
  Requests = {"small"}
  NSb = 3
  Expand = 3
  MaxCount = 2
  Dense = TRUE
  InitMax = 1
  QueueCap = 2
  ScIdxs = {0}
  MaxCrashes = 1
  MaxRefs = 2
PROPERTIES
  ReachableKept
