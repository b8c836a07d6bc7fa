\* Two superblocks of four blocks, of a class whose blocks fill the superblock.  A
\* behaviour that does not fit the schedule stops.
SPECIFICATION Directed
CONSTANTS
  A = t1
  B = t2
  Threads = {t1, t2}
  Requests = {"small", "large"}
  NSb = 3
  Expand = 3
  MaxCount = 4
  Dense = TRUE
  InitMax = 1
  QueueCap = 2
INVARIANTS
  DescriptorOwnedOnce
CHECK_DEADLOCK FALSE
