\* Block sizes of 128 bytes and more: a fresh cache takes a whole superblock.  The
\* region is expanded once, and the free queue fills up.
SPECIFICATION Spec
CONSTANTS
  Threads = {t1, t2}
  Requests = {"small", "large"}
  NSb = 4
  Expand = 2
  MaxCount = 2
  Dense = FALSE
  InitMax = 2
  QueueCap = 1
SYMMETRY Symmetry
INVARIANTS
  TypeOK
  BlockHasOneOwner
  CacheSizeIsListLength
  NeverOffTheList
