\* Block sizes below 128 bytes: a cache takes a part of a superblock.
SPECIFICATION FairSpec
CONSTANTS
  Threads = {t1, t2}
  Requests = {"small"}
  NSb = 2
  Expand = 2
  MaxCount = 3
  Dense = TRUE
  InitMax = 1
  QueueCap = 1
INVARIANTS
  CoreInv
  DescriptorOwnedOnce
  EmptyIsUnused
  OnlyRetiredLost
PROPERTIES
  NoLivelock
