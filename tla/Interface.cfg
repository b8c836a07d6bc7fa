\* Heaps of 1 GB, 3 GB and 16 GB, opened twice.
SPECIFICATION Spec
CONSTANTS
  Threads = {t1, t2}
  HeapSizes = {262144, 786432, 4194304}
  Expand = 262144
  SbPages = 16
  DescsPerPage = 64
  QueuePages = 313
  MetaPages = 5
  Layouts <- SameInSuperblock
  MaxStarts = 2
  MaxSpans = 1
  Sizes = {129, 65536, 65537}
  MaxObjs = 1
SYMMETRY Symmetry
INVARIANTS
  HandedOutOnce
  SuperblocksInFile
  OpenIsComplete
  LookupFindsDescriptor
  FreedWhereAllocatedInFile
  RootsSurvive
PROPERTY
  OnlyTheseOverflow
CHECK_DEADLOCK FALSE
