\* A heap of 16 GB, as test/main.cpp:31 opens one: the large region is expanded.
SPECIFICATION Spec
CONSTANTS
  Threads = {t1, t2}
  HeapSizes = {4194304}
  Expand = 262144
  SbPages = 16
  DescsPerPage = 64
  QueuePages = 313
  MetaPages = 5
  Layouts <- SameInSuperblock
  MaxStarts = 1
  MaxSpans = 2
  Sizes = {129, 65536, 65537}
  MaxObjs = 1
SYMMETRY Symmetry
INVARIANT
  HandedOutInFile
CHECK_DEADLOCK FALSE
