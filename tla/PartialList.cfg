\* The partial list of one size class.
SPECIFICATION Spec
CONSTANTS
  Threads = {t1, t2}
  Descs = {d1, d2, d3}
  NoDesc = NoDesc
  Wrap = 2
INVARIANTS
  ListedOnce
PROPERTIES
  ImplementsStack
  NoLivelock
