\* The queue while no helper is suspended for a whole lap of the array.
SPECIFICATION PromptSpec
CONSTANTS
  Threads = {t1, t2}
  Values = {v1, v2, v3}
  NoValue = NoValue
  N = 3
  Width = 2
  MaxLap = 2
SYMMETRY Symmetry
INVARIANTS
  TypeOK
  QueuedOnce
PROPERTIES ImplementsQueue
