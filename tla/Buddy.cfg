\* Four basic blocks; a request for each block size, exact fits and just more.
SPECIFICATION EqualSpec
CONSTANTS
  MaxOrder = 2
  Basic = 2
  Needs = {1, 2, 3, 4, 5, 8}
INVARIANTS
  ListHoldsItsSize
  BlocksTile
  FreeIsListed
  RoomForRequest
  FullyMerged
