\* The same requests, freed in any order.
SPECIFICATION Spec
CONSTANTS
  MaxOrder = 2
  Basic = 2
  Needs = {1, 2, 3, 4, 5, 8}
INVARIANTS
  ListHoldsItsSize
