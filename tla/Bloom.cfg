SPECIFICATION Spec
CONSTANTS
  Keys = {k1, k2, k3}
  Low = 32
  High = 8
  HashValues <- SomeHashes
  BitsPerKey <- Parameters
  Found <- SomeFound
  MaxKeys = 2
  MaxFilters = 2
INVARIANTS
  NoFalseNegative
  NoStrayBits
SYMMETRY Symmetry
