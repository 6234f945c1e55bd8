SPECIFICATION Spec
CONSTANTS
  Threads = {t1, t2}
  Keys = {k1, k2, k3}
  Handles = {h1, h2, h3}
  Charges <- UnitCharges
  Capacities <- NoneOrSome
  NumShardBits = 1
  HashBits = 3
  HashValues <- SomeHashes
  SizeBits = 8
  MaxRefs = 3
  MaxId = 1
  NULL = NULL
SYMMETRY Symmetry
INVARIANTS
  TypeOK
  OneShard
  IdsDistinct
PROPERTY
  PruneComplete
