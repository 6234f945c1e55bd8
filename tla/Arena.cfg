SPECIFICATION Spec
CONSTANTS
  Blocks = {b1, b2}
  BlockSize = 12
  Align = 4
  PtrSize = 4
  SizeBits = 6
  Sizes <- SomeSizes
  NULL = NULL
SYMMETRY Symmetry
INVARIANTS
  Disjoint
  Contained
  Aligned
  UsageExact
PROPERTY
  WasteBounded
