SPECIFICATION Spec
CONSTANTS
  Nodes = {n1, n2, n3, n4}
  LRU = lru_
  IN_USE = in_use_
  NULL = NULL
SYMMETRY Symmetry
INVARIANTS
  Linked
  KeyAssertion
  WalkOnCourse
