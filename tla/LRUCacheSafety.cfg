SPECIFICATION HistorySpec
CONSTANTS
  Threads = {t1, t2}
  Keys = {k1, k2, k3}
  Handles = {h1, h2, h3}
  Charges <- UnevenCharges
  Capacities <- Two
  MaxRefs = 3
  NULL = NULL
SYMMETRY Symmetry
INVARIANTS
  RefsExact
  ListsExact
  TableExact
  UsageExact
  NoUseAfterFree
  AssertionsHold
  DestructorFrees
  EvictsOldest
  TrimmedByInsert
PROPERTIES
  PinnedStaysCached
  RecencyKept
