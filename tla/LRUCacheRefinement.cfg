SPECIFICATION FairSpec
CONSTANTS
  Threads = {t1, t2}
  Keys = {k1, k2}
  Handles = {h1, h2, h3}
  Charges <- UnitCharges
  Capacities <- NoneOrOne
  MaxRefs = 3
  NULL = NULL
PROPERTIES
  PromiseKept
  PromiseReclaims
  CriticalSectionEnds
