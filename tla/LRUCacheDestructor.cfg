SPECIFICATION Spec
CONSTANTS
  Threads = {t1, t2}
  Keys = {k1}
  Handles = {h1, h2, h3}
  Charges <- UnitCharges
  Capacities <- One
  MaxRefs = 3
  NULL = NULL
INVARIANT
  DestructorSeesHandles
