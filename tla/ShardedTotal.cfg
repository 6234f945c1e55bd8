SPECIFICATION Spec
CONSTANTS
  Threads = {t1}
  Keys = {k1}
  Handles = {h1}
  Charges <- UnitCharges
  Capacities <- Four
  NumShardBits = 2
  HashBits = 3
  HashValues <- OneHash
  SizeBits = 8
  MaxRefs = 2
  MaxId = 0
  NULL = NULL
INVARIANT
  TotalChargeSeesAll
