SPECIFICATION RandomSpec
CONSTANTS
  M = 127
  A = 43
  Bounds = {1, 2, 10, 200}
  MaxLogs = {0, 3, 7}
INVARIANT TypeOK
PROPERTY Lehmer
