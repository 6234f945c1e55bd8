SPECIFICATION Spec
CONSTANTS
  ByteBits = 2
  m = 147
  Seeds = {0, 181}
  MaxLen = 5
INVARIANT EveryByteCounts
