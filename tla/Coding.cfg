SPECIFICATION Spec
CONSTANTS
  GroupBits = 3
  Width32 = 8
  Width64 = 16
  Values32 <- Small
  Values64 <- Large
  Strings <- SomeStrings
  Found <- Overlong
  MaxBytes = 4
INVARIANTS
  ReadBack
  WidthsMix
PROPERTY
  GetsContained
