SPECIFICATION StepsSpec
CONSTANTS
  Keys = {k1, k2, k3}
  Handles = {h1, h2, h3, h4}
  HashValues <- ThreeHashes
  MinLength = 1
  NULL = NULL
SYMMETRY Symmetry
INVARIANTS
  TypeOK
  InBucket
  OneSlotEach
  ElemsExact
  ArraySized
  CallsBounded
PROPERTY
  IsKeyMap
