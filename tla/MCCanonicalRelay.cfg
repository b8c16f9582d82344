\* Every kind of literal in one field, and pairs of them in two.
SPECIFICATION Spec
CONSTANTS
  f = f
  g = g
  Fields <- TwoFields
  Code <- LatinCodes
  Objects <- EdgeObjects
  MaxMagnitude = 48
  Exact = 8
  MaxSigned = 15
  MaxUnsigned = 31
  Big = 36
  ZeroSigned = TRUE
  Float <- Nearest
  Shortest <- Digits
INVARIANTS
  TypeOK
  PortableHasOneOid
  RustIsStrictest
PROPERTIES
  RelayingKeepsOwnOid
