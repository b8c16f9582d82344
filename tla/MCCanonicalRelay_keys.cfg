\* Plain integers in fields named by U+FF61 and by an astral character.
SPECIFICATION Spec
CONSTANTS
  f = f
  g = g
  Fields <- TwoFields
  Code <- AstralCodes
  Objects <- PlainObjects
  MaxMagnitude = 48
  Exact = 8
  MaxSigned = 15
  MaxUnsigned = 31
  Big = 36
  ZeroSigned = FALSE
  Float <- Nearest
  Shortest <- Digits
INVARIANTS
  PackagesAgree
