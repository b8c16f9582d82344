\* Two edits of any draft with at most 51 fields, one of the others. A draft edited that often
\* may stop.
SPECIFICATION Spec
CONSTANTS
  Edits <- TellingOrAny
  MaxEdits <- OneOrTwo
  FewFields = 51
INVARIANTS
  TypeOK
  
  HashableOnceValid
  BuiltObjectsPass
  ValidIsTyped
  RequiresOnlyRequired
CHECK_DEADLOCK FALSE
