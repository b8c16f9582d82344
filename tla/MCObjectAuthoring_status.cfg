\* What the builders make, with every status, and drafts as they are.
SPECIFICATION Spec
CONSTANTS
  Edits <- TellingOrAny
  MaxEdits <- None
  FewFields = 51
INVARIANT BuiltReceiptsPass
CHECK_DEADLOCK FALSE
