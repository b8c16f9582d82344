\* Three owners, one caller, four sessions. The owners are alike; a caller may always try to send.
SPECIFICATION Spec
CONSTANTS
  o1 = o1
  o2 = o2
  o3 = o3
  c1 = c1
  Owners <- ThreeOwners
  Callers <- OneCaller
  NoSession = NoSession
  MaxSessions = 4
INVARIANTS
  TypeOK
  LeaksOnlyIfDisturbed
  UndisturbedServes
  NoUseAfterScope
SYMMETRY AlikeOwners
