\* Chains of at most three declarations. The pass ends, so it may stop.
SPECIFICATION Spec
CONSTANTS
  oa = oa
  ob = ob
  oc = oc
  here = here
  elsewhere = elsewhere
  x = x
  y = y
  absent = absent
  NoPrev = NoPrev
  OpenEnded = OpenEnded
  shell = shell
  proxy = proxy
  Nothing = Nothing
  Surfaces <- TwoSurfaces
  Lists <- ThreeLists
  MaxLength = 3
  MaxTime = 2
  Chains <- AllChains
  Oids <- ThreeOids
  Tenants <- TwoTenants
  SubjectFields <- Fields
  Names <- ThreeNames
INVARIANTS
  TypeOK
  VerdictExact
  OnePerimeterInForce
  ReadingsPartWhereListedTwice
CHECK_DEADLOCK FALSE
