\* Two keys and two receipts. Copies can always be edited, so there is no deadlock.
SPECIFICATION Spec
CONSTANTS
  k1 = k1
  k2 = k2
  id1 = id1
  id2 = id2
  b1 = b1
  b2 = b2
  s1 = s1
  a1 = a1
  t1 = t1
  m1 = m1
  v2 = v2
  now = now
  Self = Self
  Decision = Decision
  V1 = V1
  SelfSign = SelfSign
  NoCopy = NoCopy
  Keys <- TwoKeys
  KeyIds <- TwoIds
  DefaultId <- Prefixes
  Bodies <- TwoBodies
  Tenants <- None
  Actors <- None
  Instants <- Now
  Edits <- SomeEdits
  MaxIssued = 2
INVARIANTS
  TypeOK
  VerifiedIsIntact
  GenuineVerifies
