SPECIFICATION Spec
CONSTANTS
  p1 = p1
  p2 = p2
  c1 = c1
  c2 = c2
  Ids = {i1, i2}
  Slots = {s1, s2}
  Values = {v1, v2}
  Claimants = {p1, p2}
  Cases = {c1}
  UnknownCases = {c2}
  Filings <- MCFilings
  Evidence = {FALSE}
  Null = Null
  MaxListed = 1
INVARIANTS
  TypeOK
  OneClaimPerSlot
  ListedForPerson
  IndexesFollowClaims
  FoundFromCase
PROPERTIES
  ImplementsRegister
SYMMETRY Symmetry
CHECK_DEADLOCK FALSE
