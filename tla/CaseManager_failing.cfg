SPECIFICATION Spec
CONSTANTS
  c1 = c1
  c2 = c2
  k1 = k1
  k2 = k2
  k3 = k3
  Ids = {c1}
  Keys <- MCKeys
  Contestable <- MCContestable
  Extensive <- MCExtensive
  Results <- MCResults
  Draws = {FALSE, TRUE}
  LawsMayFail = TRUE
  Null = Null
INVARIANTS
  TypeOK
  AppealNeedsObjection
PROPERTIES
  OperationsReturn
