SPECIFICATION Spec
CONSTANTS
  k1 = k1
  p1 = p1
  p2 = p2
  c1 = c1
  c2 = c2
  cl = cl
  Ids = {c1, c2}
  Keys = {k1}
  Results <- OneResult
  Procs = {p1, p2}
  Filers <- TwoFilers
  Overrides <- NoResult
  Claims = {cl}
  Gets = TRUE
  MaxVersion = 3
  Null = Null
INVARIANTS
  IndexSound
PROPERTIES
  DecisionStands
  OnlyOverlapDoubles
SYMMETRY Symmetry
CHECK_DEADLOCK FALSE
