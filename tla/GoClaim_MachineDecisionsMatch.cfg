SPECIFICATION Spec
CONSTANTS
  k1 = k1
  p1 = p1
  p2 = p2
  c1 = c1
  c2 = c2
  cl = cl
  Ids = {c1, c2}
  Keys = {k1}
  Results <- MCResults
  Procs = {p1, p2}
  Filers <- TwoFilers
  Overrides <- NoResult
  Claims = {}
  Gets = FALSE
  MaxVersion = 4
  Null = Null
INVARIANT
  MachineDecisionsMatch
