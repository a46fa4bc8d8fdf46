SPECIFICATION Spec
CONSTANTS
  k1 = k1
  p1 = p1
  p2 = p2
  c1 = c1
  c2 = c2
  cl = cl
  Ids = {c1, c2}
  Keys = {k1}
  Results <- MCResults
  Procs = {p1, p2}
  Filers <- OneFiler
  Overrides <- MCResults
  Claims = {cl}
  Gets = FALSE
  MaxVersion = 3
  Null = Null
INVARIANTS
  TypeOK
  MachineDecisionsMatch
  VerdictFollowsStatus
PROPERTIES
  RequestsReturn
