SPECIFICATION Spec
CONSTANTS
  k1 = k1
  p1 = p1
  p2 = p2
  c1 = c1
  c2 = c2
  cl = cl
  Ids = {c1}
  Keys = {k1}
  Results <- MCResults
  Procs = {p1, p2}
  Filers <- OneFiler
  Overrides <- NoResult
  Claims = {}
  Gets = TRUE
  MaxVersion = 2
  Null = Null
PROPERTY
  RequestsReturn
CHECK_DEADLOCK FALSE
