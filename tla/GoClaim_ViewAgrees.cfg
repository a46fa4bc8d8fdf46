SPECIFICATION Spec
CONSTANTS
  cl1 = cl1
  Claims <- MCClaims
  Extensive = FALSE
  Null = Null
  MaxEvents = 5
  MaxRushed = 0
  MaxResets = 0
INVARIANTS
  ViewAgrees
CHECK_DEADLOCK FALSE
