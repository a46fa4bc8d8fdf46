SPECIFICATION Spec
CONSTANTS
  cl1 = cl1
  Claims <- MCClaims
  Extensive = FALSE
  Null = Null
  MaxEvents = 5
  MaxRushed = 3
  MaxResets = 1
INVARIANTS
  TypeOK
  ViewFollowsEvents
  LastEventShown
  RejectionIsRuled
  WaitGroupCounts
PROPERTIES
  ComesToRest
CHECK_DEADLOCK FALSE
