SPECIFICATION MCSpec
CONSTANTS
  a = a
  b = b
  c = c
  None = None
  Outputs <- Three
  Declared <- InTurn
  Laws <- AllLaws
  me = me
  other = other
  reading = reading
  filing = filing
  Subjects = {me, other}
  Permissions = {reading, filing}
  Reading = reading
  Mezelf = 1
  Nobody = Nobody
INVARIANTS
  TypeOK
  RequiredExactly
  OrderRespected
  RaisesExactlyOnCircles
  AllOrNothing
  ComputedFromComplete
  MostRestrictiveWins
  OwnContextAgrees
  RepresentsWhomLawsName
PROPERTIES
  Termination
CHECK_DEADLOCK FALSE
