SPECIFICATION Spec
CONSTANTS
  c1 = c1
  c2 = c2
  k1 = k1
  k2 = k2
  k3 = k3
  Ids = {c1}
  Keys <- TodaysKeys
  Contestable <- TodaysContestable
  Extensive <- NoKey
  Results <- TwoResults
  Draws = {FALSE, TRUE}
  LawsMayFail = FALSE
  Null = Null
INVARIANT
  FreshRejectionIsContestable
