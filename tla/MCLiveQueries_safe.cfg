SPECIFICATION FairSpec
CONSTANTS
  Queries = {"q1", "q2"}
  IdOf <- MCIdOf
  Results = {r1, r2}
  Initial = {r1}
  NoResult = NoResult
  r1 = r1
  r2 = r2
  ChanCap = 1
  Overlap <- MCOverlap
  MaxChanges <- MCMaxChanges
  MaxErrors = 1
PROPERTIES
  NoRepeat
  EventuallyCurrent
CHECK_DEADLOCK FALSE
