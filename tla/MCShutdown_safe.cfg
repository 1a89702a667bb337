SPECIFICATION FairSpec
CONSTANTS
  Callers = {"signal", "main"}
  Requests = {"r1", "r2"}
  Comps = {"database", "engine", "server"}
  DrainTimeout = 1
  Timeout = 2
  ForceAfter = 3
INVARIANTS
  StopsInReverse
  ReturnIsFinal
PROPERTIES
  ShutdownEnds
CHECK_DEADLOCK FALSE
