SPECIFICATION EngineFairSpec
CONSTANTS
  Queries = {q1, q2}
  Reloads = {r1, r2}
  Tasks = {"worker"}
  q1 = q1
  q2 = q2
  r1 = r1
  r2 = r2
INVARIANTS
  QueriesSeeEngine
  NilMeansClosed
PROPERTIES
  StopEnds
CHECK_DEADLOCK FALSE
