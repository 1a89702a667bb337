SPECIFICATION Spec
CONSTANTS
  Instances = {a, b}
  Events = {1}
  Manual = {}
  Triggers = {"t"}
  TriggerOf <- MCTriggerOf
  RetryLimit <- MCRetryLimit
  ManualEnabled = {"t"}
  PoolSize = 1
  QueueCap = 1
  BatchLimit = 1
  StreamRows = 1
  MaxFaults = 1
  MaxExits = 1
  MaxRedeliver = 1
  a = a
  b = b
INVARIANTS
  SingleCopy
  CopyOwnsRow
  RetryBudget
  StatusTellsOutcome
SYMMETRY InstanceSymmetry
CONSTRAINT Undisturbed
