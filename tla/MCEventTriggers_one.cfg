SPECIFICATION Spec
CONSTANTS
  Instances = {a}
  Events = {1, 2}
  Manual = {m}
  Triggers = {"t"}
  TriggerOf <- MCTriggerOf
  RetryLimit <- MCRetryLimit
  ManualEnabled = {"t"}
  PoolSize = 1
  QueueCap = 1
  BatchLimit = 2
  StreamRows = 2
  MaxFaults = 0
  MaxExits = 1
  MaxRedeliver = 1
  a = a
  m = m
INVARIANTS
  TypeOK
PROPERTIES
  NoOrphan
  DeliversAsPromised
