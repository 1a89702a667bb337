SPECIFICATION FairSpec
CONSTANTS
  Instances = {a}
  Events = {1, 2}
  Manual = {m}
  Triggers = {"t", "u"}
  TriggerOf <- MCTriggerOf
  RetryLimit <- MCRetryLimit
  ManualEnabled = {"t"}
  PoolSize = 1
  QueueCap = 1
  BatchLimit = 2
  StreamRows = 2
  MaxFaults = 0
  MaxExits = 0
  MaxRedeliver = 0
  a = a
  m = m
PROPERTIES
  EveryEventSettles
