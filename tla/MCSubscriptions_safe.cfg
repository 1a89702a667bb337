SPECIFICATION FairSpec
CONSTANTS
  Tables = {"t"}
  Subs = {"a", "b", "c"}
  TableOf <- MCTableOf
  IdOf <- MCIdOf
  ChanCap = 1
  MaxNotify = 2
INVARIANTS
  InOrder
  NoSilentGap
  ClosedOnceBeforeStop
PROPERTIES
  EveryNotificationHandled
CHECK_DEADLOCK FALSE
