SPECIFICATION FairSpec
CONSTANTS
  Ids = {"groups", "total"}
  Grouped = {"groups"}
  Strategies = {"scheduled", "on_demand", "cdc", "lazy"}
  Groups = {"g", "h"}
  Total = "_total_"
  Workers = {1, 2}
  None = None
  Zero = Zero
  Unseen = Unseen
  Interval = 1
  RefreshTimeout = 1
  FirstTimeout = 0
  ReadAs <- MCReadAs
  Staleness = 1
  LazyTTL = 1
  MaxConcurrentRefreshes = 1
  MaxRows = 1
  Setups <- MCSetups
INVARIANTS
  HitIsRecent
  AloneIsExact
PROPERTIES
  ChangeIsPickedUp
  DueIsRefreshed
  StopEnds
CHECK_DEADLOCK FALSE
