SPECIFICATION FairSpec
CONSTANTS
  PoolMaxConns = 0
  MaxOpenConns = 3
  Pollers = {"poller"}
  Callers = {"caller"}
  MaxRows = 1
  Catalogs <- MCCatalogs
  Becomes <- MCBecomes
  Sorted <- MCSorted
  Reloads = {"reload"}
  MaxDDL = 1
INVARIANTS
  ReloadIsFaithful
  RootsServeTables
PROPERTIES
  EveryCallServed
