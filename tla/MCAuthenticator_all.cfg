SPECIFICATION FairSpec
CONSTANTS
  Clients = {"c", "d"}
  Configs <- MCConfigs
  Requests <- MCRequests
  Keys <- MCKeys
  NoKey = NoKey
  NoTime = NoTime
  NoSession = NoSession
  None = None
  Aborted = Aborted
  TTL = 2
  FetchLimit = 1
  MaxTime = 3
  MaxRotations = 1
INVARIANT SessionEarned
PROPERTIES
  FetchesApart
  WithdrawnKeyDies
  EveryRequestAnswered
