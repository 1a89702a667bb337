SPECIFICATION Spec
CONSTANTS
  Clients = {"a"}
  Ids = {1, 2}
  Numbers = {0, 1}
  Filters <- MCFilters
  Pages <- MCPages
  Keys <- MCKeys
  Edits <- MCEdits
  Batches <- MCBatches
  Questions <- MCQuestions
  Sessions <- MCSessions
  Rules <- MCRules
  MaxRules = 2
  NoFilter = NoFilter
  NoCall = NoCall
  Torn = Torn
CONSTRAINT Apart
INVARIANTS
  QueryAnswersFilter
  WritesAsAsked
  AggregateAgrees
  RowFilterHolds
