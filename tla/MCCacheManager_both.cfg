SPECIFICATION Spec
CONSTANTS
  Keys = {"q1", "q2", "schema", "table"}
  Values = {"short", "long"}
  SizeOf <- MCSizeOf
  MaxSize = 2
  DefaultTTL = 2
  TTLs = {0}
  MaxTime = 2
  MaxCalls = 1
  Callers = {"c1", "c2"}
  ValuesOver <- MCValuesOver
  Walkers = {"c1"}
  Tables = {"t"}
  QueryKeys = {"q1", "q2"}
  SchemaKeys = {"schema"}
  TableKeyOf <- MCTableKeyOf
  QueryTTL = 1
  SchemaTTL = 0
  Tags = {"t"}
  TagLists <- MCTagLists
  TagCalls <- MCTagCalls
  Grace = 1
  Undecodable = {"short"}
  MaxAsked = 1
  MaxErrors = 1
INVARIANTS
  AccountsAgree
  ReadsLastWrite
  TagsCover
PROPERTIES
  EvictsLeastRecent
CONSTRAINT LookedUp
