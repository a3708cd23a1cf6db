SPECIFICATION LSpec
CONSTANTS
  MaxPort = 7
  Addresses <- MCAddresses
  Routes = {"/stats", "/stop", "other"}
  Tables <- MCTables
  Freed = {"subs"}
  Lists = {"subs"}
  Nodes = {1, 2}
  MaxRouters = 2
INVARIANTS
  DestroyedLast
  StatsRight
  PubSubWhereExpected
PROPERTY InterruptEnds
CHECK_DEADLOCK FALSE
