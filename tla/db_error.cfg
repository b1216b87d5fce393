SPECIFICATION ExplorerSpec
CONSTANTS
  c1 = c1
  c2 = c2
  c3 = c3
  Calls <- MCCalls
  HttpRequests <- MCLists
  Schema <- MCSchema
  FirstRows <- MCFirstRows
  TornTables = {}
  TornInfos <- MCNotTorn
INVARIANT ErrorsAre500
CHECK_DEADLOCK FALSE
