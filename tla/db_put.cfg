SPECIFICATION ExplorerSpec
CONSTANTS
  c1 = c1
  c2 = c2
  c3 = c3
  Calls <- MCCalls
  HttpRequests <- MCPuts
  Schema <- MCSchema
  FirstRows <- MCFirstRows
  TornTables = {}
  TornInfos <- MCNotTorn
INVARIANT PutCreates
CHECK_DEADLOCK FALSE
