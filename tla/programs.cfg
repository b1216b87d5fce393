SPECIFICATION MCSpec
CHECK_DEADLOCK FALSE
CONSTANTS
  Requests <- MCRequests
  Queries <- MCQueries
  Found <- MCFound
  User <- MCUsers
  MaxLimit = 3
  Files <- MCFiles
  Browsers <- MCBrowsers
  Texts <- MCTexts
  Android <- MCAndroid
  MSIE <- MCMSIE
  NotString = "no string"
  Nodes <- MCNodes
  Trees <- MCTreesOk
  SourceFiles <- MCSourceFiles
  c1 = c1
  c2 = c2
  c3 = c3
  Calls <- MCCalls
  HttpRequests <- MCHttpRequests
  Schema <- MCSchema
  FirstRows <- MCFirstRows
  TornTables <- MCTornTables
  TornInfos <- MCTornInfos
  s1 = s1
  s2 = s2
  sBad = sBad
  a1 = a1
  a2 = a2
  Nobody = Nobody
  MaxConns = 1
  Servers <- MCServers
  Addrs <- MCAddrs
  Addr <- MCAddr
  BadAcl <- MCBadAcl
  Patient <- MCPatient
INVARIANTS ExplorerTypeOK TypeOK FailedStartLeavesNothing AcceptsUntilCancel CleanStop PageIsTrue EveryUserOnce BlameIsRight FastReadsFilled SameOnCleanFiles FastMissesNobody DrawnRight GeneratedWhole
PROPERTIES PagingEnds ImplementsTableStore PortKeptUntilCancel PortFreed StartGoroutinesEnd
