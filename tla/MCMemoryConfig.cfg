CONSTANTS
  a = a
  b = b
  s = s
  NoAlias = NoAlias
  Nodes <- MCNodes
  Server = s
  Routes <- MCRoutes
  Lengths <- MCLengths
  DatagramMax = 2
  TxQueueLen = 2
  TxMaxTries = 2
  Punctual = FALSE
  MaxDatagrams = 6
  MaxLost = 0
  Movers <- MCNobody
  Spaces = {"config", "cdi"}
  Writable = {"config"}
  Requests <- MCRequests
  MaxRequests = 3
SPECIFICATION MemoryConfigSpec
INVARIANTS  QueriesAnswered LockExclusive
PROPERTIES RepliesLeave
CHECK_DEADLOCK FALSE
