\* Two clients and the one reassembly slot of a server.
CONSTANTS
  a = a
  b = b
  s = s
  NoAlias = NoAlias
  Nodes <- MCNodes
  Routes <- MCRoutes
  Lengths <- MCLengths
  DatagramMax = 3
  TxQueueLen = 2
  TxMaxTries = 2
  Punctual = TRUE
  MaxDatagrams = 3
  MaxLost = 2
  Movers <- MCMovers
SPECIFICATION FairSpec
INVARIANTS TypeOK HeadDriven Uncorrupted NoSilence ContentionIsTemporary
PROPERTIES  QueueDrains
CHECK_DEADLOCK FALSE
