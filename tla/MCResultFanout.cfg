SPECIFICATION ReadingPeersSpec
CONSTANTS
  c1 = c1
  c2 = c2
  NoConn = NoConn
  Conns <- MCConns
  MaxMsgs = 2
  BufCap = 1
INVARIANTS
  ResultsInOrder
  HubServesClients
PROPERTIES
  ResultsKeepFlowing
  StreamsEnd
CHECK_DEADLOCK FALSE
