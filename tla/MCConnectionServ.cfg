CONSTANTS
  MaxConn = 2
  MaxSock = 2
  MaxLines = 2
  Room = 1
  MaxConnects = 0

SPECIFICATION ServSpec

INVARIANT TypeOK
INVARIANT ListenersServed
INVARIANT SpinsOnStaleBytes

PROPERTY ServDelivers
PROPERTY BothThreadsGoOn

CHECK_DEADLOCK FALSE
