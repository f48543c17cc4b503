CONSTANTS
  MaxConn = 1
  MaxSock = 1
  MaxLines = 3
  Room = 1
  MaxConnects = 3

SPECIFICATION ClientSpec

INVARIANT ClientTypeOK
INVARIANT LinesIntact

PROPERTY ClientDelivers
PROPERTY ClientRecovers

CHECK_DEADLOCK FALSE
