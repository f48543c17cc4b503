CONSTANTS
  a = a
  b = b
  d = d
  own = own
  None = None
  NChannels = 2
  Msg <- MCMsg
  Session <- MCSession
  Owner <- MCOwner
  TextLen <- MCTextLen
  BuffSize = 4
  OwnPid = 9

SPECIFICATION Spec


PROPERTY NoneOverwritten

CHECK_DEADLOCK FALSE
