CONSTANTS
  Msg <- SessionMsg
  MaxRequest = 1
  MaxDial = 1
  MaxSocket = 3
  MaxRestart = 1
  MayClose = FALSE
SPECIFICATION Spec
PROPERTIES NoReconnectOnceClosed
CHECK_DEADLOCK FALSE
