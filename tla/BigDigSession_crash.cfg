CONSTANTS
  Msg <- SessionMsg
  MaxRequest = 2
  MaxDial = 2
  MaxSocket = 3
  MaxRestart = 1
  MayClose = FALSE
SPECIFICATION Spec
INVARIANTS
  TypeOK NoSplice AmnesiaInOrder
PROPERTIES ImplementsAckChannel
CHECK_DEADLOCK FALSE
