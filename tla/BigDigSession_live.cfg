CONSTANTS
  Msg <- SessionMsg
  MaxRequest = 1
  MaxDial = 2
  MaxSocket = 3
  MaxRestart = 1
  MayClose = TRUE
SPECIFICATION FairSpec
INVARIANTS NeverStranded
PROPERTIES Answered Reconnects
CHECK_DEADLOCK FALSE
