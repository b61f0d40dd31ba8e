CONSTANTS
  Msg = {a, b}
  MaxSend <- TwoAndOne
  MaxSocket = 3
  MayClose = {"client", "server"}
  MaxInFlight = 2
  Faults = {}
SPECIFICATION Spec
INVARIANTS
  TypeOK InOrderExactlyOnce NothingForgotten NoGapOnFifoSockets
PROPERTIES ImplementsChannel
CHECK_DEADLOCK FALSE
