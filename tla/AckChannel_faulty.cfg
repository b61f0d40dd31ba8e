CONSTANTS
  Msg = {a}
  MaxSend <- TwoAndOne
  MaxSocket = 2
  MayClose = {"client"}
  MaxInFlight = 2
  Faults = {"lose", "reorder", "duplicate"}
SPECIFICATION FairSpec
INVARIANTS ChannelInv Watchdog
PROPERTIES EventuallyDelivered
CHECK_DEADLOCK FALSE
