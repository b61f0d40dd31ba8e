CONSTANTS
  file = file
  callback = callback
  Object = {file, callback}
  Plans <- AllPlans
  MaxObject = 2
  MaxWire = 1
  BadResults = {"server"}
SPECIFICATION FairSpec
INVARIANTS TypeOK ReferencesResolve SettledOnce
PROPERTIES StreamsReleased CallsSettle
CHECK_DEADLOCK FALSE
