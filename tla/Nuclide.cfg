CONSTANTS
  Call = {k1, k2, k3}
  Faults <- AllOrNothing
  WatchCall = {"w1", "w2"}
  Cases <- NameOrRoot
  MaxClock = 3
  MaxFailures = 2
  Project = {a}
  RestartLimit = 3
SPECIFICATION NuclideSpec
INVARIANTS
  NuclideTypeOK NoneHanging EntriesSubscribed AloneMissesNothing ServersMatchStates
PROPERTIES CallsSettle
CHECK_DEADLOCK FALSE
