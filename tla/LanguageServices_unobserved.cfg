CONSTANTS
  Project = {p1, p2}
  RestartLimit = 2
SPECIFICATION FairSpec
PROPERTIES ReturnedIsObserved
CHECK_DEADLOCK FALSE
