CONSTANTS
  file = file
  callback = callback
  Object = {file, callback}
  Plans <- AllPlans
  MaxObject = 2
  MaxWire = 1
  BadResults = {"server"}
SPECIFICATION Spec
PROPERTIES ThrownReachesCaller
CHECK_DEADLOCK FALSE
