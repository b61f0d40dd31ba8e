CONSTANTS
  fs = fs
  exec = exec
  Service = {fs, exec}
  Call = {c1, c2, c3}
  MaxPending <- Pairs
  Faults <- FaultsOfEach
SPECIFICATION FairSpec
INVARIANTS TunnelsLeadToServers CountsExact
PROPERTIES Settles Released
CHECK_DEADLOCK FALSE
