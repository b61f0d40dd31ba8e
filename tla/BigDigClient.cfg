CONSTANTS
  Call = {1, 2, 3}
  Requests <- AllRequests
  Taken <- ServerPort
  Beat = {b1, b2}
  Check = {check}
  MaxRetry = 2
  ResetLimit = 2
  AwayLimit = 2
  Failure = {"NETWORK_AWAY", "ECONNREFUSED", "ECONNRESET",
             "CERT_NOT_YET_VALID", "CERT_SIGNATURE_FAILURE"}
SPECIFICATION ClientSpec
INVARIANTS ClientTypeOK CountsExact PairedAtRest NotificationMeansAway
PROPERTIES Settles Recovers
CHECK_DEADLOCK FALSE
