CONSTANTS
  MaxSession = 2
  MaxVersion = 3
  MaxTimeouts = 2
  MaxWire = 2
  MaxReplies = 2
SPECIFICATION FairSpec
INVARIANTS VersionMeansText InSyncAtRest AnswersMatch
PROPERTIES AskSettles
CHECK_DEADLOCK FALSE
