\* Two securities, two starts, two connections.
SPECIFICATION Spec
CONSTANTS
  Securities <- MCSecurities
  MaxStarts = 2
  MaxSessions = 2
INVARIANTS
  TypeOK
  WholeFeedsKeepQuoting
  LatestFeedIsStarted
CHECK_DEADLOCK FALSE
PROPERTIES
  StopEndsTheFeed
  OpenSessionsAreQuoted
