SPECIFICATION ClientSpec
CONSTANTS
  NoStream = NoStream
  MaxGets = 2
  MaxDisturbances = 2
  kMaxWatchStreamFailures = 1
CHECK_DEADLOCK FALSE
PROPERTY OnlineStateIsReached
