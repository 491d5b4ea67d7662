SPECIFICATION Spec
CONSTANTS
  NoStream = NoStream
  MaxGets = 2
  MaxDisturbances = 2
  kMaxWatchStreamFailures = 1
CHECK_DEADLOCK FALSE
INVARIANTS TypeOK AssertionsHold AnsweredOnce InSyncByItsOwnListen
PROPERTIES CacheOnlyOffline GetsAreAnswered
