CONSTANTS
  Trades = {t1, t2, t3}
  QueueSize = 1
  BatchSize = 2
  MaxRetries = 1
SPECIFICATION FairSpec
INVARIANTS
  TypeOK
  EveryTradeAccounted
  DuplicatesHaveCause
  RecordsBounded
PROPERTIES
  QueuedIsSettled
  StopEnds
CHECK_DEADLOCK FALSE
