CONSTANTS
  Writers = {w1}
  Files = {f}
  Sizes <- OneSize
  MaxRecords = 8
  MaxForced = 0
  MaxOpened = 0
  MaxFailures = 0
  CacheSize = 3
  QueueSize = 2
  RequestSize = 1
  PollPeriod = 1
  MaxFlushWait = 9
  CounterSize = 2
  Nobody = Nobody
SPECIFICATION Spec
INVARIANT NothingDropped
