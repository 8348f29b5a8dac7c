CONSTANTS
  Writers = {w1}
  Files = {f, g}
  Sizes <- TwoSizes
  MaxRecords = 5
  MaxForced = 1
  MaxOpened = 1
  MaxFailures = 1
  CacheSize = 3
  QueueSize = 2
  RequestSize = 1
  PollPeriod = 1
  MaxFlushWait = 9
  CounterSize = 1
  Nobody = Nobody
SPECIFICATION Spec
INVARIANTS Conserved InOrder OneAtTheFiles FlushRequested
PROPERTY SwappedOutIsFlushed
