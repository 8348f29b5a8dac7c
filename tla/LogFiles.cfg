CONSTANTS
  Loggers = {l1, l2}
  NumFiles = 3
  MaxSize = 2
  Lengths = {1, 2}
  ChunkSize = 1
  Wanted = {4}
  MaxCached = 2
  MaxLogs = 4
  MaxSessions = 1
  MaxRestarts = 1
  MaxFailures = 1
  Nobody = Nobody
SPECIFICATION Spec
INVARIANTS SizeBounded FilesInOrder ReadsBackwards PromiseKept SessionAlone MutexesReturned
SYMMETRY Symmetry
CHECK_DEADLOCK FALSE
