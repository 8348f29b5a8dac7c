CONSTANTS
  Cmds <- Mixed
  None = None
  QueueLength = 2
  BufferSize = 3
  ScheduleSize = 2
  MayOutlast = FALSE
  MayLose = FALSE
  MayGoUnanswered <- SomeMixed
SPECIFICATION Spec
INVARIANTS Unmodified OneUserPerStream Aligned RunsOnce OwnStatus
PROPERTY ImplementsService
CHECK_DEADLOCK FALSE
