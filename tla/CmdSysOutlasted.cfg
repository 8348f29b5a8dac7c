CONSTANTS
  Cmds <- Awkward
  None = None
  QueueLength = 2
  BufferSize = 2
  ScheduleSize = 1
  MayOutlast = TRUE
  MayLose = TRUE
  MayGoUnanswered <- SomeAwkward
SPECIFICATION Spec
INVARIANT NoLostWakeup
PROPERTY ClientsReturn
CHECK_DEADLOCK FALSE
