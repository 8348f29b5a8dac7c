SPECIFICATION Spec
CONSTANTS
  Pages = 2
  QueueLength = 2
  LinkLength = 2
  MaxUpdates = 2
  MaxCommands = 1
  MaxFaults = 1
INVARIANTS
  RunsSigned
  ReportedIsWhole
  NeverMixed
CHECK_DEADLOCK FALSE
PROPERTIES
  TakesEffect
