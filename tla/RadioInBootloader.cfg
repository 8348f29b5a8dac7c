SPECIFICATION Spec
CONSTANTS
  Pages = 2
  QueueLength = 1
  LinkLength = 2
  MaxUpdates = 1
  MaxCommands = 0
  MaxFaults = 0
INVARIANT BootloaderAccepted
CHECK_DEADLOCK FALSE
