CONSTANTS
  link = link
  exec = exec
  Users <- MCUsers
  Tester = exec
  QueueLength = 1
  UplinkSize = 1
  RxSize = 2
  SeqModulus = 4
  FirstSeqnum <- MCFirstSeqnum
  FlashSteps = 2
  MaxCmds = 2
  MaxDisturbed = 1
  MaxData = 2
  MaxFaults = 1

SPECIFICATION Spec

CHECK_DEADLOCK FALSE

INVARIANTS
  NoLostSemaphore
  OneUnderway
  OkIsAcknowledged
  UplinkInOrder

PROPERTIES
  SemaphoreComesBack
