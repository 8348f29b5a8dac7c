CONSTANTS
  Size = 2
  Items <- ThreeItems
  GoesBefore <- goes_before
  NoItem = NoItem
  Period = 10
  CallbackTimeout = 1
  AlarmTimeout = 5
  AddTimeout = 1
  SendTimeout = 1
  MaxEpoch = 4
  MaxSets = 2
SPECIFICATION Spec
INVARIANTS ExactlyOnce AlarmIsSoonest
PROPERTIES TasksReturn ImplementsTimetable
