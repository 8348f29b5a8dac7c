SPECIFICATION DownSpec
CONSTANTS
  Size = 3
  Overhead = 1
  Room = 6
  Shapes <- MCShapes
  MaxResponses = 3
INVARIANTS
  InOrder
  NothingVanishes
  NoGap
PROPERTIES
  Delivered
CHECK_DEADLOCK FALSE
