CONSTANTS
  Size = 3
  Items <- MCItems
  GoesBefore <- goes_before
  NoItem = NoItem
SPECIFICATION Spec
INVARIANTS Chained NoSlotLost
PROPERTIES Refinement WalkEnds
