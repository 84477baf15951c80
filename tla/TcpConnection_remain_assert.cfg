SPECIFICATION Spec
CONSTANTS
  Size = 2
  MaxSends = 1
  MaxInput = 1
  MaxTasks = 2
  Room = 1
INVARIANT RemainInRange
CHECK_DEADLOCK FALSE
