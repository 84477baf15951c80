SPECIFICATION Spec
CONSTANTS
  Prepend = 2
  Initial = 4
  Extra = 3
  MaxBytes = 9
INVARIANTS
  Fifo
  RoomMade
  Bounded
CHECK_DEADLOCK FALSE
