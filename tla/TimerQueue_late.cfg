SPECIFICATION Spec
CONSTANTS
  MaxAdds = 2
  MaxSets = 0
  MaxLate = 2
  Delays = {1, 2}
  Intervals = {0, 2}
INVARIANT EnqueuedInTime
CHECK_DEADLOCK FALSE
