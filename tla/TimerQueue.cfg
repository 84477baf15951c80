SPECIFICATION FairSpec
CONSTANTS
  MaxAdds = 2
  MaxSets = 2
  MaxLate = 3
  Delays = {1, 3}
  Intervals = {0, 2}
INVARIANTS
  OnTime
  CancelledGone
  Accounted
PROPERTY Fires
CHECK_DEADLOCK FALSE
