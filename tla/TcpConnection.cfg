SPECIFICATION FairSpec
CONSTANTS
  Size = 2
  MaxSends = 3
  MaxInput = 3
  MaxTasks = 2
  Room = 1
INVARIANTS
  PendingWatched
  RemovedOnce
  LifecycleAsserts
  DestroyedStaysOut
  WriteEventCurrent
PROPERTIES
  StreamSpec
  PeerGoneDestroyed
  OutputDrains
CHECK_DEADLOCK FALSE
