SPECIFICATION FairSpec
CONSTANTS
  N = 3
  MaxConns = 4
  Fds = {1, 2}
INVARIANTS
  LoopsReal
  RoundRobin
  ChannelsHeld
  OwnDescriptor
  AssertsHold
PROPERTIES
  LifeSpec
  ClosedForgotten
CHECK_DEADLOCK FALSE
