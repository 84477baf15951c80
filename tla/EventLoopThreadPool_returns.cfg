SPECIFICATION PoolFairSpec
CONSTANTS
  N = 2
  MaxConns = 1
PROPERTY StartReturns
CHECK_DEADLOCK FALSE
