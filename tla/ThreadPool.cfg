SPECIFICATION FairSpec
CONSTANTS
  Workers = {w1, w2, w3}
  Clients = {k1, k2}
  Tasks = {t1, t2, t3}
INVARIANTS
  OnePlace
  NobodyForgotten
  JoinedDrained
PROPERTIES
  TaskRun
  Joins
CHECK_DEADLOCK FALSE
