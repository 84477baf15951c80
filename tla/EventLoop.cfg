SPECIFICATION FairSpec
CONSTANTS
  Threads = {th1, th2}
  Tasks = {t1, t2, t3}
  Channels = {c1, c2}
  WakeupChannel = wakeup
INVARIANT NoLostWakeup
PROPERTIES
  MailboxSpec
  TaskRuns
  QuitStops
CHECK_DEADLOCK FALSE
