SPECIFICATION FairSpec
CONSTANTS
  Tasks = {x1, x2, x3}
  Clients = {c1, c2}
  Workers = {w1}
  NoTask = NoTask
  Free = Free
INVARIANTS TypeOK MutexInv TaskSeen StopSeen ListOK
PROPERTIES RunsInOrder TaskRuns StopEnds
CHECK_DEADLOCK FALSE
