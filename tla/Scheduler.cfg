SPECIFICATION FairSpec
CONSTANTS
  Workers = {w1, w2, w3}
  Loop = w1
  Callers = {c1}
  Tasks = {t1, t2}
  w1 = w1
  w2 = w2
  w3 = w3
  c1 = c1
  t1 = t1
  t2 = t2
  t3 = t3
  Nobody = Nobody
  Horizon = 1
PROPERTIES ImplementsTaskQueue DueTasksRun QueuedTasksRun DestructorReturns
CHECK_DEADLOCK FALSE
