SPECIFICATION FairSpec
CONSTANTS
  r1 = r1
  r2 = r2
  Reactors = {r1, r2}
  Tasks = {t1, t2}
  Commands = {k1}
  t1 = t1
  t2 = t2
  k1 = k1
  Period = 2
  MaxErrors = 2
  Nobody = Nobody
INVARIANTS QuietAfterStop DanglesOnlyIfCaught NoUpdateAfterStop
PROPERTIES StopReturnsOrIsStuck
CHECK_DEADLOCK FALSE
