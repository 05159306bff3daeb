SPECIFICATION Spec
CONSTANTS
  h1 = h1  h2 = h2  alice = alice  root = root
  timed = timed  endless = endless  ghost = ghost
  r1 = r1  r2 = r2  s1 = s1
  Handlers = {h1, h2}
  Worker = Worker
  Main = Main
  Nobody = Nobody
  NoId = NoId
  Users = {alice, root}
  Roots = {root}
  SimIds = {timed, endless, ghost}
  Stored = {timed, endless}
  Length <- MCLength
  RunIds = {r1, r2}
  Secondaries = {s1}
  Word = 16
  MaxTime = 2
  MaxRequests = 3
CHECK_DEADLOCK FALSE
INVARIANT
  NoSecondInstance
