SPECIFICATION Spec
CONSTANTS
  h1 = h1
  h2 = h2
  i1 = i1
  i2 = i2
  None = None
  Handlers = {h1, h2}
  Ids = {i1, i2}
  Bodies <- MCBodies
  Word = 32
  Draws = {1, 12, 13, 31}
INVARIANTS StoredAreRunnable DeletedStayDeleted
PROPERTIES OnlyTheBodyChanges
CHECK_DEADLOCK FALSE
