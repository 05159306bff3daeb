SPECIFICATION FairSpec
CONSTANTS
  s1 = s1
  s2 = s2
  Sockets = {s1, s2}
  MaxClients = 3
INVARIANTS DanglesOnlyInStop
PROPERTIES EndedClientsAreErased StopReturns
CHECK_DEADLOCK FALSE
