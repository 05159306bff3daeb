SPECIFICATION FairRegistrySpec
CONSTANTS
  p1 = p1
  p2 = p2
  Self = Self
  Peers = {p1, p2}
  MaxTopic = 2
  MaxId = 2
  MaxAge = 1
  MaxSteps = 1
INVARIANTS StaleOnlyIfJoinLost
PROPERTIES DeadPeersVanish LivePeersAreListed
CHECK_DEADLOCK FALSE
