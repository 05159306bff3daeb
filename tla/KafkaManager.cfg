SPECIFICATION FairSpec
CONSTANTS
  other = other
  Self = Self
  None = None
  Foreign = {other}
  MaxQueue = 2
  MaxTopic = 2
INVARIANTS HangsOnlyIfMissed
PROPERTIES ImplementsServiceLife StopEnds OwnBeatsAreHeard
CHECK_DEADLOCK FALSE
