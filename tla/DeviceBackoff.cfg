SPECIFICATION FairSpec
CONSTANTS
  Clients = {d1}
  Conns = {s1}
  Nothing = Nothing
  Periodic = {"State"}
  Uris = {"valid"}
  MayThrow = {}
  MaxTasks = 2
CHECK_DEADLOCK FALSE
PROPERTY
  BackoffGrows
