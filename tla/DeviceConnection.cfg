SPECIFICATION Spec
CONSTANTS
  Clients = {d1}
  Conns = {s1, s2, s3}
  Nothing = Nothing
  Periodic = {"State"}
  Uris = {"valid", "malformed"}
  MayThrow = {"gateway", "certificates"}
  MaxTasks = 2
SYMMETRY Symmetric
CHECK_DEADLOCK FALSE
INVARIANTS
  TableIsLive
  LiveDevicesAreBacked
  ConnectedDevicesReport
PROPERTY
  OnlyThrowsStrand
