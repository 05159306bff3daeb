SPECIFICATION Spec
CONSTANTS
  N = 2
  DeviceCounts = {2, 3, 5}
  Word = 32
INVARIANTS DisjointParts DevicesCovered PartsCount StopReachesAll CrashesOnFewDevices
CHECK_DEADLOCK FALSE
