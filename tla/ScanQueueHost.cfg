CONSTANTS
  r1 = r1
  r2 = r2
  r3 = r3
  r4 = r4
  i1 = i1
  i2 = i2
  Run = {r1, r2, r3, r4}
  Id = {i1, i2}
  Settings <- HostSettings
  None = none
SPECIFICATION Spec
INVARIANTS TypeOK AdmissionCap ScanIsAccounted AtMostOneLateSession NoOverlapOfQueues QueuedKeepsFile
CHECK_DEADLOCK FALSE
