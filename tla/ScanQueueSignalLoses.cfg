CONSTANTS
  r1 = r1
  r2 = r2
  r3 = r3
  r4 = r4
  i1 = i1
  i2 = i2
  Run = {r1, r2}
  Id = {i1}
  Settings <- SignalLosesSettings
  None = none
SPECIFICATION Spec
INVARIANTS ScanKept
CHECK_DEADLOCK FALSE
