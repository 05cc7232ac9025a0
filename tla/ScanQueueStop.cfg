CONSTANTS
  r1 = r1
  r2 = r2
  r3 = r3
  r4 = r4
  i1 = i1
  i2 = i2
  Run = {r1, r2}
  Id = {i1, i2}
  Settings <- StopSettings
  None = none
SPECIFICATION FairSpec
INVARIANTS StopIsTerminal
PROPERTIES StopSticks EveryRunEnds
CHECK_DEADLOCK FALSE
