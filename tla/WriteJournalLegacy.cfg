CONSTANTS
  Operation = {w1}
  Attempt = {a1, a2}
  Prior = {}
  Root = root
  None = none
  Expanded = FALSE
SPECIFICATION Spec
INVARIANTS AtMostOnce
CHECK_DEADLOCK FALSE
