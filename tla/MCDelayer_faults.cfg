SPECIFICATION Spec
CONSTANTS
  Call = {k1, k2}
  Delay = {1, 2}
  Stamp = {0, 1}
  MaxTime = 3
  MaxCrashes = 2
  MaxChanges = 0
  Fault = {"push", "pop", "getcall"}
INVARIANTS RepeatsNeedRestart
CHECK_DEADLOCK FALSE
