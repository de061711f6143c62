SPECIFICATION Spec
CONSTANTS
  Call = {k1, k2}
  Delay = {0, 1, 2}
  Stamp = {0, 1}
  MaxTime = 3
  MaxCrashes = 2
  MaxChanges = 1
  Fault = {}
INVARIANTS TypeOK AtMostOnce TableIsTimers
PROPERTIES OnlyStopLoses KeepsPromise EventuallyBroadcast
CHECK_DEADLOCK FALSE
