SPECIFICATION Spec
CONSTANTS
  File = {f}
  Bad = {}
  Size = 2
  Setups <- SomeSetups
  MaxSaves = 1
  MaxTroubles = 1
INVARIANTS TypeOK DeletedAfter ExitStopsTimers
PROPERTY EventuallyIngested
\* The bounds stop every process.
CHECK_DEADLOCK FALSE
