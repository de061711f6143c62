SPECIFICATION Spec
CONSTANTS
  Config <- OneSystem
  Key = {1, 2}
  Arrival <- Call
  AutoSystem = {1}
  MaxOthers = 1
  MaxFaults = 1
  MaxSaves = 1
INVARIANTS TypeOK Agreement SaveExact
PROPERTY CallsKept
\* The bounds stop every process.
CHECK_DEADLOCK FALSE
