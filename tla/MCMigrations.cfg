SPECIFICATION Spec
CONSTANTS
  Legacy <- Databases
  MaxCrashes = 2
  MaxFaults = 2
INVARIANTS TypeOK DroppedWhenMoved RestartsMakeNoDifference
PROPERTY EventuallyServes
\* A server that is ready stays so once it cannot crash any more.
CHECK_DEADLOCK FALSE
