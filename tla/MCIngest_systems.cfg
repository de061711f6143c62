SPECIFICATION Spec
CONSTANTS
  Call <- TwoSystems
  System = {1, 2}
  Ref = {1, 2}
  AutoPopulate = FALSE
  AutoSystem = {1}
  Blacklist <- Blacklisted12
  TimeFrame = 1
  QueueCap = 2
  Fault = {"group", "write", "read", "client", "crash"}
  MaxCrashes = 1
INVARIANT RowsUnique
PROPERTIES EveryCallSettled StoredIsHeard
CHECK_DEADLOCK FALSE
