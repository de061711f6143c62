SPECIFICATION Spec
CONSTANTS
  Call <- TwoTalkgroups
  System = {1}
  Ref = {1, 2}
  AutoPopulate = TRUE
  AutoSystem = {}
  Blacklist <- Blacklisted12
  TimeFrame = 1
  QueueCap = 2
  Fault = {"group", "write", "client", "duplicate", "call", "crash"}
  MaxCrashes = 1
INVARIANTS TypeOK NoDuplicates BlacklistedNotPatchedIn
CHECK_DEADLOCK FALSE
