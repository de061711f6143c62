SPECIFICATION Spec
CONSTANTS
  Client = {c1}
  MaxClients = 1
  SendCap = 1
  MaxRequests = 1
  MaxBroadcasts = 0
INVARIANTS DepartedNotCounted
CHECK_DEADLOCK FALSE
