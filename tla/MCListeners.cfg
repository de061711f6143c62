SPECIFICATION Spec
CONSTANTS
  Client = {c1, c2}
  MaxClients = 1
  SendCap = 1
  MaxRequests = 1
  MaxBroadcasts = 1
INVARIANTS TypeOK SlotsAccounted BroadcastToConfigured
PROPERTIES StaysOut ConfiguredOrClosed SlotReturned BroadcastAdvances
CHECK_DEADLOCK FALSE
