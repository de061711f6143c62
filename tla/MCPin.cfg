SPECIFICATION Spec
CONSTANTS
  Client = {1, 2, 3}
  Address = {"here", "there"}
  AddressOf <- TwoAddresses
  Code = {"k1"}
  Limit <- LimitOfOne
  MaxPinAttempts = 1
  Window = 2
  MaxSaves = 1
INVARIANTS TypeOK FailuresBounded
PROPERTIES LockLasts Unlocks
