SPECIFICATION ArchiveSpec
CONSTANTS
  Call = {"k1", "k2", "k3"}
  Delay = {0, 3}
  Stamp = {0, 1, 2}
  MaxTime = 3
  MaxCrashes = 0
  MaxChanges = 1
  Fault = {}
  Talkgroup = {"tg1", "tg2"}
  TalkgroupOf <- Heard
  Patches <- Patched
  Access <- Everything
  Selection <- NoSelection
  Date = {}
  Limit = 1
  Day = 1
  PruneDays = 1
  Range <- Ranges
  Epoch = 10
INVARIANTS ArchiveTypeOK ActivityExact ActivityHidesDelayed
PROPERTY ListingCompletes
CHECK_DEADLOCK FALSE
