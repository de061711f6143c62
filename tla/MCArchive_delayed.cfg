SPECIFICATION ArchiveSpec
CONSTANTS
  Call = {"k1", "k2"}
  Delay = {0, 2}
  Stamp = {0, 1, 2}
  MaxTime = 3
  MaxCrashes = 0
  MaxChanges = 1
  Fault = {}
  Talkgroup = {"tg1", "tg2"}
  TalkgroupOf <- Heard
  Patches <- Patched
  Access <- SomeLists
  Selection <- Selections
  Date = {1}
  Limit = 1
  Day = 2
  PruneDays = 1
  Range <- Ranges
  Epoch = 10
INVARIANTS SearchHidesDelayed
CHECK_DEADLOCK FALSE
