SPECIFICATION FairSpec
CONSTANTS
  Items = {1, 2}
  Existing = {1}
  MaxEdits = 2
  MaxRefreshes = 2
  MaxToggles = 1
INVARIANTS TypeOK JournalExact ShowsLastEdit OneReplay
PROPERTIES EverythingEnds
CHECK_DEADLOCK FALSE
