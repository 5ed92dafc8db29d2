SPECIFICATION FairSpec
CONSTANTS
  Events = {e1}
  Malformed = Malformed
  Workers = {w1}
  None = None
  BatchSize = 1
  MaxLen = 1
  MaxEntries = 2
  MaxCrashes = 1
PROPERTIES
  EveryEntryStored
CHECK_DEADLOCK FALSE
