SPECIFICATION Spec
CONSTANTS
  Entries <- MCEntries
  MaxEntries = 3
  HeaderAddr = 1
  Broadcast = 65535
  BspId = 0
  Ids = {0, 1}
CHECK_DEADLOCK FALSE
INVARIANTS LegacyAsListed ModeRecorded
