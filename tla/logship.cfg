SPECIFICATION FairSpec
CONSTANTS
  Logger = {l1, l2}
  Shape <- MCShape
  Buffer = 1
  Batch = 2
  MaxPerMin = 2
  MaxRecords = 4
  MaxWindows = 2
CHECK_DEADLOCK FALSE
INVARIANTS
  QueueSound
  PostedInOrder
  ShippedSafely
PROPERTIES
  LoggingNeverStalls
  AcceptedIsPosted
