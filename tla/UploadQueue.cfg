\* A file of one chunk and an empty one for one slot: one waits or takes over at any moment.
SPECIFICATION FairSpec
CONSTANTS
  j1 = j1  j2 = j2
  Jobs = {j1, j2}
  MAX_CONCURRENT_UPLOADS = 1
  Chunks <- MCChunks
  MaxSessions <- MCSessions
INVARIANTS TypeOK SlotsRespected PublishedOnce
PROPERTIES NoIdleSlot
CHECK_DEADLOCK FALSE
