\* createClient rejects the answer RESYNC_REQUIRED.
SPECIFICATION FairSpec
CONSTANTS
  Gone = Gone
  Scopes <- MCScopes
  Collection = "todos"
  Keys = {1, 2}
  Seeded = {}
  Batches <- MCBatches
  MaxChanges = 10
  ReadLimit = 3
  ChangesLimit = 1
  Attempts = 4
  Offline = FALSE
  RejectsStale = TRUE
  Timeouts = FALSE
  MaxSequence = 3
  MaxFaults = 2
CHECK_DEADLOCK FALSE
PROPERTY Recovers
