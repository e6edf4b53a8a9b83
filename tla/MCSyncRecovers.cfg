\* Liveness, with an IndexedDB cache, a pruned history and timeouts.
SPECIFICATION FairSpec
CONSTANTS
  Gone = Gone
  Scopes <- MCScopes
  Collection = "todos"
  Keys = {1, 2}
  Seeded = {2}
  Batches <- MCBatches
  MaxChanges = 1
  ReadLimit = 3
  ChangesLimit = 1
  Attempts = 2
  Offline = TRUE
  RejectsStale = FALSE
  Timeouts = TRUE
  MaxSequence = 2
  MaxFaults = 3
CHECK_DEADLOCK FALSE
PROPERTY Recovers
