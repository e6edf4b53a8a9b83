\* Safety, with timeouts, exhausted attempts and a pruned history.
SPECIFICATION Spec
CONSTANTS
  Gone = Gone
  Scopes <- MCScopes
  Collection = "todos"
  Keys = {1, 2}
  Seeded = {}
  Batches <- MCBatches
  MaxChanges = 2
  ReadLimit = 3
  ChangesLimit = 1
  Attempts = 2
  Offline = FALSE
  RejectsStale = FALSE
  Timeouts = TRUE
  MaxSequence = 3
  MaxFaults = 2
CHECK_DEADLOCK FALSE
INVARIANTS
  AtCursor
  Converged
