\* Catch-up by pages of one update while others push and the history is pruned.
SPECIFICATION CSpec
CONSTANTS
  f = f
  k1 = k1
  NoRow = NoRow
  NotAnObject = NotAnObject
  Names <- MCScopes
  Scopes <- MCScopes
  StoredScopes <- MCScopes
  Keys <- MCKeys
  Fields <- MCFields
  Vals <- MCVals
  Ids <- MCIds
  Batches <- MCBatches
  Seed <- MCSeed
  MaxChanges = 3
  MaxSequence = 5
  PageLimit = 1
INVARIANTS
  NothingSkipped
  NothingForeign
PROPERTIES
  LastPageIsLast
  PagesAdvance
