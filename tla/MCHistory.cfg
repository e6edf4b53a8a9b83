\* The transaction of one shard, with a history of two changes.
SPECIFICATION Spec
CONSTANTS
  f = f
  g = g
  k1 = k1
  NoRow = NoRow
  NotAnObject = NotAnObject
  Names <- MCNames
  Scopes <- MCScopes
  StoredScopes <- MCStoredScopes
  Keys <- MCKeys
  Fields <- MCFields
  Vals <- MCVals
  Ids <- MCIds
  Batches <- MCBatches
  Seed <- MCSeed
  MaxChanges = 2
  MaxSequence = 5
INVARIANTS
  IInv
  AppliedOnce
  HistoryIsNewest
  NoSilentGap
  AcceptedIsApplied
  OnlyLimiterRefusesRetry
  RowsAreReplay
PROPERTIES
  ImplementsLog
