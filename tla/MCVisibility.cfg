\* A rule that depends on a reference; writers know the rows they write.
SPECIFICATION Spec
CONSTANTS
  k1 = k1
  k2 = k2
  Keys <- MCKeys
  NoRow = NoRow
  Todos <- MCTodos
  Members <- MCMembers
  AccessRules <- MCAccessRules
  NoRule = NoRule
  Decide <- AccessDecision
  Matches <- MatchesReadPredicate
  Permits <- Allows
  SyncModes <- MCSyncModes
  StaleOriginals = FALSE
  MaxPushes = 3
  MaxFaults = 1
SYMMETRY Symmetric
CHECK_DEADLOCK FALSE
INVARIANTS
  ViewIsExact
  InvalidationsArrive
