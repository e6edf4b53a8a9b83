\* Two listeners, three scopes, a limit of two, two attempts to connect; two faults.
SPECIFICATION Spec
CONSTANTS
  a = a
  b = b
  c = c
  l1 = l1
  l2 = l2
  None = None
  Scopes <- MCScopes
  Listeners <- MCListeners
  MaxSubs = 2
  MaxAttempts = 2
  Reorders = FALSE
  MaxSubscribes = 3
  MaxPublishes = 1
  MaxFaults = 2
INVARIANTS
  SubscriptionsAgree
  NothingMissed
  WithinLimit
  NeverStranded
SYMMETRY Symmetric
CHECK_DEADLOCK FALSE
