\* One key, two local mutations, one change by others; two faults, one crash.
SPECIFICATION Spec
CONSTANTS
  Keys <- MCKeys
  MaxAttempts = 2
  MaxLocal = 2
  MaxRemote = 1
  MaxFaults = 2
  MaxCrashes = 1
INVARIANTS
  PushedOnce
  ViewIsShard
  CacheIsShard
  NoPushHangs
CHECK_DEADLOCK FALSE
