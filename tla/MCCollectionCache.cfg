\* Collections that start at once and are not used after they were cleaned up.
SPECIFICATION FairSpec
CONSTANTS
  o1 = o1
  o2 = o2
  o3 = o3
  call = call
  todos = todos
  projects = projects
  url = url
  None = None
  Holders <- MCHolders
  Objects <- MCObjects
  Calls <- MCCalls
  Scopes <- MCScopes
  Connections = {url}
  ConnectionOf <- MCConnectionOf
  Clients = {1, 2}
  MaxSize = 1
  Lazy = FALSE
  Restarts = FALSE
  MaxSubscribers = 1
CHECK_DEADLOCK FALSE
INVARIANTS
  ClientsInv
  UsedIsOpen
  OneLivePerScope
PROPERTIES
  ClosedStaysClosed
  DisposedIsReleased
