\* Shared subsets, lost sockets, a history that keeps everything.
SPECIFICATION Spec
CONSTANTS
  h1 = h1
  h2 = h2
  Keys = {1}
  Values = {"open", "done"}
  Gone = Gone
  Accepts <- MCAccepts
  Holders = {h1, h2}
  Wants <- MCShared
  Session = Session
  None = None
  Batches <- MCBatches
  Collection = "todos"
  MaxChanges = 9
  ChangesLimit = 1
  GcTime = "finite"
  Impatient = FALSE
  MaxSequence = 3
  MaxFaults = 1
CHECK_DEADLOCK FALSE
INVARIANTS
  KeyRefsAgree
  RefsAgree
  UnusedExpire
  SubsetsComplete
  SubsetsExact
