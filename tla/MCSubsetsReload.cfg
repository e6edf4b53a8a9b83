\* A history that is pruned, so that a client that was away reloads.
SPECIFICATION Spec
CONSTANTS
  h1 = h1
  h2 = h2
  Keys = {1}
  Values = {"open", "done"}
  Gone = Gone
  Accepts <- MCAccepts
  Holders = {h1, h2}
  Wants <- MCSeparate
  Session = Session
  None = None
  Batches <- MCBatches
  Collection = "todos"
  MaxChanges = 1
  ChangesLimit = 1
  GcTime = "finite"
  Impatient = FALSE
  MaxSequence = 3
  MaxFaults = 1
CHECK_DEADLOCK FALSE
INVARIANTS
  SubsetsComplete
