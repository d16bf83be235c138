SPECIFICATION RailSpec
CONSTANTS
  Note = {n1, n2}
  n1 = n1
  n2 = n2
  MaxRailFaults = 0
  MaxSyncs = 1
INVARIANT QueuedTextKept
CHECK_DEADLOCK FALSE
