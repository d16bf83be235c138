\* A poll times out between its wake and its drain.
CONSTANTS
  d1 = d1
  d2 = d2
  k1 = k1
  k2 = k2
  NoOne = NoOne
  Dispatch = {d1, d2}
  Key = {k1, k2}
  KeyOf <- OwnKeys
  Poll = {p1, p2}
  Timed = {p1}
  Ungroundable = {}
  Floored = {}
  ClaudeOnPath = FALSE
  MaxCloses = 0
  MaxCrashes = 0
SPECIFICATION Spec
INVARIANT DrainedIsDeliveredOrRestored
CHECK_DEADLOCK FALSE
