\* The second click of a double click lands while the first probe runs.
CONSTANTS
  d1 = d1
  d2 = d2
  k1 = k1
  k2 = k2
  NoOne = NoOne
  Dispatch = {d1, d2}
  Key = {k1, k2}
  KeyOf <- SameKey
  Poll = {p1, p2}
  Timed = {p1}
  Ungroundable = {}
  Floored = {}
  ClaudeOnPath = TRUE
  MaxCloses = 0
  MaxCrashes = 0
SPECIFICATION Spec
INVARIANT OneBillForADoubleClick
CHECK_DEADLOCK FALSE
