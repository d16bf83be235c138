\* A dying poll restores what a sibling waits for.
CONSTANTS
  d1 = d1
  d2 = d2
  k1 = k1
  k2 = k2
  NoOne = NoOne
  Dispatch = {d1, d2}
  Key = {k1, k2}
  KeyOf <- OwnKeys
  Poll = {p1, p2}
  Timed = {p1}
  Ungroundable = {}
  Floored = {}
  ClaudeOnPath = FALSE
  MaxCloses = 1
  MaxCrashes = 0
SPECIFICATION FairSpec
PROPERTY EveryQueuedDispatchWakesPolls
CHECK_DEADLOCK FALSE
