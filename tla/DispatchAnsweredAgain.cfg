\* A shortcut answers what a dying poll restores.
CONSTANTS
  d1 = d1
  d2 = d2
  k1 = k1
  k2 = k2
  NoOne = NoOne
  Dispatch = {d1, d2}
  Key = {k1, k2}
  KeyOf <- OwnKeys
  Poll = {p1, p2}
  Timed = {p1}
  Ungroundable = {d2}
  Floored = {}
  ClaudeOnPath = FALSE
  MaxCloses = 1
  MaxCrashes = 0
SPECIFICATION Spec
INVARIANT AnsweredIsNeverDeliverable
CHECK_DEADLOCK FALSE
