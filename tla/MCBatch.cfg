\* Two different clicks, one of them answered by a shortcut, so batches of two.
CONSTANTS
  d1 = d1
  d2 = d2
  k1 = k1
  k2 = k2
  NoOne = NoOne
  Dispatch = {d1, d2}
  Key = {k1, k2}
  KeyOf <- OwnKeys
  Poll = {p1, p2}
  Timed = {p1, p2}
  Ungroundable = {d2}
  Floored = {}
  ClaudeOnPath = TRUE
  MaxCloses = 1
  MaxCrashes = 0
SPECIFICATION Spec
SYMMETRY PollSymmetry
INVARIANTS
  QueueIsOpenDispatches
  OnePlaceAtATime
PROPERTIES
  ImplementsDispatchQueue
  EndedSessionDrainsNothing
CHECK_DEADLOCK FALSE
