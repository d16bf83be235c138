\* The same click twice, two polls that may both time out, one daemon crash.
CONSTANTS
  d1 = d1
  d2 = d2
  k1 = k1
  k2 = k2
  NoOne = NoOne
  Dispatch = {d1, d2}
  Key = {k1}
  KeyOf <- SameKey
  Poll = {p1, p2}
  Timed = {p1, p2}
  Ungroundable = {}
  Floored = {d1}
  ClaudeOnPath = TRUE
  MaxCloses = 1
  MaxCrashes = 1
SPECIFICATION Spec
SYMMETRY PollSymmetry
INVARIANTS
  TypeOK
  OneEntryPerKey
  AtMostOnePollDelivery
  AcceptedAnswerHasCard
  SecondAnswerNeedsDeadPoll
  OneChildOnceProbed
PROPERTIES
  AnsweredUndoneOnlyByRestore
CHECK_DEADLOCK FALSE
