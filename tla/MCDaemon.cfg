\* Two commands of either version, one crash, two late answers.
CONSTANTS
  None = None
  Cli = {c1, c2}
  Version = {"old", "new"}
  MaxCrashes = 1
  MaxSlow = 2
SPECIFICATION FairSpec
INVARIANTS
  TypeOK
  OneServerUnlessStrayed
  StoppedIsGoing
  CleanExitLeavesNoLock
PROPERTIES
  EveryCommandEnds
CHECK_DEADLOCK FALSE
