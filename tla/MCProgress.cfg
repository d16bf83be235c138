CONSTANTS
  Anchor = {a1}
  History <- ScanHistory
  Gone = "gone"
  ForceUnhealthy = FALSE
  Request = {d1, d2}
  Earlier <- TwoFindings
  MaxStarts = 2
  Budgets <- ScanBudgets
  Caller = {c1, c2, c3}
  Attempts = 2
  MaxStoreCrashes = 1
  Lookup = {r1, r2, r3}
  Contents = {r1, r3}
  Bodied = {r1}
  MaxProcesses = 2
  MaxPoolFaults = 1
  Modes = {"batch-command", "batch"}
  Tab = {t1, t2}
  MaxMints = 4
  MaxLoadFaults = 1
  Note = {n1, n2}
  MaxRailFaults = 1
  MaxSyncs = 2
SPECIFICATION ProgressSpec
INVARIANTS
  ProgressTypeOK
  NoTriggerDropped
  ClosedIsSilent
  OwnAnswer
  OnlyFaultsReject
  SentMeansPosted
PROPERTIES
  DismissalKept
  NothingMissed
  MutateIsAtomic
  EveryCallEnds
  LookupsEnd
  ServedWhileCurrent
  LastOpenedIsShown
  RailShowsAnswers
CHECK_DEADLOCK FALSE
