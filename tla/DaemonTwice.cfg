\* Three commands of one version, no crash, no late answer.
CONSTANTS
  None = None
  Cli = {c1, c2, c3}
  Version = {"new"}
  MaxCrashes = 0
  MaxSlow = 0
SPECIFICATION Spec
INVARIANT OneServerUnlessReclaimed
SYMMETRY CliSymmetry
CHECK_DEADLOCK FALSE
