SPECIFICATION Spec
CONSTANTS
  NumFiles = 3
  Ids <- AllIds
  Values = {"old", "new", "eth1", "eth2", "eth3"}
  Repositories <- AllRepositories
  Manifest <- CU
  Interfaces <- TwoNADs
  NewIPs = "new"
  MaxRuns = 2
CHECK_DEADLOCK FALSE
INVARIANTS
  RewritesAreExact
  OneCommitIsEnough
  BystandersKept
