SPECIFICATION FairSpec
CONSTANTS
  regional = regional
  edge = edge
  default = default
  fleet = fleet
  Keys <- TwoNamespaces
  Requests <- CrossedRequests
  None = None
  MaxClusters = 2
  MaxDeletions = 2
  MaxFaults = 1
CHECK_DEADLOCK FALSE
INVARIANTS
  TypeOK
  ClientOfNamedCluster
  ReadyBeforeUse
  SyncReachesTornDown
PROPERTIES
  ReachedWhenStable
