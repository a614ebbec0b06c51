SPECIFICATION Spec
CONSTANTS
  regional = regional
  demoregional = demoregional
  edge = edge
  ip1 = ip1
  ip2 = ip2
  ClusterInfo <- UntargetedClusterInfo
  ClusterNames <- SampleNames
  Assignments = {ip1, ip2}
  NoIPv4 = NoIPv4
  Deleted = Deleted
  Absent = Absent
  Broken = Broken
  None = None
  InitialContents <- AnyContents
  MaxEdits = 2
  MaxForeign = 1
  MaxFaults = 2
CHECK_DEADLOCK FALSE
INVARIANTS
  DependentsFollowMove
