SPECIFICATION Spec
CONSTANTS
  regional = regional
  demoregional = demoregional
  edge = edge
  ip1 = ip1
  ip2 = ip2
  ClusterInfo <- PackedClusterInfo
  ClusterNames <- SampleNames
  Assignments = {ip1, ip2}
  NoIPv4 = NoIPv4
  Deleted = Deleted
  Absent = Absent
  Broken = Broken
  None = None
  InitialContents <- SomeMissing
  MaxEdits = 2
  MaxForeign = 1
  MaxFaults = 1
CHECK_DEADLOCK FALSE
INVARIANTS
  TypeOK
  NoRepeatedCommits
  OneTeardownPerPush
  DependentsFollowTarget
PROPERTIES
  TeardownOnlyAfterPublish
  PushPreservesForeignWork
  HonoursContract
