SPECIFICATION PromptSpec
CONSTANTS
  regional = regional
  demoregional = demoregional
  edge = edge
  ip1 = ip1
  ip2 = ip2
  ClusterInfo <- SampleClusterInfo
  ClusterNames <- SampleNames
  Assignments = {ip1, ip2}
  NoIPv4 = NoIPv4
  Deleted = Deleted
  Absent = Absent
  Broken = Broken
  None = None
  InitialContents <- HandWritten
  MaxEdits = 2
  MaxForeign = 0
  MaxFaults = 1
CHECK_DEADLOCK FALSE
INVARIANTS
  AtMostOneCU
  SettledWhenQuiet
  NoneLeftDeleted
PROPERTIES
  NoWakeupLost
  StaysInPlace
  EditsObserved
  UndisturbedConvergence
