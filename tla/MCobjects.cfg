SPECIFICATION FairSpec
CONSTANTS
  first = first
  second = second
  cu = cu
  cuup = cuup
  du = du
  upf = upf
  e1a = e1a
  e1b = e1b
  regional = regional
  edge = edge
  ran = ran
  core = core
  ip1 = ip1
  ip2 = ip2
  Objects <- TwoObjects
  NFs = {cu, cuup, upf}
  Interfaces = {e1a, e1b}
  Addresses = {ip1, ip2}
  Repositories <- SharedRepositories
  Elements <- SharedElements
  Named <- OwnInterfaces
  Cluster <- ClusterOf
  Namespace <- NamespaceOf
  NoIPv4 = NoIPv4
  Deleted = Deleted
  None = None
  MaxEdits = 3
CHECK_DEADLOCK FALSE
INVARIANTS
  TypeOK
  AgreedCommits
  FreshPods
  Remembered
PROPERTIES
  AllServed
  EveryObjectServed
  Restored
