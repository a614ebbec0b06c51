SPECIFICATION FairSpec
CONSTANTS
  first = first
  second = second
  cu = cu
  cuup = cuup
  du = du
  upf = upf
  e1a = e1a
  e1b = e1b
  regional = regional
  edge = edge
  ran = ran
  core = core
  ip1 = ip1
  ip2 = ip2
  Objects <- OneObject
  NFs = {cu, cuup, du}
  Interfaces = {e1a}
  Addresses = {ip1, ip2}
  Repositories <- DUApart
  Elements <- TwoDependents
  Named <- OneInterface
  Cluster <- ClusterOf
  Namespace <- NamespaceOf
  NoIPv4 = NoIPv4
  Deleted = Deleted
  None = None
  MaxEdits = 1
CHECK_DEADLOCK FALSE
PROPERTIES
  EveryNFRestored
