SPECIFICATION Spec
CONSTANTS
  s1 = s1
  s2 = s2
  w1 = w1
  w2 = w2
  None = None
  Slugs = {s1, s2}
  Workers = {w1, w2}
  Pids = {1, 2, 3}
  FirstPort = 1
  LastPort = 2
  Pinned = {s2}
  MaxOps = 1
INVARIANTS
  TypeOK
  PortsExclusive
  NoStrayProcess
  ConfigFollowed
  ProvenProxyIsOwn
PROPERTIES
  NeverUpIsDropped
  KeepsLeases
CHECK_DEADLOCK FALSE
