SPECIFICATION StoreSpec
CONSTANTS
  Paths = {p1, p2}
  Remotes = {ra}
  NoRemote = NoRemote
  MaxVersions = 2
  StoreClients = {c1, c2}
INVARIANT PrunedIsRefetched
CHECK_DEADLOCK FALSE
