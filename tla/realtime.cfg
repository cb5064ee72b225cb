SPECIFICATION Spec
CONSTANTS
  c1 = c1
  w1 = w1
  w2 = w2
  Reaper = Reaper
  Main = Main
  None = None
  Conns = {c1}
  Workers = {w1, w2}
  Hubs = {1, 2}
  Ops = {"enable", "disable", "create", "delete", "sleep", "wake", "crash"}
  Tries = 2
  MaxOps = 2
SYMMETRY HandlersAlike
INVARIANTS
  TypeOK
  ClosedHubIsEmpty
  NoOrphanListener
  EmptySinceTruthful
  SequentialDelivers

  
CHECK_DEADLOCK FALSE
