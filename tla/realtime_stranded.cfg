SPECIFICATION Spec
CONSTANTS
  c1 = c1
  w1 = w1
  Reaper = Reaper
  Main = Main
  None = None
  Conns = {c1}
  Workers = {w1}
  Hubs = {1, 2}
  Ops = {"enable", "disable", "create", "delete"}
  Tries = 5
  MaxOps = 2
INVARIANTS
  NoSubscriberStranded
CHECK_DEADLOCK FALSE
