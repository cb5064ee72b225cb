SPECIFICATION Spec
CONSTANTS
  p1 = p1
  w1 = w1
  w2 = w2
  NoProject = NoProject
  Projects = {p1}
  Workers = {w1, w2}
  InitModes = {"shared", "instance"}
  InitStatuses = {"active"}
  Webhooks = {p1}
  Branches = {p1}
  Ops = {"pause", "resume", "sleep", "request", "migrate", "reset", "crash"}
  MaxStarts = 3
SYMMETRY WorkerSymmetry
INVARIANTS
  TypeOK
  
PROPERTIES
  UnpausedOnlyBy
