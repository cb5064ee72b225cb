SPECIFICATION Spec
CONSTANTS
  p1 = p1
  w1 = w1
  NoProject = NoProject
  Projects = {p1}
  Workers = {w1}
  InitModes = {"shared"}
  InitStatuses = {"active"}
  Webhooks = {}
  Branches = {}
  Ops = {"pause", "request"}
  MaxStarts = 2
INVARIANTS
  PausedNeverAutoResumes
