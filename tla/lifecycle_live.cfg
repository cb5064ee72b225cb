SPECIFICATION Spec
CONSTANTS
  p1 = p1
  w1 = w1
  w2 = w2
  NoProject = NoProject
  Projects = {p1}
  Workers = {w1, w2}
  InitModes = {"shared", "instance"}
  InitStatuses = {"active", "cloning"}
  Webhooks = {p1}
  Branches = {}
  Ops = {"pause", "wake", "sleep", "migrate", "keepAwake", "refresh"}
  MaxStarts = 2
INVARIANTS
  QuiescentConsistent
PROPERTIES
  IdleSleeps
  DirectConnectionWakes
  PanelFollowsContainer
