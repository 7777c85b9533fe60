SPECIFICATION Spec

CONSTANTS
  p1 = p1
  p2 = p2
  p3 = p3
  p4 = p4
  p5 = p5
  v1 = v1
  v2 = v2
  None = None
  Missing = Missing
  Pids = {p1, p2}
  Versions = {v1, v2}
  NewestVersion = v1
  PortOf <- DistinctPorts
  BusyPorts = {}
  ReusePids = FALSE
  PidProbe = TRUE
  AppUsed = FALSE
  SaveMayFail = FALSE
  MaxEvents = 1

SYMMETRY PidSymmetry

INVARIANTS
  WindowUsesSwitchedPhp
