SPECIFICATION Spec

CONSTANTS
  p1 = p1
  p2 = p2
  p3 = p3
  p4 = p4
  p5 = p5
  v1 = v1
  v2 = v2
  None = None
  Missing = Missing
  Pids = {p1, p2, p3, p4, p5}
  Versions = {v1, v2}
  NewestVersion = v1
  PortOf <- DistinctPorts
  BusyPorts = {}
  ReusePids = FALSE
  PidProbe = TRUE
  AppUsed = TRUE
  SaveMayFail = TRUE
  MaxEvents = 3

SYMMETRY PidSymmetry

INVARIANTS
  TypeOK
  RecordedPidIsOwn
  WebServersExclusive
  StoppedMeansGone
  SwitchedPhpIsCurrent
