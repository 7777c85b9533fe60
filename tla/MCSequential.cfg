SPECIFICATION Spec

CONSTANTS
  t1 = t1
  t2 = t2
  p1 = p1
  p2 = p2
  p3 = p3
  p4 = p4
  p5 = p5
  v1 = v1
  v2 = v2
  None = None
  Active = Active
  Threads = {t1}
  Pids = {p1, p2, p3, p4, p5}
  Versions = {v1, v2}
  NewestVersion = v1
  PortOf <- DistinctPorts
  BusyPorts = {}
  ReusePids = FALSE
  PidProbe = FALSE
  AdminLogin = FALSE
  Requests <- AllRequests
  Faults = {}
  MaxEvents = 4

SYMMETRY PidSymmetry

INVARIANTS
  WebServersExclusive
  StartedMeansUp
  VersionDurable
  StoppedMeansDown
  ExitLeavesNothing
PROPERTIES
  ImplementsBoard
