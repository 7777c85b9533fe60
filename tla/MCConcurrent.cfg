SPECIFICATION Spec

CONSTANTS
  t1 = t1
  t2 = t2
  p1 = p1
  p2 = p2
  p3 = p3
  p4 = p4
  p5 = p5
  v1 = v1
  v2 = v2
  None = None
  Active = Active
  Threads = {t1, t2}
  Pids = {p1, p2, p3}
  Versions = {v1, v2}
  NewestVersion = v1
  PortOf <- DistinctPorts
  BusyPorts = {8080}
  ReusePids = FALSE
  PidProbe = TRUE
  AdminLogin = TRUE
  Requests = {"toggle", "version"}
  Faults = {"process", "app", "save"}
  MaxEvents = 3

SYMMETRY ThreadSymmetry

INVARIANTS
  TypeOK
  RecordedPidIsOwn
PROPERTIES
  KillsOnlyOwn
