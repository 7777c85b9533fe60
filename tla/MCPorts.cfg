SPECIFICATION FilesSpec

CONSTANTS
  w1 = w1
  w2 = w2
  Nothing = Nothing
  Workers = {w1, w2}
  Settings <- SomeSettings
  DefaultPorts <- Defaults
  Faults = {"app", "error"}
  MaxEvents = 4
  Versions = {"8.2", "8.3"}
  NewestVersion = "8.3"
  Extensions = {"curl"}
  LinesOf <- SomeLines
  Typed <- SomeTexts

SYMMETRY WorkerSymmetry

CONSTRAINT OneSide

INVARIANTS
  TypeOK
  FilesFollowPorts
  ApacheStartRepairs
  FilesTypeOK
  IniKeepsVersion
  TogglesLast
  PhpFollowsIni
  ListIsCurrent
