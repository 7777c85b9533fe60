SPECIFICATION Spec

CONSTANTS
  None = None
  Packages <- OtherCards
  Shipped <- InRepository
  AtATime = 1
  Faults = {"error", "app", "lists"}
  MaxEvents = 4

INVARIANTS
  TypeOK
  InstalledAsAnnounced
  ConfiguredWhenAnnounced
  DataWhenAnnounced
  RecordTellsTheTruth
