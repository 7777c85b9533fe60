SPECIFICATION Spec

CONSTANTS
  None = None
  Packages <- Nginx
  Shipped <- InRepository
  AtATime = 1
  Faults = {}
  MaxEvents = 1

INVARIANTS
  ConfiguredWhenAnnounced
