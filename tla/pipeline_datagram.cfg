CONSTANTS
  Half = 3
  MaxPending = 1
  CatchupSteps = 2
  BacklogLimit = 3
  Redundancy = 2
  ServerCatchup = 2
  MaxQueue = 3
  RespawnTicks = 1
  Reliable = FALSE
  LongDrives = FALSE
  MaxInputs = 6
  MaxUp = 2
  MaxDown = 1
SPECIFICATION Spec
INVARIANTS TypeOK ServerOrder NoStaleReplay FootBounded
PROPERTIES ImplementsStream
