CONSTANTS
  Half = 3
  MaxPending = 2
  CatchupSteps = 2
  BacklogLimit = 3
  Redundancy = 2
  ServerCatchup = 2
  MaxQueue = 2
  RespawnTicks = 1
  Reliable = FALSE
  LongDrives = FALSE
  MaxInputs = 4
  MaxUp = 1
  MaxDown = 1
SPECIFICATION FairSpec
PROPERTIES ReceivedIsReleased ControlsArrive
