CONSTANTS
  Half = 4
  MaxPending = 2
  CatchupSteps = 2
  BacklogLimit = 2
  Redundancy = 2
  ServerCatchup = 2
  MaxQueue = 3
  RespawnTicks = 1
  Reliable = FALSE
  LongDrives = FALSE
  MaxInputs = 4
  MaxUp = 2
  MaxDown = 1
SPECIFICATION FairSpec
PROPERTIES StallEnds
