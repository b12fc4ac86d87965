CONSTANTS
  Clients = {c1, c2}
  Cells = {x, y}
  Materials = {stone}
  Air = Air
  Reliable = FALSE
  MayDrop = TRUE
  MayDie = TRUE
  FarJoins = TRUE
  MaxEdits = 4
  MaxUp = 2
  Fighters = {q1, q2}
  MaxHp = 2
  Damages = {1, 2}
  StartEnergy = 2
  AttackCost = 1
  RespawnTicks = 2
  ShieldTicks = 1
  FireGap = 1
  SwingGap = 1
  Stagger = 1
  MaxRewind = 1
  Window = 3
  FirstBatteries <- OneBattery
  RangeStart = 2
  MaxQueue = 1
  v1 = v1
  b1 = b1
  Vehicles = {v1}
  Bodies = {b1}
  Size <- Sizes
  PlayerSize = 1
  Room = 3
  MaxNear = 1
  NearDist = 0
  RangeDist = 1
  MaxDist = 2
  Worlds <- SomeWorlds
  Refresh = 2
  Stale = 3
  Modes = {TRUE, FALSE}
  MaxFlight = 2
  MaxTick = 5
SPECIFICATION MatchSpec
INVARIANTS MatchTypes ConfirmedView DeathIsWhole HitsThisLife Fits
PROPERTIES VersionsRise CalmConverges DeathsStand EveryoneReturns VanishesOnlyByLoss
