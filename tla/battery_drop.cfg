CONSTANTS
  Fighters = {q1}
  MaxHp = 2
  Damages = {1, 2}
  StartEnergy = 2
  AttackCost = 1
  RespawnTicks = 2
  ShieldTicks = 1
  FireGap = 1
  SwingGap = 1
  Stagger = 1
  MaxRewind = 1
  Window = 3
  FirstBatteries = {}
  RangeStart = 2
  MaxQueue = 1
SPECIFICATION LifeSpec
PROPERTIES CollisionsDrop
