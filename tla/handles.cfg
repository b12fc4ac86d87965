CONSTANTS
  Players = {p1, p2, p3}
  NoPlayer = NoPlayer
  MaxHandle = 2
  Cooldown = 3
  RosterEvery = 1
  MaxSilence = 3
  MaxDelay = 2
  MaxSnaps = 1
  Reliable = FALSE
  Batteries = {k1, k2}
  MaxEnergy = 1
  QueueCap = 2
  Sessions = {s1, s2}
  Sockets = {s2}
  MaxLoops = 2
  MaxPlayers = 1
  MaxEvents = 1
SPECIFICATION ToldSpec
INVARIANTS ToldTypes PoolWhole TrueNames ClientFollows RunningIsFound
PROPERTIES GhostsVanish CatchesUp NoGhosts SessionsEnd
