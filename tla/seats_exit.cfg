CONSTANTS
  Players = {p1}
  Vehicles = {200}
  NoPlayer = NoPlayer
  NoVehicle = NoVehicle
  Reliable = TRUE
  MaxKeys = 2
  MaxDeaths = 0
  MaxUp = 2
SPECIFICATION FairSpec
PROPERTIES ExitIsNotified
