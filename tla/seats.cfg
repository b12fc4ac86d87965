CONSTANTS
  Players = {p1, p2}
  Vehicles = {1, 1003}
  NoPlayer = NoPlayer
  NoVehicle = NoVehicle
  Reliable = FALSE
  MaxKeys = 3
  MaxDeaths = 1
  MaxUp = 2
SPECIFICATION FairSpec
INVARIANTS TypeOK SeatsAgree DriversAreFit
PROPERTIES NoSeatStolen SeatsAsRequested ViewsSettle
