CONSTANTS
  Players = {p1, p2}
  Vehicles = {200, 1003}
  NoPlayer = NoPlayer
  NoVehicle = NoVehicle
  Reliable = TRUE
  MaxKeys = 4
  MaxDeaths = 0
  MaxUp = 2
SYMMETRY Symmetry
SPECIFICATION Spec
INVARIANTS CapsuleRestored
