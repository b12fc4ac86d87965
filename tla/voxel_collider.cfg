CONSTANTS
  Clients = {c1, c2}
  Cells = {x, y}
  Materials = {stone}
  Air = Air
  Reliable = TRUE
  MayDrop = FALSE
  MayDie = FALSE
  FarJoins = FALSE
  MaxEdits = 4
  MaxUp = 2
SYMMETRY Symmetry
SPECIFICATION Spec
INVARIANTS OneCollider
