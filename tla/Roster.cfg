SPECIFICATION Spec
CONSTANTS
  c1 = c1
  c2 = c2
  Clients = {c1, c2}
  Handles = {1, 2, 3}
  MaxPlayers = 3
  MaxSim = 1
SYMMETRY ClientSymmetry
INVARIANTS
  TypeOK
  SameId
  SameRoster
