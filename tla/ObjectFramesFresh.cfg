SPECIFICATION Spec
CONSTANTS
  m1 = m1
  m2 = m2
  Maps = {m1, m2}
  NoMap = NoMap
  MaxPlayers = 3
  Walkers = {0, 1}
  MaxSeq = 2
  MaxFlight = 2
INVARIANT
  FreshFramesPass
