SPECIFICATION Spec
CONSTANTS
  h = h
  c1 = c1
  c2 = c2
  m1 = m1
  m2 = m2
  e1 = e1
  s1 = s1
  s2 = s2
  none = none
  Host = h
  Clients = {c1, c2}
  Maps = {m1, m2}
  Nobody = none
  HeadStart = 1
  Ids = {e1}
  MaxHp = 2
  Positions = {s1, s2}
  Walkers = {c2}
  Scenes <- OneFeature
  MaxHits = 3
  MaxSets = 3
INVARIANTS
  TypeOK
  FiguresMatch
  NobodyHeldForNothing
  SameRound
  DamagePooled
  DeathsAreShared
  SwitchesAgree
SYMMETRY Symmetry
