SPECIFICATION SessionSpec
CONSTANTS
  n1 = n1
  mound = mound
  snow = snow
  spiral = spiral
  freezeezy = freezeezy
  c1 = c1
  NoMap = NoMap
  Host = Host
  Clients = {c1}
  Notes = {n1}
  Maps = {mound, snow}
  Levels = {spiral, freezeezy}
  MapOf <- OneNote
  LevelOf <- MCLevelOf
  SaveFiles <- MCSaveFiles
  HostFile = FALSE
  MaxPlayers = 2
  FrameQueue = 2
  MaxQueue = 1
  MaxClaims = 1
INVARIANTS
  NoteGoneOrOnItsWay
  CountedAtMostOnce
  CounterShowsTotal
PROPERTY
  ImplementsRelay
