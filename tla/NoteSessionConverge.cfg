SPECIFICATION FairSessionSpec
CONSTANTS
  n1 = n1
  mound = mound
  snow = snow
  spiral = spiral
  freezeezy = freezeezy
  c1 = c1
  NoMap = NoMap
  Host = Host
  Clients = {c1}
  Notes = {n1}
  Maps = {mound}
  Levels = {spiral}
  MapOf <- OneNote
  LevelOf <- OneLevel
  SaveFiles <- HostSaves
  HostFile = TRUE
  MaxPlayers = 2
  FrameQueue = 1
  MaxQueue = 1
  MaxClaims = 1
INVARIANT
  CountedAtMostOnce
PROPERTY
  MirrorConverges
