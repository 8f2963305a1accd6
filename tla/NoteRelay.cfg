SPECIFICATION FairSpec
CONSTANTS
  n1 = n1
  n2 = n2
  m1 = m1
  m2 = m2
  c1 = c1
  NoMap = NoMap
  Host = Host
  Clients = {c1}
  Notes = {n1, n2}
  Maps = {m1, m2}
  MapOf <- MCMapOf
  MaxPlayers = 3
  FrameQueue = 2
  MaxQueue = 2
  MaxClaims = 1
INVARIANTS
  TypeOK
  CaughtUp
  HostMissesNone
PROPERTIES
  ClaimsAreDecided
  DecidedNotesArrive
  ImplementsSharedNotes
