SPECIFICATION FairSpec
CONSTANTS
  h = h
  c1 = c1
  c2 = c2
  o1 = o1
  o2 = o2
  Host = h
  Clients = {c1}
  Objects = {o1}
  MaxCount = 2
  MaxQueue = 4
INVARIANTS
  TypeOK
  NothingLost
  BitsCountedAtHost
PROPERTIES
  HostEventsCountOnce
  Converges
