SPECIFICATION Spec
CONSTANTS
  h = h
  c1 = c1
  c2 = c2
  o1 = o1
  o2 = o2
  Host = h
  Clients = {c1, c2}
  Objects = {o1}
  MaxCount = 2
  MaxQueue = 2
PROPERTY
  EventsCountOnce
SYMMETRY Symmetry
