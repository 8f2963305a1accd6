SPECIFICATION FairSpec
CONSTANTS
  s1 = s1
  s2 = s2
  s3 = s3
  m1 = m1
  m2 = m2
  Shots = {s1, s2, s3}
  Markers = {m1, m2}
  ProjectileMax = 2
INVARIANTS
  ShownOnce
PROPERTIES
  StraysGo
  GhostsGo
