SPECIFICATION Spec
CONSTANTS
  n1 = n1
  n2 = n2
  n3 = n3
  mound = mound
  caves = caves
  snow = snow
  spiral = spiral
  freezeezy = freezeezy
  NoMap = NoMap
  Notes = {n1, n2, n3}
  Maps = {mound, caves, snow}
  Levels = {spiral, freezeezy}
  MapOf <- MCMapOf
  LevelOf <- MCLevelOf
  MaxResets = 1
INVARIANTS
  TypeOK
  NoRecordedNoteStands
  CountedOncePerRecord
  CounterIsOfThisLevel
PROPERTY
  SharedTotalSurvives
