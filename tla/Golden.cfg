CONSTANTS
  c1 = c1
  c2 = c2
  Creates = {c1, c2}
  Main = Main
  A = A
  B = B
  Lineages = {A, B}
  MaxLives = 4
  MaxBuilds = 4
  MaxWrites = 1
SPECIFICATION FairSpec
INVARIANTS
  TypeOK
  UsedIsWhole
  RefusedOnlyIfLeft
PROPERTIES
  ServedIsImmutable
  StartEnds
