CONSTANTS
  h1 = h1
  h2 = h2
  s1 = s1
  s2 = s2
  l1 = l1
  l2 = l2
  Handlers = {h1, h2}
  Sandboxes = {s1, s2}
  Lineages = {l1, l2}
  NoLineage = NoLineage
  EnableSnapshots = TRUE
  MaxSnapshots = 2
  MaxRequests = 3
  MaxWrites = 1
  MaxRestarts = 1
SYMMETRY SnapshotSymmetry
SPECIFICATION SnapSpec
INVARIANTS
  SnapTypeOK
  ListedIsWhole
  RestoreConsistent
  PausedHasResumer
