CONSTANTS
  w1 = w1
  w2 = w2
  Workers = {w1, w2}
  Main = Main
  PoolSize = 1
  OctetLimit = 2
  MaxSubnet = 3
  MaxSandboxes = 4
  MaxRestarts = 0
SYMMETRY WorkerSymmetry
SPECIFICATION NetSpec
INVARIANT FallbackFindsFreeNames
