CONSTANTS
  w1 = w1
  w2 = w2
  Workers = {w1, w2}
  Main = Main
  PoolSize = 1
  OctetLimit = 2
  MaxSubnet = 2
  MaxSandboxes = 2
  MaxRestarts = 1
  EnableSnapshots = FALSE
  KeepFailedSandboxes = FALSE
  EnableCgroups = TRUE
SYMMETRY WorkerSymmetry
SPECIFICATION CreateSpec
INVARIANTS
  CreateTypeOK
  NothingLeftBehind
  PoolConserved
  FreeSlotVMsKilled
  CgroupReachesItsVM
