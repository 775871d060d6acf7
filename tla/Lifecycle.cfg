CONSTANTS
  h1 = h1
  h2 = h2
  h3 = h3
  Handlers = {h1, h2, h3}
  Main = Main
  Free = Free
  MaxSandboxes = 1
SPECIFICATION FairSpec
INVARIANTS
  TypeOK
  SingleOwner
  NoneLost
  ReleasedOnce
  InFlightExact
  DrainedStaysQuiet
  DrainedClosesAgent
  GracefulExitLeavesNothing
PROPERTIES
  ImplementsAPI
  OnlyPeersHoldUp
  ShutdownCompletes
