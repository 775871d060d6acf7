CONSTANTS
  k1 = k1
  Kids = {k1}
  Streams = {"stdout", "stderr"}
  OldAddrs = {"base", "golden"}
  Own = "own"
  MaxOut = 2
  PipeSize = 2
  MaxWrites = 5
SPECIFICATION FairSpec
INVARIANTS
  TypeOK
  GuestAddressed
  ReplyLeavesNothing
  TimedOutKillsGroup
  ExitFaithful
PROPERTY ExecEnds
