CONSTANTS
  k1 = k1
  Kids = {k1}
  Streams = {"stdout", "stderr"}
  OldAddrs = {"base", "golden"}
  Own = "own"
  MaxOut = 2
  PipeSize = 1
  MaxWrites = 4
SPECIFICATION Spec
INVARIANT OutputWhole
