CONSTANTS
  e1 = e1
  Execs = {e1}
  Free = Free
SPECIFICATION StreamSpec
INVARIANT NoActiveStream
