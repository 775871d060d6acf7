CONSTANTS
  e1 = e1
  e2 = e2
  Execs = {e1, e2}
  Free = Free
SPECIFICATION StreamFairSpec
INVARIANTS
  StreamTypeOK
  AtMostTwice
  AnswerMatches
PROPERTY ExecAnswered
