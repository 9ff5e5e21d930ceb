SPECIFICATION RFairSpec
CONSTANTS
  c1 = c1  q1 = q1  k1 = k1  k2 = k2
  None = None
  Calls = {c1}
  Requests = {q1}
  Closers = {k1, k2}
  Capacity = 1
  MaxRowFrames = 1
  MaxPanics = 1
  Plans <- MCPlans
INVARIANTS ThreadSound AnswerMatchesCommit CloseIsABarrier RemoteTruly
PROPERTIES EveryCallAnswered
CHECK_DEADLOCK FALSE
