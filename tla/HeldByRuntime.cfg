SPECIFICATION Spec
CONSTANTS
  None = None
  s1 = s1
  s2 = s2
  e1 = e1
  e2 = e2
  Sess = {s1, s2}
  Ents = {e1, e2}
  Scenarios <- DropScenarios
  FeedCap = 2
  StdinCap = 1
  PostCap = 1
  Window = 2
  PipeCap = 1
  MaxVib = 2
PROPERTIES HeldByRuntime
CHECK_DEADLOCK FALSE
