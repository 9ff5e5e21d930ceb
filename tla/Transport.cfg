CONSTANTS
  None = None
  Peers = {"p", "q"}
  Calls = {"a", "b"}
  Scenarios <- MCScenarios
  QueueMax = 1
SPECIFICATION Spec
INVARIANTS AnswersTrue PoolSound
PROPERTIES CallsEnd
CHECK_DEADLOCK FALSE
