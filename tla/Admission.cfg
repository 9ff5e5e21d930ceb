SPECIFICATION MCSpec
CONSTANTS
  p1 = p1  s1 = s1  t1 = t1  t2 = t2  o1 = o1  o2 = o2
  Star = Star  None = None  Knock = Knock  NoTable = NoTable
  Peers = {p1}
  Shapes = {s1}
  Action <- ReadOfT1
  Foot <- FootT1
  Ids = {1, 2}
  Sessions = {o1, o2}
  Web = {o2}
  HandRules <- DoorRules
  GrantLists <- SomeGrants
  Chain <- DefaultChain
  Masks <- SomeMasks
  Failing = {"cache", "policy"}
  Rows <- AllRows
  Tables = {t1, t2}
  Peer = p1
  Wanted = "read"
INVARIANTS TypeOK ClearedByOwner OnePendingRow SerialSessionsHold VerdictIsWhatTableSays
CHECK_DEADLOCK FALSE
