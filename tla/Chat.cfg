SPECIFICATION FairSpec
CONSTANTS
  Nodes = {"h", "a", "b", "c"}
  Host = "h"
  Workloads <- RoomWork
  Scaffolded = {"h", "a", "b"}
  MaxFaults = 1
  None = None
INVARIANTS RoomIsTrue RoomPromises
PROPERTIES MembersHear
CHECK_DEADLOCK FALSE
