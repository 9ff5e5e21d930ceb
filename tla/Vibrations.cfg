SPECIFICATION FairSpec
CONSTANTS
  Casts <- OneEach
  MaxRows = 2
  MaxFaults = 2
INVARIANTS CursorsSkipNothing
PROPERTIES VibratesForWrites EveryoneHears
CHECK_DEADLOCK FALSE
