SPECIFICATION KnockSpec
CONSTANTS
  k1 = k1  k2 = k2
  Global = Global
  Keys = {k1, k2}
  Cost <- Costs
  Burst <- Bursts
  MaxNow = 3
  MaxElapsed = 4
  MaxFaults = 1
SYMMETRY KeySymmetry
CHECK_DEADLOCK FALSE
INVARIANTS WindowBound
PROPERTIES DropSpendsNothing
