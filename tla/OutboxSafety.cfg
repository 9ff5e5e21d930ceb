SPECIFICATION Spec
CONSTANTS
  r1 = r1  r2 = r2  p1 = p1  p2 = p2  j1 = j1  j2 = j2
  NoJob = NoJob  NoRow = NoRow
  Rows = {r1, r2}
  Peers = {p1}
  Jobs = {j1, j2}
  PeerOf <- OnePeer
  Kind <- WriteAndRead
  Malformed = {}
  ByName = {r2}
  MaxFaults = 1
SYMMETRY JobSymmetry
INVARIANTS TypeOK AppliedAtMostOnce DoneMeansApplied ResultsIffDone
PROPERTIES SettledStays KeepsPromise
