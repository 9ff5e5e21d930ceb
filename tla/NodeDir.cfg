SPECIFICATION DirSpec
CONSTANTS
  p = p
  q = q
  a = a
  b = b
  None = None
  Procs = {p, q}
  Build <- MCBuild
  Stored = {0, 1}
  Addrs = {a, b}
  MAX_ADDRS = 2
  Retries = 1
  MaxRuns = 3
  MaxNew = 2
  MaxTrouble = 2
SYMMETRY AddrSymmetry
INVARIANTS DirectorySound OneServerFound
PROPERTIES VersionNeverFalls
CHECK_DEADLOCK FALSE
