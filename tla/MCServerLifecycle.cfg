SPECIFICATION FairSpec
CONSTANTS
  x = x
  y = y
  None = None
  MaxServers = 3
  Commands = {x, y}
  Plans <- Pairs
  Firsts = {"running", None}
  MaxWork = 1
  MaxDirs = 2
  MaxFaults = 1

INVARIANTS ServerSafe
PROPERTIES ServerLive
CHECK_DEADLOCK FALSE
