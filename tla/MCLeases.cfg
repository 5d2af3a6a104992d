CONSTANTS
  Paths <- LeasePaths
  Overlap <- LeaseOverlap
  Projects <- LeaseProjects
  SameProject <- LeasePairs
  NoProject <- Nowhere
  MaxTasks = 2
  MaxLeases = 2
  Templates <- LeaseTemplates
  UpdateTo = {}
  Modes = {"workspace"}
  Reports = {}
  LeaseRequests <- LeaseSets
  MaxIds = 2
  MaxPanes = 2
  MaxAttempts = 1
  MaxFaults = 0
  MaxCrashes = 1
  Names = {"a", "ab"}
  Stars <- AllStars
  Fillers = {"", "."}
  MaxLen = 3
SPECIFICATION LeasesSpec
INVARIANTS LeaseExclusive OwnersLive OverlapSound
PROPERTIES RestartProtects
CHECK_DEADLOCK FALSE
