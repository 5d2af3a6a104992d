CONSTANTS
  Paths = {}
  Overlap = {}
  Projects <- OneProject
  SameProject <- OnePair
  NoProject = "none"
  MaxTasks = 2
  MaxLeases = 2
  Templates <- GatedTemplates
  UpdateTo = {"running"}
  Modes = {}
  Reports = {}
  LeaseRequests = {}
  MaxIds = 1
  MaxPanes = 2
  MaxAttempts = 2
  MaxFaults = 0
  MaxCrashes = 0
SPECIFICATION Spec
PROPERTY LateGateCompletesNothing
CHECK_DEADLOCK FALSE
