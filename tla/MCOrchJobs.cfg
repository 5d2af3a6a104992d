CONSTANTS
  Paths = {}
  Overlap = {}
  Projects <- OneProject
  SameProject <- OnePair
  NoProject = "none"
  MaxTasks = 2
  MaxLeases = 2
  Templates <- GatedTemplates
  UpdateTo = {}
  Modes = {"worktree"}
  Reports = {}
  LeaseRequests = {}
  MaxIds = 2
  MaxPanes = 1
  MaxAttempts = 2
  MaxFaults = 1
  MaxCrashes = 1
  Day = 6
  Triggers <- AllTriggers
  Policies = {"run_latest", "skip"}
  Grace = 3
  Opening = 36
  MaxNow = 66
  Naps = {1, 5, 15}
  MaxTime = 1000
  None = None
SPECIFICATION JobsSpec
INVARIANTS TypeOK MergeReservation GateFence
PROPERTIES AttemptsNeverRepeat DependentsPinAttempt IntegrationSettles ScheduledNotRequeued DefinitionRight
CHECK_DEADLOCK FALSE
