SPECIFICATION Spec
CONSTANTS
  a1 = a1
  Autos <- AutoSet
  Once <- None
  QueueOne <- AutoSet
  RunLatest <- AutoSet
  Grace = 0
  Deletes = TRUE
  MaxTime = 2
  MaxRuns = 2
  MaxTasks = 2
  MaxEdits = 2
  MaxFaults = 1
  MaxCrashes = 1
INVARIANTS RunsSafe
PROPERTIES LaunchesRight RunsLive
CHECK_DEADLOCK FALSE
