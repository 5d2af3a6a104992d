\* Two calls and a prompt, failed writes and a restart; the wait queue holds two
\* calls and its reserve, the job queue one job.
SPECIFICATION Spec
CONSTANTS
  c1 = c1
  c2 = c2
  c3 = c3
  i1 = i1
  i2 = i2
  Calls <- TwoCalls
  Intents <- OneIntent
  MaxWaiters = 3
  MaxJobs = 1
  MaxOthers = 1
  MaxFaults = 2
  MaxCrashes = 1
PROPERTIES CheckpointSafe Acknowledged CheckpointLive
CHECK_DEADLOCK FALSE
