SPECIFICATION FairSpec
CONSTANTS
  t1 = t1
  r1 = r1
  TextWaits = {t1}
  RevisionWaits = {r1}
  MaxRevision = 2
  MaxSends = 1
  MaxStreams = 2
  MaxCalls = 2
  QueueCapacity = 1
INVARIANTS PaneSafe
PROPERTIES PaneLive
CHECK_DEADLOCK FALSE
