CONSTANTS
  w1 = w1
  w2 = w2
  k1 = k1
  k2 = k2
  Trees = {w1, w2}
  Spaces = {s1, s2}
  Tasks = {k1, k2}
  Runs = {k1}
  BranchOf <- TwoTasks
  Calls = {c1}
  Providers = {"module", "git"}
  Existing <- First
  SlotEdits = 1
  MaxPrompts = 1
  MaxOpens = 1
  MaxDeletes = 1
  MaxMoves = 1
  None = None
  Nil = Nil
  Prompt = Prompt
  Panes = {p1, p2}
  Kinds = {TRUE, FALSE}
  Updates = {"failed", "review"}
  MaxLosses = 1
  OperatorEdits = 2
  MaxReruns = 1
SPECIFICATION WorkersSpec
INVARIANTS StartSafe
PROPERTIES SlotSafe LateReportHarmless SlotLive RunningHasAgent
CHECK_DEADLOCK FALSE
