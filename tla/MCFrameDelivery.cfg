SPECIFICATION BusySpec
CONSTANTS
  a = a
  b = b
  row1 = row1
  row2 = row2
  None = None
  Clients = {a, b}
  Rows = {row1, row2}
  MaxOutput = 2
  MaxUi = 1
  MaxOps = 3
  MaxChanges = 3
INVARIANTS FrameSafe
PROPERTIES EventuallyCurrent
CHECK_DEADLOCK FALSE
