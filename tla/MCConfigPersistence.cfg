SPECIFICATION FairSpec
CONSTANTS
  theme = theme
  size = size
  Fields = {theme, size}
  Values = {0, 1}
  Preferences = {theme}
  Theme = theme
  Custom = 1
  Bundled = 0
  Reloads = {r1}
  MaxReloads = 1
  MaxJobs = 1
  MaxEdits = 2
  MaxElsewhere = 1
  MaxFailures = 1
  MaxOthers = 1
  MaxRemovals = 1
  MaxStarts = 1
  MaxMoves = 2
INVARIANTS SettingsSafe
PROPERTIES WritesRight SettingsLive
CHECK_DEADLOCK FALSE
