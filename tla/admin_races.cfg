SPECIFICATION AdminSpec
CONSTANTS
  scan = scan
  daily = daily
  root = root
  motd = motd
  operator = operator
  SingleTasks = {scan, motd}
  DailyTasks = {daily}
  High <- MCHigh
  Defect <- MCDefect
  Concurrency = 2
  MaxDays = 1
  MaxRestarts = 0
  MaxDrops = 0
  Admins = {root, operator}
  MaxSaves = 2
SYMMETRY AnyAdmin
INVARIANTS OneThreadPerTask NoFreeRun DailyRunsAccounted
