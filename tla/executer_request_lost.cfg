SPECIFICATION Spec
CONSTANTS
  reserve = reserve
  scan = scan
  gone = gone
  daily = daily
  SingleTasks = {reserve, scan}
  DailyTasks = {daily}
  High <- MCHigh
  Defect <- MCDefect
  Concurrency = 1
  MaxDays = 2
  MaxRestarts = 1
  MaxDrops = 0
INVARIANT RequestKept
