SPECIFICATION FairSpec
CONSTANTS
  reserve = reserve
  scan = scan
  gone = gone
  daily = daily
  SingleTasks = {reserve, scan, gone}
  DailyTasks = {daily}
  High <- MCHigh
  Defect <- MCStuck
  Concurrency = 1
  MaxDays = 2
  MaxRestarts = 1
  MaxDrops = 1
INVARIANT ConcurrencyRespected
PROPERTIES HighServed NormalServed DailyFlagReleased DuePickedUp
