SPECIFICATION Spec
CONSTANTS
  reserve = reserve
  scan = scan
  gone = gone
  daily = daily
  SingleTasks = {reserve, gone}
  DailyTasks = {daily}
  High <- MCHigh
  Defect <- MCDefect
  Concurrency = 2
  MaxDays = 2
  MaxRestarts = 1
  MaxDrops = 1
INVARIANTS OneThreadPerTask IInv RunningIsInHand ClaimedOnce OneStartPerQueuedDay
PROPERTY BoardImplemented
