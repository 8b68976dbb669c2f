SPECIFICATION FairSpec
CONSTANTS
  root = root
  ann = ann
  bob = bob
  nobody = nobody
  web = web
  thread = thread
  Users = {root, ann}
  Superusers = {root}
  Nobody = nobody
  WebWorkers = {web}
  TaskThreads = {web}
  MachineKinds <- MCEveryKind
  MaxPeriod = 2
  VmPeriod = 1
  LastDay = 4
  MaxStamp = 2
  MaxRestarts = 0
INVARIANTS HistoryComplete MotdCurrent
PROPERTIES DisplacedByRight ExpiredReleased
CHECK_DEADLOCK FALSE
