SPECIFICATION Spec
CONSTANTS
  root = root
  ann = ann
  bob = bob
  nobody = nobody
  web = web
  thread = thread
  Users = {root, ann}
  Superusers = {root}
  Nobody = nobody
  WebWorkers = {web}
  TaskThreads = {thread}
  MachineKinds <- MCPlain
  MaxPeriod = 1
  VmPeriod = 1
  LastDay = 2
  MaxStamp = 2
  MaxRestarts = 1
INVARIANTS ResInv RowWhole PeriodRespected PermanentGranted HistoryDated
CHECK_DEADLOCK FALSE
