SPECIFICATION Spec
CONSTANTS
  w1 = w1
  w2 = w2
  m1 = m1
  m2 = m2
  c1 = c1
  c2 = c2
  d1 = d1
  nothing = nothing
  Workers = {w1, w2}
  Machines = {m1, m2}
  Macs = {c1, c2}
  Devices = {d1}
  Hosted = {m2}
  Size = 8
  NetworkIp = 16
  DynFirst = 19
  DynLast = 20
  Entered = {17}
  First = m1
  Nothing = nothing
  MaxJobs = 2
SYMMETRY AnyName
INVARIANTS PartsInv OnlyOverlapping
CHECK_DEADLOCK FALSE
