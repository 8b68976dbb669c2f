SPECIFICATION Spec
CONSTANTS
  m1 = m1
  m2 = m2
  v1 = v1
  s1 = s1
  a = a
  b = b
  c = c
  d1 = d1
  d2 = d2
  d3 = d3
  bmc = bmc
  nic = nic
  none = none
  null = null
  Machines = {m1, m2}
  Devices = {v1}
  Labels = {a, b}
  DeviceNames <- MCApartNames
  Domains = {d1, d2, d3}
  Servers = {s1}
  NoServer = none
  ServerOf <- MCServerOf
  Suffixes <- MCSuffixes
  Chatty = {m1}
  Parts = {bmc, nic}
  Cleared = {bmc}
  Null = null
  Submitted <- MCSubmitted
  InitialRow <- MCRow
  InitialDevice <- MCDevice
  Prune = TRUE
  Threads = {1, 2}
  MaxEvents = 2
PROPERTY PruneSparesDevices
