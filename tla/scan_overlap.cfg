SPECIFICATION Spec
CONSTANTS
  m1 = m1
  m2 = m2
  Machines = {m1, m2}
  Administrative = {}
  Scans <- Both
  Page = page
  MaxResults = 1
  MaxOthers = 1
  MaxFaults = 1
INVARIANTS ScanTypeOK EnvironmentCurrent AloneScansOwn OnlyVirtualHosted
CHECK_DEADLOCK FALSE
