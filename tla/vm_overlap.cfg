SPECIFICATION Spec
CONSTANTS
  w1 = w1
  w2 = w2
  Workers = {w1, w2}
  VmMax = 2
  MaxNames = 3
  MaxMachines = 3
  MaxRemoves = 1
  MaxEdits = 1
SYMMETRY AnyWorker
INVARIANTS VmInv CreatedWithinLimit OwnDomain OwnDisk
PROPERTY AloneKeepsLimit
CHECK_DEADLOCK FALSE
