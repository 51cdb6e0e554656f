SPECIFICATION Spec
CONSTANTS
  d1 = d1
  t1 = t1
  t2 = t2
  w1 = w1
  w2 = w2
  NoDevice = NoDevice
  Device <- MCDevices
  Creator <- MCCreators
  Worker <- MCWorkers
  Faults <- MCFaults
  AckStatus <- MCVerdicts
  BatchLimit = 1
  MaxSeq = 2
  Ttl = 1
  MaxCommands = 2
  MaxItems = 2
  MaxLate = 1
  MaxEvents = 2
  MaxTime = 1
SYMMETRY MCSymmetry
INVARIANTS
  ItemCorrelates
  DeviceReportWins
PROPERTIES
  KeepsContract
