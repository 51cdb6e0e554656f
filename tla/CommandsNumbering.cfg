SPECIFICATION FairSpec
CONSTANTS
  d1 = d1
  t1 = t1
  t2 = t2
  w1 = w1
  w2 = w2
  NoDevice = NoDevice
  Device <- MCDevices
  Creator <- MCTwoCreators
  Worker <- MCWorkers
  Faults <- AllFaults
  AckStatus <- MCVerdict
  BatchLimit = 1
  MaxSeq = 2
  Ttl = 1
  MaxCommands = 3
  MaxItems = 1
  MaxLate = 1
  MaxEvents = 1
  MaxTime = 1
INVARIANTS
  SeqUnique
PROPERTIES
  EveryCommandSettles
