SPECIFICATION FairSpec
\* Idle when no message comes.
CHECK_DEADLOCK FALSE
CONSTANTS
  loc = loc
  stat = stat
  join = join
  log = log
  dev = dev
  Device <- MCDevices
  Event <- MCEvents
  Anonymous <- MCAnonymous
  KindOf <- MCKinds
  DeviceOf <- MCDeviceOf
  Faults <- AllFaults
  Slots = 2
  MaxDeliveries = 3
INVARIANTS
  AppliedAtMostOnce
  ProcessedMeansApplied
  UplinksInOrder
PROPERTIES
  EveryDeliveryEnds
