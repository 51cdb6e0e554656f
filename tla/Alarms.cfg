SPECIFICATION MCSpec
\* Idle when no uplink comes and no user changes anything.
CHECK_DEADLOCK FALSE
CONSTANTS
  d1 = d1
  d2 = d2
  a1 = a1
  f1 = f1
  f2 = f2
  t1 = t1
  t2 = t2
  NoDevice = NoDevice
  NoAsset = NoAsset
  NoFence = NoFence
  Device <- MCDevices
  Asset <- MCAssets
  Fence <- MCFences
  Task <- MCTasks
  MaxUplinks = 3
  MaxChanges = 2
INVARIANTS
  StatusMatchesLog
  AlarmsAlternate
PROPERTIES
  EveryEvaluationEnds
