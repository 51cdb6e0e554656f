SPECIFICATION FairSpec
\* Idle when no request is made.
CHECK_DEADLOCK FALSE
CONSTANTS
  d1 = d1
  d2 = d2
  a1 = a1
  a2 = a2
  r1 = r1
  r2 = r2
  NoDevice = NoDevice
  NoAsset = NoAsset
  Device <- MCDevices
  Asset <- MCAssets
  Request <- MCRequests
  MaxRequests = 5
  MaxTime = 1
INVARIANTS
  CurrentMatchesHistory
  OnePlaceAtATime
PROPERTIES
  EveryRequestEnds
