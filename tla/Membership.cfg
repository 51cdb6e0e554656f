SPECIFICATION Spec
\* Every request is made once.
CHECK_DEADLOCK FALSE
CONSTANTS
  r1 = r1
  r2 = r2
  a1 = a1
  a2 = a2
  g1 = g1
  f1 = f1
  NoPair = NoPair
  Request <- MCRequests
  Asset <- MCAssets
  Group <- MCGroups
  Fence <- MCFences
  History <- MCHistories
  MaxRows = 2
SYMMETRY Symmetric
PROPERTIES
  OutcomeAsAsked
  RefusedForARival
  StateSurvivesCover
  DeletedWatchesNothing
