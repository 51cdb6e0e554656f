SPECIFICATION Spec
\* Every request is made once.
CHECK_DEADLOCK FALSE
CONSTANTS
  r1 = r1
  r2 = r2
  r3 = r3
  d1 = d1
  d2 = d2
  e1 = e1
  k1 = k1
  k2 = k2
  here = here
  there = there
  NoEui = NoEui
  NoKey = NoKey
  MaxLate = 1
  Request <- MCRequests
  Device <- MCTwoDevices
  Eui <- MCEuis
  Key <- MCKeys
  Place <- MCPlaces
SYMMETRY SymmetricDevices
INVARIANTS
  ProvisionedIsThere
  KeyShown
PROPERTIES
  RetryCompletes
