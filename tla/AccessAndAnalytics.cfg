SPECIFICATION MCSpec
\* Requests are answered once; a query stops growing, and a device stops
\* reporting, at the bounds.
CHECK_DEADLOCK FALSE
CONSTANTS
  TargetPoints = 15000
  MaxPoints = 25000
  AllowedBuckets <- MCAllowed
  Windows <- MCWindows
  Devices <- MCDevices
  CadenceWindow = 4
  MinSamples = 2
  GapFactor = 3
  Jitter = 2
  VariabilityInverse = 4
  FirstAt <- MCFirstAt
  MaxObservations = 7
  Steps <- MCSteps
  Queries <- MCCharts
  q1 = q1
  q2 = q2
  q3 = q3
  q4 = q4
  u1 = u1
  r1 = r1
  r2 = r2
  s1 = s1
  s2 = s2
  None = None
  Users <- MCUsers
  Roles <- MCRoles
  Services <- MCServices
  SeededRoles <- MCSeededRoles
  SeededServices <- MCSeededServices
  Requests <- MCFourRequests
SYMMETRY Symmetric
INVARIANTS
  AnswersGiveAccess
  SmallestThatFits
  BucketsCountSeconds
PROPERTIES
  OldVerdictsStay
