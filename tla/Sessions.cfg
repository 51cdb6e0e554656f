SPECIFICATION FairSpec
\* Idle when no request is made.
CHECK_DEADLOCK FALSE
CONSTANTS
  r1 = r1
  r2 = r2
  Nobody = Nobody
  Request <- MCRequests
  MaxActive = 1
  Grace = 1
  Lifetime = 1
  Retention = 1
  MaxRequests = 4
  MaxTime = 2
INVARIANTS
  OneLivePerLogin
  SameAnswer
  SurvivorsOverlap
  LimitBound
PROPERTIES
  EveryRequestEnds
