SPECIFICATION FairSpec
\* Every socket is opened once, and locations are bounded.
CHECK_DEADLOCK FALSE
CONSTANTS
  c1 = c1
  s1 = s1
  t1 = t1
  t2 = t2
  h1 = h1
  h2 = h2
  o1 = o1
  NoSession = NoSession
  NoClient = NoClient
  PoolSize = 2
  MaxLocations = 2
  Client <- MCOneClient
  Session <- MCOneSession
  Ticket <- MCTwoTickets
  Socket <- MCTwoSockets
  Other <- MCOneOther
INVARIANTS
  TicketUsedOnce
  PoolGivenBack
  FeedInOrder
PROPERTIES
  ListensAgain
