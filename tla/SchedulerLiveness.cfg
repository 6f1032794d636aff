\* Workers are woken, requests served and clients answered, also across a stop;
\* a client that sends nothing holds the only lobby thread.
SPECIFICATION FairSpec
CONSTANTS
  w1 = w1  w2 = w2  u1 = u1  c1 = c1  c2 = c2  x1 = x1  x2 = x2
  None = None
  Requests <- Pair
  Workers <- Workers2
  LobbyThreads = 1
  Capacity = 1
  MaxTime = 0
  MayStop = TRUE
CHECK_DEADLOCK FALSE
INVARIANT SomeoneIsAwake
PROPERTIES EveryRequestServed EveryClientAnswered
