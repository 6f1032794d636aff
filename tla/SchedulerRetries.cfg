\* An attempt, its retry and a sibling compete for one key.
SPECIFICATION Spec
CONSTANTS
  w1 = w1  w2 = w2  u1 = u1  c1 = c1  c2 = c2  x1 = x1  x2 = x2
  None = None
  Requests <- Retried
  Workers <- Workers2
  LobbyThreads = 2
  Capacity = 2
  MaxTime = 1
  MayStop = FALSE
SYMMETRY WorkerSymmetry
CHECK_DEADLOCK FALSE
INVARIANTS KeyIsHeldOnce ReadyIsListed CurrentIsInLobby
PROPERTIES OnlyOwnerClears ServesInOrder
