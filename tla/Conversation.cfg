\* Workloads of turns, commands and process conversations, with background
\* compaction and the cleanup threads, on both storage providers.
SPECIFICATION FairSpec
CONSTANTS
  u1 = u1  p1 = p1  p2 = p2  None = None
  SuperUser = {u1}
  MaxSession = 2
  Pid = {p1, p2}
  Alike = {}
  Load <- Busy
  Compactor = Compactor
  KeepRecent = 1
  Limit = 4
  Ttl = 1
CHECK_DEADLOCK FALSE
INVARIANTS CacheIsFresh TurnIsKept QueuedOnce
PROPERTY MarkIsCleared
