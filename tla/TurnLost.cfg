\* A session is compacted while a turn is served.
SPECIFICATION Spec
CONSTANTS
  u1 = u1  p1 = p1  p2 = p2  None = None
  SuperUser = {u1}
  MaxSession = 2
  Pid = {p1, p2}
  Alike = {}
  Load <- CompactOnly
  Compactor = Compactor
  KeepRecent = 1
  Limit = 4
  Ttl = 1
CHECK_DEADLOCK FALSE
INVARIANT TurnNeverLost
