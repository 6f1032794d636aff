\* Three requests for one package, an edit and a crash.
SPECIFICATION Spec
CONSTANTS
  p1 = p1  r1 = r1  r2 = r2  r3 = r3  None = None
  Request = {r1, r2, r3}
  Load <- Loads
  Package = {p1}
  Steps = 1
  Threads = 2
  MaxQueue = 2
  MaxEdits = 1
  MaxCrashes = 1
CHECK_DEADLOCK FALSE
INVARIANTS OnePreparePerKey SlotHasLeader LaunchedIsPrepared
PROPERTY AcceptedIsAnswered
