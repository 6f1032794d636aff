\* One handler, one tool that the supervisor ends.
SPECIFICATION Spec
CONSTANTS
  h1 = h1  h2 = h2  t1 = t1  t2 = t2  c1 = c1  c2 = c2  None = None
  Pids = {h1, h2, t1, t2}
  Handlers = {h1, h2}
  Calls = {c1, c2}
  MaxAttempts = 2
  MaxRounds = 2
  MaxBeats = 1
  Load <- Killing
CHECK_DEADLOCK FALSE
INVARIANT CrashIsTold
