\* Registrations, final heartbeats, tree kills, the memory of a tree, its
\* completion and the stop of the supervisor interleaved on two request threads;
\* the clock stands still, so a timeout fires only where a difference of times
\* wraps.
SPECIFICATION Spec
CONSTANTS
  o1 = o1  o2 = o2  t1 = t1  t2 = t2
  MaxPid = 2
  MaxTree = 1
  OsPid <- Os2
  Memory <- EachOne
  MaxTime = 1
  Word = 16
  Retention = 1
  Thread <- Threads2
  Watchdog = Watchdog
  Main = Main
  Offered <- Lifecycle
  BeatStatus <- LastBeats
  HbTimeout = 1
  RuntimeLimit = 3
  MemLimit = 1
  LlmLimit = 0
  RestartDelay = 1
SYMMETRY Symmetry
CHECK_DEADLOCK FALSE
INVARIANTS TypeOK AliveIsIndexed CompletedIsEmpty KilledIsHunted KilledIsGone
