\* A restarted handler finds TREE_HANDLER occupied by its dead predecessor.
SPECIFICATION Spec
CONSTANTS
  o1 = o1  o2 = o2  t1 = t1  t2 = t2
  MaxPid = 2
  MaxTree = 0
  OsPid <- Os2
  Memory <- NoMemory
  MaxTime = 3
  Word = 16
  Retention = 3
  Thread <- Threads1
  Watchdog = Watchdog
  Main = Main
  Offered <- Handled
  BeatStatus <- FinalBeats
  HbTimeout = 0
  RuntimeLimit = 3
  MemLimit = 1
  LlmLimit = 0
  RestartDelay = 1
SYMMETRY Symmetry
CHECK_DEADLOCK FALSE
INVARIANT RestartedHandlerMayRegister
