\* Killed trees die and silent processes are found while the handler registers,
\* dies and is restarted and trees exceed their LLM requests, on one request
\* thread.
SPECIFICATION FairSpec
CONSTANTS
  o1 = o1  o2 = o2  t1 = t1  t2 = t2
  MaxPid = 1
  MaxTree = 1
  OsPid <- Os1
  Memory <- NoMemory
  MaxTime = 3
  Word = 16
  Retention = 2
  Thread <- Threads1
  Watchdog = Watchdog
  Main = Main
  Offered <- Served
  BeatStatus <- FinalBeats
  HbTimeout = 0
  RuntimeLimit = 3
  MemLimit = 1
  LlmLimit = 1
  RestartDelay = 1
CHECK_DEADLOCK FALSE
INVARIANT IndexIsKnown
PROPERTIES KilledTreeDies SilentProcessDies DoneTreeCompletes
