\* Two clients on one or two sessions of one or two users, with the watchdog and a stop.
SPECIFICATION FairSpec
CONSTANTS
  c1 = c1  c2 = c2  k1 = k1  k2 = k2  k3 = k3  None = None
  Client = {c1, c2}
  Load <- Busy
  Key = {k1, k2, k3}
  Cmd = {"ls", "rm"}
  Dangerous = {"rm"}
  Entries <- Entry
  MaxDriver = 2
  MaxSessions = 1
  MaxPerUser = 1
  UserOf <- TwoUsers
  IdleTimeout = 0
  Retention = 0
  MaxTime = 1
  Word = 8
CHECK_DEADLOCK FALSE
INVARIANTS DriverHasOneOwner DangerNeedsConsent ToldIsTrue
PROPERTIES EndedStaysEnded JobEnds
