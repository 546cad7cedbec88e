SPECIFICATION FairSpec
CONSTANTS
  c1 = c1
  c2 = c2
  c3 = c3
  t1 = t1
  t2 = t2
  NoTid = NoTid
  Callers = {c1, c2, c3}
  Pthreads = {t1, t2}
  ReadyResults = {"NO_ERROR", "NO_INIT"}
  LoopResults = {TRUE, FALSE}
  CreateMayFail = TRUE
  ExitRequests = TRUE
INVARIANTS
  TypeOK
  ExitedIsQuiet
  TidIsLive
  NoSelfDeadlock
  NoLostWakeup
  RunningKnown
PROPERTIES
  JoinReturns
