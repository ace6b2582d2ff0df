SPECIFICATION SpecClock
CONSTANTS
  MAX_PROC = 5
  INT_MAX = 1000
  UINT = 100000
  ZeroWords = {}
  Calls = {"create", "stop", "yield", "sleep", "timer"}
  MaxPid = 8
  BufLens = {7}
  MsgLens = {2}
  BadBuffers = FALSE
  Naps = {0, 10, 30}
  EaxValues = {0}
  AllocMayFail = TRUE
INVARIANT TypeOK
INVARIANT NoFault
INVARIANT ReadyQueueSound
INVARIANT SleepersListed
INVARIANT DeadQueueDead
INVARIANT PidNamesSlot
INVARIANT TicksEncodeTimeLeft
PROPERTY NeverLate
PROPERTY SleeperWakes
PROPERTY ReadyRuns
PROPERTY FirstReadyFirstRun
