SPECIFICATION SpecIpc
CONSTANTS
  MAX_PROC = 5
  INT_MAX = 1000
  UINT = 100000
  ZeroWords = {4}
  Calls = {"create", "getpid", "send", "recv", "timer"}
  MaxPid = 4
  BufLens = {7}
  MsgLens = {2, 7}
  BadBuffers = TRUE
  Naps = {}
  EaxValues = {0, 7}
  AllocMayFail = FALSE
INVARIANT NoFault
INVARIANT OneRunning
INVARIANT ReadyQueueSound
INVARIANT BlockedQueueBlocked
INVARIANT NoMissedRendezvous
INVARIANT NoSendCycle
PROPERTY SendEndsAtItsReceiver
