SPECIFICATION Spec
CONSTANTS
  MAX_PROC = 5
  INT_MAX = 1000
  UINT = 100000
  ZeroWords = {}
  Calls = {"create", "send", "recv", "timer"}
  MaxPid = 4
  BufLens = {7}
  MsgLens = {2}
  BadBuffers = FALSE
  Naps = {}
  EaxValues = {0}
  AllocMayFail = FALSE
INVARIANT NoMissedSender
