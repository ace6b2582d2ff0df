SPECIFICATION SpecSig
CONSTANTS
  MAX_PROC = 4
  INT_MAX = 1000
  UINT = 100000
  ZeroWords = {}
  Calls = {"create", "recv", "timer"}
  MaxPid = 3
  BufLens = {7}
  MsgLens = {2}
  BadBuffers = FALSE
  Naps = {}
  EaxValues = {0}
  AllocMayFail = FALSE
  MAXSIGNAL = 4
  SigCalls = {"sighandler", "sigkill", "sigwait", "sigreturn"}
  SigNos = {1}
  Handlers = {5}
  Waiters = {3}
CHECK_DEADLOCK FALSE
INVARIANT AssertionsHold
