SPECIFICATION SpecSig
CONSTANTS
  MAX_PROC = 4
  INT_MAX = 1000
  UINT = 100000
  ZeroWords = {}
  Calls = {"timer"}
  MaxPid = 2
  BufLens = {7}
  MsgLens = {2}
  BadBuffers = FALSE
  Naps = {}
  EaxValues = {0}
  AllocMayFail = FALSE
  MAXSIGNAL = 5
  SigCalls = {"sighandler", "sigkill", "sigreturn"}
  SigNos = {1, 2, 3}
  Handlers = {0, 5}
  Waiters = {}
INVARIANT HandlerInstalled
