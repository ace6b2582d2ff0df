SPECIFICATION SpecUser
CONSTANTS
  MAX_PROC = 5
  INT_MAX = 1000
  UINT = 100000
  ZeroWords = {}
  Calls = {"create", "yield", "stop", "sleep", "timer"}
  MaxPid = 30
  BufLens = {4}
  MsgLens = {2}
  BadBuffers = FALSE
  Naps = {}
  EaxValues = {0}
  AllocMayFail = FALSE
  MAXSIGNAL = 31
  SigCalls = {"sighandler", "sigkill", "sigwait", "sigreturn"}
  SigNos = {18}
  Handlers = {18}
  Waiters = {3, 4}
  MAX_DEVICE = 16
  MAXFILES = 4
  KBDBUFSZ = 2
  KeyEvents <- UserKeys
  MaxWritten = 3
  Mains = {"signal_reader"}
  MaxBuf = 3
  MaxTimes = 2
  MaxNap = 10
PROPERTY EofEndsRead
