SPECIFICATION SpecUser
CONSTANTS
  MAX_PROC = 5
  INT_MAX = 1000
  UINT = 100000
  ZeroWords = {}
  Calls = {"create", "yield", "stop", "sleep", "recv", "timer"}
  MaxPid = 30
  BufLens = {4}
  MsgLens = {2}
  BadBuffers = FALSE
  Naps = {}
  EaxValues = {0}
  AllocMayFail = FALSE
  MAXSIGNAL = 31
  SigCalls = {"sighandler", "sigkill", "sigwait", "sigreturn"}
  SigNos = {1, 3, 5, 7, 18, 20, 30}
  Handlers = {1, 2, 3, 5, 7, 18}
  Waiters = {3, 4}
  MAX_DEVICE = 16
  MAXFILES = 4
  KBDBUFSZ = 2
  KeyEvents <- UserKeys
  MaxWritten = 3
  Mains = {"assign3_test_seq", "signal_reader", "signal_tests", "device_tests", "read_tests"}
  MaxBuf = 3
  MaxTimes = 1
  MaxNap = 10
INVARIANT NoFault
INVARIANT ReadyQueueSound
INVARIANT NoReaderForgotten
INVARIANT OneKeyboard
PROPERTY ReaderHasRoom
PROPERTY ReadsWhatWasTyped
