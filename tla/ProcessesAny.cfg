SPECIFICATION ProcSpec
CONSTANTS
  Threads = {t1, t2}
  Free = Free
  Calls = {"async", "any"}
  MaxProcs = 2
  MaxOutput = 1
PROPERTY AnyWaitReturns
CHECK_DEADLOCK FALSE
