SPECIFICATION ProcSpec
CONSTANTS
  Threads = {t1, t2}
  Free = Free
  Calls = {"sync", "async", "one", "any", "kill"}
  MaxProcs = 2
  MaxOutput = 1
INVARIANTS ChildrenAccounted SyncOutputComplete
PROPERTY ChildrenEnd
CHECK_DEADLOCK FALSE
