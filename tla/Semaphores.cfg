SPECIFICATION SemSpec
CONSTANTS
  Threads = {main, t1}
  MainTid = main
  NoOwner = NoOwner
  Kinds = {"event", "mutex", "mux"}
  MaxHandles = 2
  MaxCount = 2
  Records <- MCRecords
INVARIANTS MutexAgreement MuxTellsTruth
PROPERTIES ImplementsRecursiveLock PostEndsWait ShutdownDrains
CHECK_DEADLOCK FALSE
