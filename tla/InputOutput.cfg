SPECIFICATION IoSpec
CONSTANTS
  Names = {"a", "A"}
  Fold <- TwoSpellings
  Requests <- SomeRequests
  MaxInode = 2
  PIPE_HANDLE_BASE = 20
  FirstFile = 3
  FirstFind = 10
  MaxMade = 3
  PipeSize = 1
  DupTargets = {20}
  Components = {"a", "b"}
  MaxDepth = 4
  Sizes <- ConsoleSizes
  MaxKeys = 1
  MaxLine = 1
  HistorySize = 1
INVARIANTS  SharingHolds   CellsDecode PutBack
 
CHECK_DEADLOCK FALSE
