SPECIFICATION ThreadSpec
CONSTANTS
  MaxTid = 2
  MaxPolls = 1
  Codes = {2}
INVARIANTS JoinsTellTruth 
PROPERTY ShutdownEnds
CHECK_DEADLOCK FALSE
