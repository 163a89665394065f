SPECIFICATION VcpuSpec
CONSTANTS
  MaxWords = 17
  MaxFrames = 2
  MaxHandlers = 2
INVARIANTS  NoMutualWait
 
CHECK_DEADLOCK FALSE
