SPECIFICATION PmSpec
CONSTANTS
  Threads = {t1, t2}
  Pumps = {t1}
  Timers = {t1}
  MaxQueues = 1
  MaxWindows = 2
  MaxMessages = 2
  MaxFrames = 1
 
PROPERTY DialogEnds
CHECK_DEADLOCK FALSE
