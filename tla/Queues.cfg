SPECIFICATION QueueSpec
CONSTANTS
  Threads = {t1, t2, t3}
  MaxHandles = 1
  MaxWrites = 3
 
PROPERTY ReadersGoOn
CHECK_DEADLOCK FALSE
