SPECIFICATION LoadingSpec
CONSTANTS
  Threads = {t1, t2}
  Modules <- MCModules
  Builtins = {"DOSCALLS"}
  Imports <- Cycle
  HasInit = {"B"}
  MaxLoads = 3
  PAGE_SIZE = 4
  STACK_SIZE = 8
  CODE_OBJECT_BASE = 65536
  DATA_OBJECT_BASE = 393216
  STACK_OBJECT_BASE = 458752
  MAGIC_API_BASE = 16777216
  Programs <- MCPrograms
  NameLen <- MCNameLen
  NePrograms <- MCNePrograms
  NeArguments <- MCNeArguments
INVARIANTS HandlesValid NoReentry  NeLoadedAsLinked 
CHECK_DEADLOCK FALSE
