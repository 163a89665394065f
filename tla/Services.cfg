SPECIFICATION ServicesSpec
CONSTANTS
  MciThread = {t1, t2}
  LastDevice = 2
  MaxAudio = 2
  MaxWatchers = 1
  SocketThread = {t1, t2}
  FirstHandle = 40960
  MaxHandles = 3
  FdSetSize = 64
INVARIANTS SoundOwned DescriptorsOwned ActsOnNamed
PROPERTIES PlayNotified
CHECK_DEADLOCK FALSE
