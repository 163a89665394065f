SPECIFICATION DesktopSpec
CONSTANTS
  MaxWindows = 4
  Threads = {t1}
  MaxChannel = 1
INVARIANTS StackMatches MarkedUntilShown
PROPERTY MessageBoxReturns
CHECK_DEADLOCK FALSE
