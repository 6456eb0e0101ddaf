SPECIFICATION Spec
CONSTANTS
  Threads = {t1, t2, t3}
  Handles = {h1, h2, h3, h4, h5}
  NoHandle = NoHandle
  NoThread = NoThread
  CloseTwice = FALSE
  MaxAvailable = 2
  Failures = {"commit"}
INVARIANT AlwaysReturnedClean
CHECK_DEADLOCK FALSE
