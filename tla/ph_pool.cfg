SPECIFICATION FairSpec
CONSTANTS
  Threads = {t1, t2}
  Handles = {h1, h2, h3}
  NoHandle = NoHandle
  NoThread = NoThread
  CloseTwice = TRUE
  MaxAvailable = 2
  Failures = {"begin", "commit", "statement", "physical"}
INVARIANTS ReturnedClean ResetsOnce OneOpenHandle NoDeadlock
PROPERTIES KeepsLease GivenBack
CHECK_DEADLOCK FALSE
