SPECIFICATION Spec
CONSTANTS
  j1 = j1
  j2 = j2
  t1 = t1
  t2 = t2
  t3 = t3
  Jvms = {j1, j2}
  Threads = {t1, t2, t3}
  JvmOf <- MCJvmOf
  Mortal = {j2}
  NoThread = NoThread
INVARIANTS LibraryKept OneLibrary Settled NoDeadlock
PROPERTY EveryLoadReturns
CHECK_DEADLOCK FALSE
