SPECIFICATION Spec
CONSTANTS
  Threads = {t1}
  Statements = {s1, s2}
  Prepared = {s2}
  Ptrs = {p1, p2, p3, p4}
  Addrs = {a1, a2, a3}
  NoPtr = NoPtr
  NoAddr = NoAddr
  NoThread = NoThread
  EmptySql = TRUE
PROPERTY CloseCloses
