SPECIFICATION Spec
CONSTANTS
  Threads = {t1, t2}
  Statements = {s1, s2}
  Prepared = {s2}
  Ptrs = {p1, p2, p3, p4, p5}
  Addrs = {a1, a2}
  NoPtr = NoPtr
  NoAddr = NoAddr
  NoThread = NoThread
  EmptySql = TRUE
SYMMETRY Symmetry
INVARIANTS RegistryExact
PROPERTY KeepsContract
