SPECIFICATION Spec
CONSTANTS
  Writes = {w1, w2, w3, w4}
  Statements = {s1}
  OtherReaders = FALSE
INVARIANT AckedIsDurable
