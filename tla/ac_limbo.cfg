SPECIFICATION Spec
CONSTANTS
  Writes = {w1, w2, w3, w4, w5}
  Statements = {s1, s2}
  OtherReaders = TRUE
SYMMETRY Symmetry
INVARIANTS TransactionIsReported LimboEnds
PROPERTY OnlyCommitCommits
