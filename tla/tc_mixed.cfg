SPECIFICATION Spec
CONSTANTS
  Conns <- MCConns
  TransactionMode <- MCTransactionMode
  ExplicitReadOnly <- MCExplicitReadOnly
  MaxSavepoints <- MCMaxSavepoints
  Writes = {w1, w2}
  Faulty = TRUE
SYMMETRY Symmetry
INVARIANTS Agreement CommitPersists AckedWritesSurvive UpgradedHoldsWriteLock
PROPERTIES RollbackDiscards FlagChangeRepairs EnforcedReadOnly
