SPECIFICATION FairSpec
CONSTANTS
  Operations = {"backup", "restore"}
  Data = {d1, d2}
  MaxPages = 2
  PagesPerStep = 1
  NTimeoutLimit = 1
INVARIANTS CopyInSync BackupReported
PROPERTIES KeepsPromise CopyEnds
