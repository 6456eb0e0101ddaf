SPECIFICATION Spec
CONSTANTS
  Operations = {"restore"}
  Data = {d1, d2}
  MaxPages = 2
  PagesPerStep = 1
  NTimeoutLimit = 1
INVARIANT RestoreReported
