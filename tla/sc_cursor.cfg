SPECIFICATION BatchSpec
CONSTANTS
  Rows = 2
  Limits <- MCLimits
  ParamCount = 2
  Values = {v}
  SqlTexts = {sql}
  Null = Null
  MaxEntries <- MCMaxEntries
INVARIANTS RowIsPosition CursorHasOwner NoMoreIsNoMore ClosesWithResultSet RoomForRow
PROPERTIES CompletionCloses RunsWhatWasAdded
