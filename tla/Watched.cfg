SPECIFICATION FairSpec
CONSTANTS
  Files <- MCFiles
  Contents <- MCContents
  Absent = "Absent"
  Bad = "Bad"
  Imports <- MCImports
  Calls <- MCCalls
  Serves <- MCServes
  Queries <- MCQueries
  Tables <- MCTables
  Kinds = {"http", "lsp", "watch"}
  StartDisks <- MCStartDisks
  MaxEdits = 3
  ChannelBound = 1
  MaxSlices = 1
INVARIANT GraphMirrored
INVARIANT DeltaExactOffBridges
INVARIANT StaleIsPending
PROPERTY ReportedIsIndexed
CHECK_DEADLOCK FALSE
