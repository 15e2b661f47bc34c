SPECIFICATION Spec
CONSTANTS
  Files <- MCFiles
  Contents <- MCContents
  Absent = "Absent"
  Bad = "Bad"
  Imports <- MCImports
  Calls <- MCCalls
  Serves <- MCServes
  Queries <- MCQueries
  Tables <- MCTables
  Kinds = {"http"}
  StartDisks <- MCStartDisks
  MaxEdits = 3
  ChannelBound = 1
  MaxSlices = 1
INVARIANT OnDiskIsIndexed
CHECK_DEADLOCK FALSE
