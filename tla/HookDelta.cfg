SPECIFICATION Spec
CONSTANTS
  Files <- MCFiles
  Contents <- MCContents
  Absent = "Absent"
  Imports <- MCImports
  Calls <- MCCalls
  Serves <- MCServes
  Queries = {}
  Tables = {}
  Builders = {1}
  Hooks = {2}
  StartTrees <- Bridged
  NoCache = NoCache
  MaxEdits = 1
  MaxCommits = 2
INVARIANT ArtifactIsFull
CHECK_DEADLOCK FALSE
