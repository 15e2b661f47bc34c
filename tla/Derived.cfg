SPECIFICATION Spec
CONSTANTS
  Files <- MCFiles
  Contents <- MCContents
  Absent = "Absent"
  Imports <- MCImports
  Calls <- MCCalls
  Serves <- MCServes
  Queries = {}
  Tables = {}
  Builders = {1}
  Hooks = {2}
  StartTrees <- Uses
  NoCache = NoCache
  MaxEdits = 2
  MaxCommits = 3
INVARIANT StampedIsCommitted
INVARIANT HitIsHonest
INVARIANT DeltaImportsExact
CHECK_DEADLOCK FALSE
