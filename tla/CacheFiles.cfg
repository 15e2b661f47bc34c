SPECIFICATION FairSpec
CONSTANTS
  Paths <- MCPaths
  Hashes = {"old", "new"}
  NoHash = "none"
  b1 = b1
  b2 = b2
  b3 = b3
  Procs = {b1, b2, b3}
  Batch <- MCBatch
  Start <- MCStart
  Kinds = {"store", "derived", "edges"}
  Nobody = Nobody
  Nothing = Nothing
  Before = Before
INVARIANT NeverTorn
INVARIANT SitesMatch
PROPERTY ImplementsMergedStore
PROPERTY SavesEnd
CHECK_DEADLOCK FALSE
