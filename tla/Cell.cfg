SPECIFICATION FairSpec
CONSTANTS
  Files <- MCFiles
  Calls <- MCCalls
  ArcIds <- MCArcIds
  StartForms <- MCStartForms
  EditsOf <- MCEditsOf
  MaxEdits = 2
  ChannelBound = 1
  NoArc = NoArc
  NoContent = NoContent
  NoCache = NoCache
INVARIANT TypeOK
INVARIANT SharedArcsAgree
INVARIANT EmbeddingMatchesIndex
INVARIANT BatchBaseIsCurrent
PROPERTY ImplementsFreshIndex
PROPERTY LeavesBuilding
PROPERTY WatchedEditsServed
PROPERTY MinedAreServed
CHECK_DEADLOCK FALSE
