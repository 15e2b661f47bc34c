SPECIFICATION Spec
CONSTANTS
  Nodes = {"s", "z", "a", "b", "k", "t"}
  Columns = {"k"}
  Tests = {"t"}
  Linked = {"t", "b"}
  Seeds <- MCSeeds
  Edges <- MCEdges
  Weight <- MCWeight
  SchemaTypes = {"sql"}
  Depths = {0, 1, 2, 3}
  Ranks <- MCRanks
  Scale = 12
INVARIANT BackedByEdges
INVARIANT AllDependents
INVARIANT WorstOfTheNearest
INVARIANT StrongIsDirect
CHECK_DEADLOCK FALSE
