SPECIFICATION Spec
CONSTANTS
  Files = {1, 2, 3}
  Sizes <- MCSizes
  Ranks = {0, 1}
  Budgets = {2, 4, 5, 6, 7, 8, 9, 10, 12}
  Requests <- MCRequests
INVARIANT SelectedLast
INVARIANT LowestFirst
INVARIANT OverOnlyAtTheFloor
INVARIANT AnswerFits
PROPERTY GivesUpOnlyWhenOver
CHECK_DEADLOCK FALSE
