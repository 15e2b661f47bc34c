SPECIFICATION FairSpec
CONSTANTS
  Callers = {c1, c2}
  MaxStrikes = 2
  MaxSpawns = 3
  MaxPolls = 2
PROPERTY ImplementsChildSlot
INVARIANT NoChildLeft
INVARIANT CountedOnce
PROPERTY NewerConnStays
PROPERTY ServedIsNoStrike
PROPERTY CallsReturn
CHECK_DEADLOCK FALSE
