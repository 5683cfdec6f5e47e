CONSTANTS
  Levels = 3
  Client = {c1, c2}
  Filter <- SomeFilters
  Asked = {0, 2}
  Publish <- SomePublishes
  Publication = {p1, p2}
  Nil = Nil
  MaxCall = 2
SPECIFICATION Spec
INVARIANTS TypeOK SearchAgrees OverrunNeedsEndMark ServedWasSubscribed SteadyIsServed RetainedNotMissed Inv
SYMMETRY Symmetry
CHECK_DEADLOCK FALSE
