CONSTANTS
  Conn = {k1, k2}
  ClientId = {a}
  Nil = Nil
  QDepth = 1
  Clean = {TRUE, FALSE}
  Timed = {TRUE}
  Traffic = {"connect", "expire", "flow", "full"}
SPECIFICATION Spec
INVARIANTS ClosedAfterDrain SoleNeverPanics StoreLostToSibling WillAtMostOnce ReuseNeedsLateStart IInv Entries
SYMMETRY Symmetry
CHECK_DEADLOCK FALSE
