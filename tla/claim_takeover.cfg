CONSTANTS
  Conn = {k1, k2}
  ClientId = {a}
  Nil = Nil
  QDepth = 1
  Clean = {TRUE}
  Timed = {FALSE}
  Traffic = {"connect", "error"}
SPECIFICATION FairSpec
PROPERTY TakeoverReturns
CHECK_DEADLOCK FALSE
