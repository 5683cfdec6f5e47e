CONSTANTS
  Conn = {k1}
  ClientId = {a}
  Nil = Nil
  QDepth = 1
  Clean = {TRUE, FALSE}
  Timed = {TRUE, FALSE}
  Traffic = {"connect", "bad", "reject", "error", "disconnect", "flow",
             "request", "quiet", "expire", "full"}
SPECIFICATION FairSpec
INVARIANTS TypeOK WaitGroupCounts CleanLeavesNothing
PROPERTY StopCompletes
CHECK_DEADLOCK FALSE
