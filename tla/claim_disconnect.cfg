CONSTANTS
  Conn = {k1, k2}
  ClientId = {a}
  Nil = Nil
  QDepth = 1
  Clean = {TRUE}
  Timed = {FALSE}
  Traffic = {"connect", "disconnect"}
SPECIFICATION FairSpec
PROPERTY DisconnectStops
CHECK_DEADLOCK FALSE
