CONSTANTS
  m0 = m0
  m1 = m1
  m2 = m2
  Message = {m1, m2}
  Qos <- OneTwo
  Nil = Nil
  QDepth = 1
  MaxId = 2
  MaxSession = 3
  MaxInbound = 0
SPECIFICATION FairSpec
PROPERTIES ReconnectServed
CHECK_DEADLOCK FALSE
