CONSTANTS
  m0 = m0
  m1 = m1
  m2 = m2
  Message = {m1, m2}
  Qos <- OneTwo
  Nil = Nil
  QDepth = 1
  MaxId = 3
  MaxSession = 3
  MaxInbound = 1
SPECIFICATION Spec
INVARIANTS AckedIsRemoved
CHECK_DEADLOCK FALSE
