CONSTANTS
  m0 = m0
  m1 = m1
  m2 = m2
  Message = {m0, m2}
  Qos <- ZeroTwo
  Nil = Nil
  QDepth = 1
  MaxId = 2
  MaxSession = 2
  MaxInbound = 1
SPECIFICATION Spec
INVARIANTS TypeOK PanicNeedsStop
CHECK_DEADLOCK FALSE
