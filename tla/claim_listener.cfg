CONSTANTS
  Listener = {l1, l2}
  Name = {n1, n2}
  Path = {root, p1}
  Root = root
  Conn = {k1, k2}
  Nil = Nil
SPECIFICATION Spec
INVARIANT ClientsDisconnected
CHECK_DEADLOCK FALSE
