CONSTANTS
  Listener = {l1, l2}
  Name = {n1, n2}
  Path = {root, p1}
  Root = root
  Conn = {k1, k2}
  Nil = Nil
SPECIFICATION FairSpec
INVARIANTS TypeOK WaitGroupCounts NoneAfterStop StopDisconnects Inv
PROPERTIES StopEnds
CHECK_DEADLOCK FALSE
