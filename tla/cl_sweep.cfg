CONSTANTS
  Main = main
  NULL = null
  Clients = {c1, c2}
  Workers = {w1}
  Nodes = {n1, n2}
  Places = {p1, p2}
SPECIFICATION Spec
INVARIANT SweepFreesOnce
CHECK_DEADLOCK FALSE
