CONSTANTS
  Main = main
  NULL = null
  Clients = {c1, c2, c3}
  Workers = {w1}
  Nodes = {n1, n2, n3}
  Places = {p1, p2, p3}
SPECIFICATION FairSpec
INVARIANTS TypeOK Linked OneNodePerClient RemoveFinds LockedIsSafe WalkReachesStayers
PROPERTIES RosterSpec WalksAndRemovalsEnd
ACTION_CONSTRAINT FreshInTurn
CHECK_DEADLOCK FALSE
