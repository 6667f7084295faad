CONSTANTS
  Fds = {3, 4, 5, 6, 7, 8, 9, 10}
  Clients = {c1, c2, c3}
  MaxSignals = 2
  Listener = listener
  NULL = null
SPECIFICATION FairSpec
INVARIANTS TypeOK DescriptorsAccounted
 
CHECK_DEADLOCK FALSE
