SPECIFICATION FairSpec
CONSTANTS
  Workers = {w1, w2, w3}
  Producers = {main, listener}
  SignalTargets = {main}
  MaxSignals = 1
  Nodes = {n1, n2}
  Tasks = {t1, t2}
  NULL = NULL
PROPERTIES FifoFairSpec 
CHECK_DEADLOCK FALSE
