SPECIFICATION FairSpec
CONSTANTS
  Workers = {w1, w2}
  Producers = {main, listener}
  SignalTargets = {main}
  MaxSignals = 1
  Nodes = {n1, n2}
  Tasks = {t1, t2}
  NULL = NULL
PROPERTY PoolShutsDown
CHECK_DEADLOCK FALSE
