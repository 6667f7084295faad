SPECIFICATION Spec
CONSTANTS
  Workers = {w1, w2, w3}
  Producers = {main, listener}
  SignalTargets = {w1, w2, w3, main, listener}
  MaxSignals = 2
  Nodes = {n1, n2, n3}
  Tasks = {t1, t2, t3}
  NULL = NULL
SYMMETRY Symmetry
INVARIANTS TypeOK Linked DequeueSafe OneOwner WorkConserving ShutdownFreesAll
PROPERTY FifoSpec
CHECK_DEADLOCK FALSE
