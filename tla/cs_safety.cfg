CONSTANTS
  Main = main
  NULL = null
  Everybody = everybody
  Address = address
  bob = bob
  one = one
  digit = digit
  Clients = {c1, c2}
  Workers = {w1, w2}
  Names <- BothNames
  Receivers <- BothReceivers
  Begins <- BothBegin
  MaxLines = 3
  MaxHangUps = 0
SPECIFICATION Spec
SYMMETRY Symmetry
INVARIANTS TypeOK SendersAreNamed ReachesAudience ListingComplete
PROPERTY SessionSpec
CHECK_DEADLOCK FALSE
