CONSTANTS
  Main = main
  NULL = null
  Everybody = everybody
  Address = address
  bob = bob
  one = one
  digit = digit
  Clients = {c1, c2}
  Workers = {w1}
  Names <- OneName
  Receivers <- OneReceiver
  Begins <- OneBegins
  MaxLines = 2
  MaxHangUps = 1
SPECIFICATION FairSpec
PROPERTY MessageArrives
CHECK_DEADLOCK FALSE
