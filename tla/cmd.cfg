CONSTANTS
  Client = client
  Space = " "
  Newline = newline
  Everybody = everybody
  Address = address
  NullName = nullname
  NULL = null
  BuffSize = 6
  MaxLen = 6
  Words <- SomeWords
  Slashed <- WithSlash
  Opens <- Commands
  Lines <- ShortLines
SPECIFICATION Spec
INVARIANTS TypeOK  PiecesOfLine
PROPERTY KeepsSession
CHECK_DEADLOCK FALSE
