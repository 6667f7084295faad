CONSTANTS
  Lines = {hello, login, clear}
  Local = {clear}
  Empty = empty
  Goodbye = goodbye
  MaxSubmits = 3
  NULL = null
SPECIFICATION FairSpec
INVARIANTS TypeOK IndexInRange
PROPERTY PipeSpec
CHECK_DEADLOCK FALSE
