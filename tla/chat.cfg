CONSTANTS
  Lines = {login, leave, blank}
  Local = {}
  LoginLine = login
  LeaveLine = leave
  BlankLine = blank
  Empty = empty
  Goodbye = goodbye
  MaxSubmits = 2
  Self = connected
  Others = {bob}
  WithComma = {}
  WithConnected = {connected}
  Vanishing = {connected}
  Fragment = fragment
  MaxLogins = 2
SPECIFICATION ChatSpec
INVARIANTS ChatTypeOK HowSessionsEnd OnlineIsShown
PROPERTY MessagesAreRead
CHECK_DEADLOCK FALSE
