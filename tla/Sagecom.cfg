SPECIFICATION SagecomSpec
CONSTANTS
  Text = Text
  CR = CR
  LF = LF
  NUL = NUL
  CtrlA = CtrlA
  Tilde = Tilde
  Dot = Dot
  Q = Q
  ClearKey = ClearKey
  Other = Other
  Retries = 1
  ReadMax = 2
  MaxEvents = 4
INVARIANTS
  ShownExact
  KeysExact
PROPERTY
  Served
CHECK_DEADLOCK FALSE
