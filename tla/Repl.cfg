SPECIFICATION Spec
CONSTANTS
  long = long
  x = x
  y = y
  head = head
  body = body
  set = set
  one = one
  str = str
  wide = wide
  clip = clip
  other = other
  NoBinding = noBinding
  Names = {x, y, long}
  ApiKeys = {x}
  LongNames = {long}
  Lines = {head, body, set, one, str, wide, clip, other}
  LineLen <- MCLineLen
  Typed = {head, set}
  ColonLines = {head}
  Binds <- MCBinds
  Literals <- MCLiterals
  OtherText <- MCOther
  ClippedText <- MCClipped
  BufSize = 8
  ValBuf = 3
  MaxValLen = 5
  KeysMax = 2
  LogCap = 2
INVARIANTS
  TypeOK
  FinishPossible
  BufferExact
PROPERTIES
  RestoreExact
  PutsTouchTheirKey
  PersistedVarsReturn
