SPECIFICATION Spec
CONSTANTS
  pattern = pattern
  blit = blit
  user = user
  Blocks = {0, 1}
  SMs = {0, 1}
  Depth = 2
  Channels = {0}
  Engines = {pattern}
  Blit = blit
  User = user
  Parts <- MCParts
  MaxRows = 2
  MaxWords = 3
  MaxForeign = 1
CONSTRAINT Bounds
INVARIANTS
  OwnWords
  WordsWhole
  NothingKept
