SPECIFICATION Spec
CONSTANTS
  Width = 3
  Height = 2
  Glyphs = {a, b}
  Blank = blank
  MaxGone = 2
INVARIANTS
  TypeOK
PROPERTY ImplementsTerminal
