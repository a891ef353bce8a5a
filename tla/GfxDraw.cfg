SPECIFICATION DrawSpec
CONSTANTS
  black = black
  red = red
  blue = blue
  Width = 3
  Height = 2
  Half = 16
  ImmHalf = 4
  Colors <- MCColors
  RamPixel <- MCRamPixel
  Extents <- MCExtents
  Corners <- MCCorners
VIEW PixelsAndType
INVARIANTS
  DrawTypeOK
PROPERTIES
  FillClips
  BlitExact
