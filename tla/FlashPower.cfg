SPECIFICATION HSpec
CONSTANTS
  none = none
  big = big
  long = long
  Keys = {k1, k2}
  Values = {none, big}
  EmptyVal = none
  KeyLen <- MCKeyLen
  ValLen <- MCValLen
  MaxKeyLen = 63
  MaxValLen = 9
  NumSectors = 3
  SectorSize = 64
  PageSize = 16
  MaxEntries = 8
  SeqWrap = 16
  CountMask = 7
  BitAnd <- MCAnd
  NorDevice = FALSE
  MaxSeq = 3
  NoRebuild = norebuild
  MaxLosses = 1
INVARIANTS
  SurvivesPowerCycles
\* The bounds MaxSeq and MaxLosses stop the store once both are reached.
CHECK_DEADLOCK FALSE
