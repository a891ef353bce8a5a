SPECIFICATION HFairSpec
CONSTANTS
  none = none
  big = big
  long = long
  Keys = {k1}
  Values = {none, big, long}
  EmptyVal = none
  KeyLen <- MCKeyLen
  ValLen <- MCValLen
  MaxKeyLen = 63
  MaxValLen = 9
  NumSectors = 3
  SectorSize = 64
  PageSize = 16
  MaxEntries = 3
  SeqWrap = 16
  CountMask = 7
  BitAnd <- MCAnd
  NorDevice = FALSE
  MaxSeq = 4
  NoRebuild = norebuild
  MaxLosses = 2
INVARIANTS
  TypeOK
  PaddedWriteInSector
  WriteFollowsLog
  OnlyLastPastLimit
  ActiveIsNewest
  CompactionKeeps
  WearLevelled
PROPERTIES
  ImplementsDurableLog
  EventuallyReady
\* The bounds MaxSeq and MaxLosses stop the store once both are reached.
CHECK_DEADLOCK FALSE
