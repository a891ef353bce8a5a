SPECIFICATION FairSpec
CONSTANTS
  RamSize = 4
  FrameBudget = 3
  SrvmBudget = 6
  HeapMax = 2
  Window = 3
  Keys <- MCKeys
  Programs <- MCPrograms
  SrvmPrograms <- MCSrvmPrograms
  Unset = Unset
INVARIANTS
  TypeOK
  WithinBudget
  GlobalsKept
PROPERTIES
  EveryRunReturns
