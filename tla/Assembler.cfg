SPECIFICATION FairSpec
CONSTANTS
  x = x
  y = y
  NoLabel = nolabel
  NoOp = noop
  Sources <- MCSources
  Names <- MCNames
  Ops <- MCOps
INVARIANTS
  TypeOK
  OperandsSurvive
  BackwardTargetsLand
PROPERTY Terminates
\* A program that was assembled or refused stays so.
CHECK_DEADLOCK FALSE
