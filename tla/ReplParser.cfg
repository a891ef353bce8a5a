CONSTANTS
  Idents = {"x", "y", "u", "d", "f", "g"}
  Natives = {"f", "g"}
  Procedures = {"g"}
  Strings = {"'a'"}
  Numbers <- MCNumbers
  MaxArgs = 2
  NoTree = NoTree
  FirstVars <- MCFirstVars
  MaxItems = 5
  Inputs <- MCInputs
SPECIFICATION Spec
INVARIANTS ValueExact EffectsExact
PROPERTY Ends
CHECK_DEADLOCK FALSE
