SPECIFICATION Spec
CONSTANTS
  Files = {f1, f2}
  Alphabet = {"a", "i", "1", ".", "nl", "#", "quote", "/", "*", "bs", "<", ">", "="}
  Sizes = {0, 2, 7}
  SizeSymbol = 2
INVARIANTS
  InputsHeld
  PositionInStep
PROPERTIES
  LexReturns
CHECK_DEADLOCK FALSE
