SPECIFICATION Spec
CONSTANTS
  Tokens = {"symbol", "const", "int", "char", "number", "alias", "virtual", "{", "}", "(", ")", "[", "]", ",", ";"}
  MaxTokens = 13
  MaxFile = 7
  MaxBehind = 3
  Numbers = {2}
  MaxParses = 3
INVARIANTS
  ValuesWhole
  AttributesReachItems
  SameForAll
PROPERTIES
  EndReadTwice
  CallsReturn
CHECK_DEADLOCK FALSE
