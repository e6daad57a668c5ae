SPECIFICATION Spec
CONSTANTS
  Bits = 8
  Uuid = 2
  Declarations <- MCDeclarations
  Texts <- MCTexts
  Ints <- MCInts
  Bytes <- MCBytes
  Floats <- MCFloats
  Numbers <- MCNumbers
  Strings_ <- MCStrings
  Dates <- MCDates
  Options <- MCOptions
  TextOptions <- MCTextOptions
  MaxMoves = 1
  Neighbour <- MCNeighbour
INVARIANTS
  TypeOK
  StringFormRoundTrips
  NumbersAgree
  MoveThereAndBack
  CompareOrders
  SizesSuffice
  BinaryRestores
  TextsRestore
