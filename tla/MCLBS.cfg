\* Every sequence of calls on one LBS.
\* The process ends when memory does: there is nothing to do then.
CHECK_DEADLOCK FALSE
CONSTANTS
  Garbage = Garbage
  Bytes <- TwoBytes
  NUL = 0
  Top = 1
  Junk <- Garbage
  Grow = 2
  Word = 16
  Limit = 6
  Texts <- SomeTexts
  Blocks <- SomeBlocks
  Converted <- SomeConverted
  Ints <- SomeInts
  Sizes <- SomeSizes
SPECIFICATION Spec
INVARIANTS
  TypeOK
  CursorInside
  AllWritten
  IntRoundTrip
PROPERTIES
  ImplementsStream
