\* A conversion that fills what was reserved for it.
\* The process ends when memory does: there is nothing to do then.
CHECK_DEADLOCK FALSE
CONSTANTS
  Garbage = Garbage
  Bytes <- TwoBytes
  NUL = 0
  Top = 1
  Junk <- Garbage
  Grow = 2
  Word = 16
  Limit = 6
  Texts <- SomeTexts
  Blocks <- SomeBlocks
  Converted <- FullConverted
  Ints <- SomeInts
  Sizes <- SomeSizes
SPECIFICATION Spec
INVARIANTS
  TerminatorInside
