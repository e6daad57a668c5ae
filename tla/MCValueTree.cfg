SPECIFICATION Spec
CONSTANTS
  Addresses <- MCAddresses
  Scalars = {"INT"}
  Names = {x, y}
  Data = {0}
  Nils = {FALSE}
  MaxItems = 2
  MaxHeap = 4
  MaxRoots = 2
SYMMETRY NameSymmetry
INVARIANTS
  WellFormed
  LongNameFinds
  ExpandKeeps
  DuplicateIsFaithful
CHECK_DEADLOCK FALSE
