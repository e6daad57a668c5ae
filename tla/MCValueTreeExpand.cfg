SPECIFICATION Spec
CONSTANTS
  Addresses <- MCAddresses
  Scalars = {"INT", "CHAR"}
  Names = {x}
  Data = {0, 1}
  Nils = {TRUE, FALSE}
  MaxItems = 2
  MaxHeap = 4
  MaxRoots = 2
PROPERTIES
  ExpandableGivesItem
CHECK_DEADLOCK FALSE
