SPECIFICATION SortingSpec
CONSTANTS
  Items <- MCItems
  Inputs <- MCInputs
  IntMax <- MCIntMax
INVARIANTS
  SortingTypeOK
  EndsSorted
