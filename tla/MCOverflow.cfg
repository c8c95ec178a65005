SPECIFICATION CpSpec
CONSTANTS
  RowSizes <- MCRowSizes
  IntBits = 6
INVARIANT
  AllTested
CHECK_DEADLOCK FALSE
