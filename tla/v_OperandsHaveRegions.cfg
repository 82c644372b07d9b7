SPECIFICATION Spec
CONSTANTS
  MaxNodes = 3
  MaxRoots = 1
  MaxVector = 2
INVARIANT OperandsHaveRegions
