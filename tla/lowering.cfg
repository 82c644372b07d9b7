SPECIFICATION FairSpec
CONSTANTS
  MaxNodes = 5
  MaxRoots = 2
  MaxVector = 2
INVARIANTS
  RootHoldsWholeTrees
  LostAfterNestedThrow
PROPERTIES
  EndsUnlessList
