SPECIFICATION JsonSpec
CONSTANTS
  Trees <- MCTrees
  Documents <- MCDocuments
INVARIANT
  OptionalValuesAreRead
