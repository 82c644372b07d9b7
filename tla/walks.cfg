SPECIFICATION WalksSpec
CONSTANTS
  N = 5
  MaxVector = 4
  Trees <- MCTrees
  Documents <- MCDocuments
INVARIANTS
  TypeOK
  StackIsPath
  ParentsAfterWalk
  FailsOnlyOnArguments
  VisitsChildren
  FailsOnlyOnLeadingNull
  RoundTrip
  AcceptedIsWritable
PROPERTY ParentsAreKept
