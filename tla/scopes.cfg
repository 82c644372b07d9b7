SPECIFICATION BothSpec
CONSTANTS
  Openers <- TreeOpeners
  NoNode = "none"
  Encloser <- Tree
  Ids = {"x"}
  MaxWalks = 2
  MayThrow = TRUE
  s1 = s1
  s2 = s2
  s3 = s3
  n1 = n1
  n2 = n2
  Scopes = {s1, s2, s3}
  Nodes = {n1, n2}
  OpenedBy <- ScopeOpeners
  VariableIds = {x}
  Values = {v, w}
  None = None
  Maps = {here, saved}
INVARIANTS
  TypeOK
  PathIsInnermost
  ScopesFormTree
  ResolvesLexically
  ChangedHaveEntries
  ChangesAreMarked
  CheckedStaysValid
PROPERTY LexicalSpec
SYMMETRY Symmetry
CHECK_DEADLOCK FALSE
