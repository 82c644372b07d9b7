SPECIFICATION FairSpec
CONSTANT Sources <- SourceTexts
INVARIANTS
  TreeSpellsText
  RejectsOnlyNonPrograms
  NodesAreHeld
  LeaksOneRawTree
PROPERTY Termination
