SPECIFICATION FairSpec
CONSTANTS
  Sources <- MCSources
  MaxNodes = 8
INVARIANTS
  TypeOK
  OperatorStacksRise
  MatchesGrammar
  UnderflowNeedsMissingOperand
  SingleOwner
PROPERTY EndsUnlessPostFix
CHECK_DEADLOCK FALSE
