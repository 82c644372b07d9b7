SPECIFICATION Spec
CONSTANTS
  Sources <- ShortSources
  MaxNodes = 8
INVARIANT PrefixTakesNextOperand
CHECK_DEADLOCK FALSE
