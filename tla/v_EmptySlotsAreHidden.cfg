SPECIFICATION LoopSpec
CONSTANT MaxVector = 4
INVARIANT EmptySlotsAreHidden
