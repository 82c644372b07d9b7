SPECIFICATION Spec
CONSTANTS
  Classes <- EveryKind
  MaxNodes = 4
  MaxSlots = 2
INVARIANTS
  OneOwner
  SharedIdsAreAssignments
PROPERTIES
  ParentsChangeToOwners
  BuildKeepsOwners
CHECK_DEADLOCK FALSE
