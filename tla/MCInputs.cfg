SPECIFICATION Spec
CONSTANTS
  Keys = {k1, k2}
  Nodes <- MCNodes
INVARIANTS ResolvedByPriority AllOrNothing
CHECK_DEADLOCK FALSE
