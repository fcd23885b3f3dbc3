SPECIFICATION Spec
CONSTANTS
  MaxVersion = 5
  MaxEdges = 7
INVARIANTS UniqueOrRefused PlanIsValid
CHECK_DEADLOCK FALSE
