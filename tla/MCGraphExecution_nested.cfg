SPECIFICATION Spec
CONSTANTS
  Name <- Names
  Graphs <- NestedGraphs
INVARIANTS NeverFails
CHECK_DEADLOCK FALSE
