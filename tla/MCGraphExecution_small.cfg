SPECIFICATION Spec
CONSTANTS
  Name <- Names
  Graphs <- SmallGraphs
INVARIANTS TypeOK NeverFails WantedPresent KeptIsNeeded MemoIsCurrent LiveSetHeld RunInv
CHECK_DEADLOCK FALSE
