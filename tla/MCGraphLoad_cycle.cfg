SPECIFICATION Spec
CONSTANTS
  MaxWord = 63
  HeadDim = 6
  MaxUnsqueezes = 4
  MaxReshapes = 3
  Models <- Cycle
  Graphs <- CycleGraphs
INVARIANT QuotientAcyclic
CHECK_DEADLOCK FALSE
