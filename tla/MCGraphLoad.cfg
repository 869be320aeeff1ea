SPECIFICATION FairSpec
CONSTANTS
  MaxWord = 63
  HeadDim = 6
  MaxUnsqueezes = 4
  MaxReshapes = 3
  Models <- AllModels
  Graphs <- AllGraphs
INVARIANTS TypeOK OneWay Maximal Preserves OutputsProduced LeftIsRead ClaimedIsAccepted TypesHold
PROPERTIES GroupsFound
CHECK_DEADLOCK FALSE
