SPECIFICATION Spec
CONSTANTS
  MaxWord = 63
  MaxRank = 3
  SmallHost = 1
  TileRows = 2
  TileCols = 2
  LogLocal = 2
  MaxGroups = 2
  MaxRows = 3
  MaxContext = 8
  PairedDim = 4
  BigTile = 4
  SmallTile = 2
  KStep = 2
  MaxBatch = 6
  GemvCols = 2
  GemvGroups = 4
  GemvMaxSplit = 3
  GemvMinPerSplit = 2
  GemvMinK = 4
  Block = 8
  KLanes = 2
  ColTile = 2
  RowTile = 2
  DeepCols = 2
  MaxPartials = 2
  WorkgroupFloor = 2
  SplitTarget = 4
  SplitCap = 3
  SplitMinK = 6
  SplitMinSlice = 2
  PhaseMinMacs = 8
  Jobs <- RacingJobs
  Plan <- OperatorPlan
  Stored <- OperatorStored
  Part <- OperatorPart
  Merged <- OperatorMerged
  LaneStores <- OperatorLaneStores
  Meaning <- OperatorMeaning
  Views <- OperatorViews
  Inferred <- OperatorInferred
  Fits <- TrueOf
INVARIANTS
  Computes
CHECK_DEADLOCK FALSE
