SPECIFICATION Spec
CONSTANTS
  t1 = t1
  t2 = t2
  Thread = {t1, t2}
  b1 = b1
  b2 = b2
  b3 = b3
  b4 = b4
  b5 = b5
  b6 = b6
  Buffer = {b1, b2, b3, b4, b5, b6}
  p1 = p1
  p2 = p2
  Pipeline = {p1, p2}
  s1 = s1
  Staging = {s1}
  Ask <- AlphaAsks
  Program <- TwoAlphas
  Inputs <- In
  Outputs <- Out
  h1 = h1
  h2 = h2
  Handle = {h1, h2}
  Uses <- OrdinaryUse
  MaxRuns <- RunBound
  MaxOpened <- OpenBound
  Address <- Units
  Sizes = {2}
  MaxTensors = 2
  MaxInFlight = 1
SYMMETRY Symmetry
INVARIANTS ContentsKept
CHECK_DEADLOCK FALSE
