SPECIFICATION Spec
CONSTANTS
  t1 = t1
  Thread = {t1}
  b1 = b1
  b2 = b2
  Buffer = {b1}
  s1 = s1
  s2 = s2
  Staging = {s1, s2}
  MaxInFlight = 2
  MaxDispatches = 2
  SetsPerPool = 2
  Calls <- OrderlyCalls
  SubmitOutcomes = {TRUE}
  MaxOpened = 3
  MaxSubmissions = 3
SYMMETRY MemorySymmetry
INVARIANTS TypeOK StreamInv DescriptorsSafe StagingSafe BuffersSafe RecordedWorkReachesQueue RingBounded ReapedIsDone HeldOnce
PROPERTIES FinishDrains ReadbackAfterProducer KeepsPromise
