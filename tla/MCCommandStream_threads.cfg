SPECIFICATION FairSpec
CONSTANTS
  t1 = t1
  t2 = t2
  Thread = {t1, t2}
  b1 = b1
  Buffer = {b1}
  s1 = s1
  Staging = {s1}
  MaxInFlight = 1
  MaxDispatches = 1
  SetsPerPool = 2
  Calls <- RecordingCalls
  SubmitOutcomes = {TRUE}
  MaxOpened = 2
  MaxSubmissions = 2
INVARIANTS HeldOnce
PROPERTIES CallsReturn
