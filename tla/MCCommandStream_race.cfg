SPECIFICATION Spec
CONSTANTS
  t1 = t1
  t2 = t2
  Thread = {t1, t2}
  b1 = b1
  Buffer = {b1}
  s1 = s1
  Staging = {s1}
  MaxInFlight = 1
  MaxDispatches = 2
  SetsPerPool = 2
  Calls <- RecordingCalls
  SubmitOutcomes = {TRUE}
  MaxOpened = 3
  MaxSubmissions = 3
INVARIANT RecordedWorkReachesQueue
