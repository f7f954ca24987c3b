SPECIFICATION Spec
CONSTANTS
  SimStatus = SimStatus
  imsi = imsi
  None = None
  t1 = t1
  t2 = t2
  two = FALSE
  Kinds <- MCKinds
  Threads <- MCThreads
  Serials <- MCSerials
  RecordsSerial = TRUE
  Repeats = FALSE
  MaxRequests = 3
  MaxUpdates = 1
INVARIANTS MatchIsFresh FalseMeansForeign NotificationIsOwn
PROPERTIES OwnAnswerIsKept OwnAnswerNotifies
