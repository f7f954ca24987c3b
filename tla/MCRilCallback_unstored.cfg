SPECIFICATION Spec
CONSTANTS
  SimStatus = SimStatus
  imsi = imsi
  None = None
  t1 = t1
  t2 = t2
  two = FALSE
  Kinds <- MCKinds
  Threads <- MCThreads
  Serials <- MCSerials
  RecordsSerial = FALSE
  Repeats = TRUE
  MaxRequests = 3
  MaxUpdates = 0
PROPERTY OwnAnswerNotifies
