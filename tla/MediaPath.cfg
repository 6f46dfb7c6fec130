\* A client that sends one request at a time, two workers that may crash.
CONSTANTS
  TotalParts = 2
  Requests = {r1}
  Videos = {v1, v2}
  Workers = {w1, w2}
  Editors = {}
  Titles = {"Untitled upload"}
  Untitled = "Untitled upload"
  MaxAttempts = 3
  MaxDeliveries = 3
  MinRenditions = 3
  RenditionCounts = {2, 3}
  MaxCopies = 1
  LeaseCoversRun = TRUE
  NoWorker = NoWorker
SPECIFICATION FairSpec
INVARIANTS
  OneVideoPerUpload
  VideoHasSource
  SerialAckedIsRecorded
PROPERTIES
  SessionKeepsPromise
  DispatchedSettles
  ImplementsLifecycle
CHECK_DEADLOCK FALSE
