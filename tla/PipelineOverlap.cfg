\* Two workers whose leases may run out under them, a rename, a deletion.
CONSTANTS
  Videos = {v1}
  Workers = {w1, w2}
  Editors = {e1}
  Titles = {"Untitled upload"}
  Untitled = "Untitled upload"
  MaxAttempts = 2
  MaxDeliveries = 3
  MinRenditions = 3
  RenditionCounts = {2, 3}
  MaxCopies = 1
  LeaseCoversRun = FALSE
  NoWorker = NoWorker
SPECIFICATION Spec
SYMMETRY Symmetry
INVARIANTS
  TypeOK
  ReadyHasOutputs
  NoSilentLoss
  NoOrphanOutputs
PROPERTY DeletedStaysDeleted
CHECK_DEADLOCK FALSE
