\* One worker, no rename: a run that fails after the thumbnail is stored.
CONSTANTS
  Videos = {v1}
  Workers = {w1}
  Editors = {}
  Titles = {"Untitled upload", "Demo"}
  Untitled = "Untitled upload"
  MaxAttempts = 2
  MaxDeliveries = 2
  MinRenditions = 3
  RenditionCounts = {2, 3}
  MaxCopies = 2
  LeaseCoversRun = TRUE
  NoWorker = NoWorker
SPECIFICATION Spec
INVARIANT ExactlyOneThumbnail
CHECK_DEADLOCK FALSE
