\* One worker and one rename during the run.
CONSTANTS
  Videos = {v1}
  Workers = {w1}
  Editors = {e1}
  Titles = {"Untitled upload", "Demo"}
  Untitled = "Untitled upload"
  MaxAttempts = 2
  MaxDeliveries = 2
  MinRenditions = 3
  RenditionCounts = {2, 3}
  MaxCopies = 1
  LeaseCoversRun = TRUE
  NoWorker = NoWorker
SPECIFICATION Spec
PROPERTY StatusWritesKeepTitle
CHECK_DEADLOCK FALSE
