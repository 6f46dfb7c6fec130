\* Two recordings, two overlapping flushes, reloads; one start at a time.
CONSTANTS
  Captures = {c1, c2}
  Flushes = {f1, f2}
  MaxUploadAttempts = 2
  MaxUploads = 2
  OneStartAtATime = TRUE
  NoCapture = NoCapture
SPECIFICATION FairSpec
INVARIANTS
  TypeOK
  ToldIsKept
  CaptureUnderControl
PROPERTY StoppingEnds
CHECK_DEADLOCK FALSE
