\* A client that calls start() again while the first call awaits the capture.
CONSTANTS
  Captures = {c1, c2}
  Flushes = {f1}
  MaxUploadAttempts = 2
  MaxUploads = 2
  OneStartAtATime = FALSE
  NoCapture = NoCapture
SPECIFICATION Spec
INVARIANT OneActiveCapture
CHECK_DEADLOCK FALSE
