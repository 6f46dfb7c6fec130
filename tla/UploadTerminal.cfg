\* Two requests at once: a part that is saved late and an abort.
CONSTANTS
  TotalParts = 2
  Requests = {r1, r2}
SPECIFICATION Spec
PROPERTY TerminalIsFinal
CHECK_DEADLOCK FALSE
