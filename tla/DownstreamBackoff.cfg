\* Two gateways, two providers; the clock can be set back and the file edited.
SPECIFICATION BackoffSpec
CONSTANTS
  Procs = {p1, p2}
  Origins = {o1, o2}
  None = None
  Cap = 2
  Delays = {1, 3}
  FileEdits = {4}
  MaxTime = 2
SYMMETRY Symmetric
INVARIANTS
  FailsFast
  WindowsCapped
